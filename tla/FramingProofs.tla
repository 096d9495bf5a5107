--------------------------- MODULE FramingProofs ---------------------------
(***************************************************************************)
(* Proofs about Framing, for any base, any word, any types and payloads    *)
(* and any number of messages: what one end writes the other reads back,   *)
(* wherever the reads are cut.                                             *)
(***************************************************************************)
EXTENDS Framing, SequenceTheorems, Induction

-----------------------------------------------------------------------------
(* Numbers.                                                                *)

\* There are two digits or more.
LEMMA BaseFact == Base \in Nat /\ Base >= 2
BY FramingAssumption

\* What the assumption says of the other constants.
LEMMA Constants ==
  /\ Groups \in Nat /\ Groups >= 1
  /\ Word \in Nat /\ Word <= Power[Groups]
  /\ Types \subseteq 0..(Word - 1)
  /\ \A t \in Types : t % TypeWord = t
  /\ \A p \in Payloads : p \in Seq(Byte) /\ Len(p) < Word
<1>1. /\ Groups \in Nat /\ Groups >= 1
      /\ Word \in Nat /\ Word <= Power[Groups]
      /\ \A p \in Payloads : p \in Seq(Byte) /\ Len(p) < Word
  BY FramingAssumption
<1>2. /\ TypeWord \in Nat /\ TypeWord >= 1 /\ TypeWord <= Word
      /\ Types \subseteq 0..(TypeWord - 1)
  BY FramingAssumption
<1>3. ASSUME NEW t \in 0..(TypeWord - 1)
      PROVE  t \in 0..(Word - 1) /\ t % TypeWord = t
  BY <1>1, <1>2
<1> QED BY <1>1, <1>2, <1>3

\* A number is its last digit and the others.
LEMMA Digits ==
  ASSUME NEW v \in Nat
  PROVE  /\ v % Base \in 0..(Base - 1)
         /\ v \div Base \in Nat
         /\ v = Base * (v \div Base) + (v % Base)
         /\ v < Base => v % Base = v
         /\ v >= Base => v \div Base < v
BY BaseFact

\* The mask undoes the continuation bit.
LEMMA Masked ==
  ASSUME NEW d \in 0..(Base - 1)
  PROVE  /\ d % Base = d
         /\ (Base + d) % Base = d
         /\ d \in Byte /\ Base + d \in Byte
BY BaseFact DEF Byte

\* Bytes make sequences of bytes.
LEMMA ByteSeq ==
  ASSUME NEW b \in Byte
  PROVE  /\ <<b>> \in Seq(Byte)
         /\ \A s \in Seq(Byte) : <<b>> \o s \in Seq(Byte)
OBVIOUS

\* A number below Base times m has a quotient below m.
LEMMA Quotient ==
  ASSUME NEW v \in Nat, NEW m \in Nat, v < Base * m
  PROVE  v \div Base < m
<1>1. PICK q \in Nat, r \in Nat : q = v \div Base /\ v = Base * q + r
  <2>1. /\ v \div Base \in Nat /\ v % Base \in Nat
        /\ v = Base * (v \div Base) + (v % Base)
    BY Digits, BaseFact
  <2> QED BY <2>1
<1>2. ASSUME m <= q PROVE FALSE
  <2>1. PICK k \in Nat : q = m + k
    <3>1. q - m \in Nat /\ q = m + (q - m)
      BY <1>1, <1>2
    <3> QED BY <3>1
  <2>2. Base * q = Base * m + Base * k
    BY <2>1, BaseFact
  <2>3. Base * k \in Nat
    BY BaseFact
  <2>4. Base * m \in Nat
    BY BaseFact
  <2> QED BY <1>1, <2>2, <2>3, <2>4, BaseFact
<1> QED BY <1>1, <1>2

-----------------------------------------------------------------------------
(* The recursive definitions.                                              *)

\* Base ^ 0 and Base ^ (k + 1).
LEMMA PowerStep ==
  /\ Power[0] = 1
  /\ \A k \in Nat : Power[k] \in Nat /\ Power[k + 1] = Base * Power[k]
<1> DEFINE step == [x \in Nat \X Nat |-> Base * x[2]]
<1>1. PICK f : Iterates(f, 1, step, Nat)
  <2>1. step \in [Nat \X Nat -> Nat]
    BY BaseFact
  <2> HIDE DEF step
  <2> QED BY <2>1, Recursion
<1>2. f[0] = 1 /\ \A n \in Nat : f[n] \in Nat /\ f[n + 1] = Base * f[n]
  BY <1>1 DEF Iterates
<1>3. f = [n \in Nat |-> IF n = 0 THEN 1 ELSE Base * f[n - 1]]
  <2>1. ASSUME NEW n \in Nat
        PROVE  f[n] = IF n = 0 THEN 1 ELSE Base * f[n - 1]
    <3>1. CASE n # 0
      <4>1. n - 1 \in Nat /\ n = (n - 1) + 1
        BY <3>1
      <4> QED BY <1>2, <3>1, <4>1
    <3> QED BY <1>2, <3>1
  <2> QED BY <1>1, <2>1 DEF Iterates
<1>4. Power = [n \in Nat |-> IF n = 0 THEN 1 ELSE Base * Power[n - 1]]
  BY <1>3, Zenon DEF Power
<1>5. Power[0] = 1 /\ \A n \in Nat : Power[n + 1] = Base * Power[n]
  BY <1>4
<1> DEFINE T == {n \in Nat : Power[n] \in Nat}
<1>6. 0 \in T
  BY <1>5
<1>7. ASSUME NEW n \in Nat, n \in T PROVE n + 1 \in T
  <2>1. Power[n] \in Nat /\ Power[n + 1] = Base * Power[n]
    BY <1>5, <1>7
  <2> QED BY <2>1, BaseFact
<1>8. \A n \in T : Power[n] \in Nat
  OBVIOUS
<1> HIDE DEF T
<1> QED BY <1>5, <1>6, <1>7, <1>8, Induct

\* The last byte, or a byte with the continuation bit and those of the
\* quotient.
LEMMA EncodeStep ==
  \A v \in Nat :
    /\ encode_varint[v] \in Seq(Byte)
    /\ v < Base => encode_varint[v] = <<v>>
    /\ v >= Base => encode_varint[v] = <<Base + (v % Base)>>
                                         \o encode_varint[v \div Base]
<1> DEFINE start == [v \in Nat |-> IF v < Base THEN <<v>> ELSE <<>>]
           down  == [v \in Nat |-> v \div Base]
           Stop  == {v \in Nat : v < Base}
           step  == [x \in Nat \X Seq(Byte) |->
                       <<Base + (x[1] % Base)>> \o x[2]]
<1>1. PICK f \in [Nat -> Seq(Byte)] : Descends(f, Stop, start, down, step)
  <2>1. start \in [Nat -> Seq(Byte)]
    <3>1. ASSUME NEW v \in Nat
          PROVE  (IF v < Base THEN <<v>> ELSE <<>>) \in Seq(Byte)
      <4>1. v < Base => v \in Byte
        BY BaseFact DEF Byte
      <4> QED BY <4>1, ByteSeq
    <3> QED BY <3>1
  <2>2. down \in [Nat -> Nat] /\ \A v \in Nat \ Stop : down[v] < v
    <3>1. ASSUME NEW v \in Nat
          PROVE  /\ v \div Base \in Nat
                 /\ v \notin Stop => v \div Base < v
      BY Digits, BaseFact
    <3> QED BY <3>1
  <2>3. step \in [Nat \X Seq(Byte) -> Seq(Byte)]
    <3>1. ASSUME NEW n \in Nat, NEW s \in Seq(Byte)
          PROVE  <<Base + (n % Base)>> \o s \in Seq(Byte)
      BY Digits, Masked
    <3> QED BY <3>1
  <2>4. Stop \in SUBSET Nat
    OBVIOUS
  <2> HIDE DEF Stop, start, down, step
  <2> QED BY <2>1, <2>2, <2>3, <2>4, StrongRecursion
<1>2. \A v \in Nat :
        f[v] = IF v < Base THEN <<v>>
               ELSE <<Base + (v % Base)>> \o f[v \div Base]
  <2> SUFFICES ASSUME NEW v \in Nat
               PROVE  f[v] = IF v < Base THEN <<v>>
                             ELSE <<Base + (v % Base)>> \o f[v \div Base]
    OBVIOUS
  <2>1. f[v] = IF v \in Stop THEN start[v] ELSE step[<<v, f[down[v]]>>]
    BY <1>1 DEF Descends
  <2>2. v \div Base \in Nat /\ f[v \div Base] \in Seq(Byte)
    BY Digits
  <2>3. down[v] = v \div Base /\ start[v] = IF v < Base THEN <<v>> ELSE <<>>
    OBVIOUS
  <2>4. step[<<v, f[v \div Base]>>] = <<Base + (v % Base)>> \o f[v \div Base]
    BY <2>2
  <2>5. v \in Stop <=> v < Base
    OBVIOUS
  <2> HIDE DEF Stop, start, down, step
  <2> QED BY <2>1, <2>3, <2>4, <2>5
<1>3. f = [v \in Nat |-> IF v < Base THEN <<v>>
                         ELSE <<Base + (v % Base)>> \o f[v \div Base]]
  BY <1>2
<1>4. encode_varint = [v \in Nat |->
                         IF v < Base THEN <<v>>
                         ELSE <<Base + (v % Base)>>
                                \o encode_varint[v \div Base]]
  BY <1>3, Zenon DEF encode_varint
<1>5. ASSUME NEW v \in Nat
      PROVE  /\ v < Base => encode_varint[v] = <<v>>
             /\ v >= Base => encode_varint[v] = <<Base + (v % Base)>>
                                                  \o encode_varint[v \div Base]
  <2>1. encode_varint[v] = IF v < Base THEN <<v>>
                           ELSE <<Base + (v % Base)>>
                                  \o encode_varint[v \div Base]
    BY <1>4, Zenon
  <2>2. v >= Base => ~(v < Base)
    BY BaseFact
  <2> QED BY <2>1, <2>2, Zenon
<1> DEFINE T == {n \in Nat : \A v \in 0..n : encode_varint[v] \in Seq(Byte)}
<1>6. 0 \in T
  <2>1. 0 \in Byte /\ 0 < Base
    BY BaseFact DEF Byte
  <2>2. encode_varint[0] \in Seq(Byte)
    BY <2>1, <1>5, ByteSeq
  <2> QED BY <2>2
<1>7. ASSUME NEW n \in Nat, n \in T PROVE n + 1 \in T
  <2> SUFFICES ASSUME NEW v \in 0..(n + 1)
               PROVE  encode_varint[v] \in Seq(Byte)
    OBVIOUS
  <2> v \in Nat
    OBVIOUS
  <2>1. CASE v < Base
    <3>1. v \in Byte
      BY <2>1, BaseFact DEF Byte
    <3> QED BY <3>1, <2>1, <1>5, ByteSeq, Zenon
  <2>2. CASE v >= Base
    <3>1. v \div Base \in 0..n /\ v % Base \in 0..(Base - 1)
      BY <2>2, Digits
    <3>2. encode_varint[v \div Base] \in Seq(Byte) /\ Base + (v % Base) \in Byte
      BY <3>1, <1>7, Masked
    <3>3. <<Base + (v % Base)>> \o encode_varint[v \div Base] \in Seq(Byte)
      BY <3>2, ByteSeq
    <3> QED BY <3>3, <2>2, <1>5, Zenon
  <2> QED BY <2>1, <2>2, BaseFact
<1>8. \A n \in T : encode_varint[n] \in Seq(Byte)
  OBVIOUS
<1> HIDE DEF T
<1> QED BY <1>5, <1>6, <1>7, <1>8, Induct

\* What is left of a sequence is one.
LEMMA TailSeq ==
  ASSUME NEW S, NEW s \in Seq(S), s # <<>>
  PROVE  /\ Head(s) \in S /\ Tail(s) \in Seq(S)
         /\ Len(s) \in Nat /\ Len(s) >= 1 /\ Len(Tail(s)) = Len(s) - 1
         /\ Head(s) = s[1]
         /\ \A i \in 1..Len(Tail(s)) : Tail(s)[i] = s[i + 1]
OBVIOUS

\* No digits, or a digit and Base times the number of the others.
LEMMA NumberStep ==
  \A n \in Nat : \A ds \in Seq(Nat) :
    /\ Number[n][ds] \in Nat
    /\ Number[0][ds] = 0
    /\ ds # <<>> => Number[n + 1][ds] = Head(ds) + Base * Number[n][Tail(ds)]
<1> DEFINE S == [Seq(Nat) -> Nat]
           zero == [ds \in Seq(Nat) |-> 0]
           next(g) == [ds \in Seq(Nat) |->
                         IF ds = <<>> THEN 0
                         ELSE Head(ds) + Base * g[Tail(ds)]]
           step == [x \in Nat \X S |-> next(x[2])]
<1>1. \A g \in S : next(g) \in S
  <2> SUFFICES ASSUME NEW g \in S, NEW ds \in Seq(Nat), ds # <<>>
               PROVE  Head(ds) + Base * g[Tail(ds)] \in Nat
    OBVIOUS
  <2>1. Head(ds) \in Nat /\ g[Tail(ds)] \in Nat
    BY TailSeq
  <2> QED BY <2>1, BaseFact
<1>2. PICK f : Iterates(f, zero, step, S)
  <2>1. zero \in S
    OBVIOUS
  <2>2. step \in [Nat \X S -> S]
    BY <1>1
  <2> HIDE DEF S, zero, step
  <2> QED BY <2>1, <2>2, Recursion
<1>3. /\ f \in [Nat -> S] /\ f[0] = zero
      /\ \A n \in Nat : f[n + 1] = next(f[n])
  <2>1. /\ f \in [Nat -> S] /\ f[0] = zero
        /\ \A n \in Nat : f[n + 1] = step[<<n, f[n]>>]
    BY <1>2 DEF Iterates
  <2>2. \A n \in Nat : \A g \in S : step[<<n, g>>] = next(g)
    OBVIOUS
  <2> HIDE DEF S, zero, step, next
  <2> QED BY <2>1, <2>2
<1> DEFINE F(g) == [n \in Nat |->
                      [ds \in Seq(Nat) |->
                         IF n = 0 \/ ds = <<>> THEN 0
                         ELSE Head(ds) + Base * g[n - 1][Tail(ds)]]]
<1>4. f = F(f)
  <2>1. ASSUME NEW n \in Nat PROVE f[n] = F(f)[n]
    <3>1. CASE n = 0
      BY <3>1, <1>3
    <3>2. CASE n # 0
      <4>1. n - 1 \in Nat /\ n = (n - 1) + 1
        BY <3>2
      <4>2. f[n] = next(f[n - 1])
        BY <4>1, <1>3, Zenon
      <4> QED BY <3>2, <4>2
    <3> QED BY <3>1, <3>2
  <2> HIDE DEF S
  <2> QED BY <1>3, <2>1
<1>5. Number = F(Number)
  BY <1>4, Zenon DEF Number
<1>6. ASSUME NEW n \in Nat, NEW ds \in Seq(Nat)
      PROVE  Number[n][ds] = IF n = 0 \/ ds = <<>> THEN 0
                             ELSE Head(ds) + Base * Number[n - 1][Tail(ds)]
  <2>1. F(Number)[n] =
          [es \in Seq(Nat) |-> IF n = 0 \/ es = <<>> THEN 0
             ELSE Head(es) + Base * Number[n - 1][Tail(es)]]
    OBVIOUS
  <2>2. F(Number)[n][ds] = IF n = 0 \/ ds = <<>> THEN 0
                           ELSE Head(ds) + Base * Number[n - 1][Tail(ds)]
    BY <2>1, Zenon
  <2> HIDE DEF F
  <2>3. Number[n] = F(Number)[n]
    BY <1>5, Zenon
  <2> QED BY <2>2, <2>3, Zenon
<1>7. ASSUME NEW n \in Nat, NEW ds \in Seq(Nat)
      PROVE  /\ Number[0][ds] = 0
             /\ ds = <<>> => Number[n][ds] = 0
             /\ ds # <<>> =>
                  Number[n + 1][ds] = Head(ds) + Base * Number[n][Tail(ds)]
  <2>1. n + 1 \in Nat /\ n + 1 # 0 /\ (n + 1) - 1 = n /\ 0 \in Nat
    OBVIOUS
  <2>2. Number[0][ds] = 0 /\ (ds = <<>> => Number[n][ds] = 0)
    BY <2>1, <1>6, Zenon
  <2>3. ASSUME ds # <<>>
        PROVE  Number[n + 1][ds] = Head(ds) + Base * Number[n][Tail(ds)]
    <3>1. Number[n + 1][ds] = Head(ds) + Base * Number[(n + 1) - 1][Tail(ds)]
      BY <2>1, <2>3, <1>6, Zenon
    <3> QED BY <3>1, <2>1, Zenon
  <2> QED BY <2>2, <2>3
<1> HIDE DEF F, S
<1> DEFINE T == {n \in Nat : \A ds \in Seq(Nat) : Number[n][ds] \in Nat}
<1>8. 0 \in T
  <2>1. ASSUME NEW ds \in Seq(Nat) PROVE Number[0][ds] \in Nat
    BY <1>7
  <2> QED BY <2>1
<1>9. ASSUME NEW n \in Nat, n \in T PROVE n + 1 \in T
  <2>1. \A ds \in Seq(Nat) : Number[n][ds] \in Nat
    BY <1>9
  <2>2. ASSUME NEW ds \in Seq(Nat) PROVE Number[n + 1][ds] \in Nat
    <3> n + 1 \in Nat OBVIOUS
    <3>1. CASE ds = <<>>
      <4>1. Number[n + 1][ds] = 0
        BY <3>1, <1>7, Zenon
      <4> QED BY <4>1
    <3>2. CASE ds # <<>>
      <4>1. Head(ds) \in Nat /\ Tail(ds) \in Seq(Nat)
        BY <3>2, TailSeq
      <4>2. PICK a \in Nat : a = Head(ds)
        BY <4>1
      <4>3. PICK b \in Nat : b = Number[n][Tail(ds)]
        BY <4>1, <2>1
      <4>4. Number[n + 1][ds] = a + Base * b
        BY <3>2, <1>7, <4>2, <4>3, Zenon
      <4>5. a + Base * b \in Nat
        BY BaseFact
      <4> QED BY <4>4, <4>5, Zenon
    <3> QED BY <3>1, <3>2
  <2> QED BY <2>2
<1>10. \A n \in T : \A ds \in Seq(Nat) : Number[n][ds] \in Nat
  OBVIOUS
<1> HIDE DEF T
<1>11. \A n \in Nat : \A ds \in Seq(Nat) : Number[n][ds] \in Nat
  BY <1>8, <1>9, <1>10, Induct
<1> QED BY <1>7, <1>11

-----------------------------------------------------------------------------
(* Varints.                                                                *)

\* The bytes of a number without their continuation bits.
Masks(code) == [i \in 1..Len(code) |-> code[i] % Base]

\* They are a number for each byte.
LEMMA MaskBytes ==
  ASSUME NEW s \in Seq(Byte)
  PROVE  /\ Masks(s) \in Seq(Nat)
         /\ Len(Masks(s)) = Len(s)
         /\ \A i \in 1..Len(s) : Masks(s)[i] = s[i] % Base
<1>1. Len(s) \in Nat
  OBVIOUS
<1>2. ASSUME NEW i \in 1..Len(s) PROVE s[i] % Base \in Nat
  <2>1. s[i] \in Nat
    BY BaseFact DEF Byte
  <2> QED BY <2>1, BaseFact
<1> QED BY <1>1, <1>2 DEF Masks

\* The digits of a byte and more are its digit and theirs.
LEMMA MaskCons ==
  ASSUME NEW b \in Byte, NEW s \in Seq(Byte)
  PROVE  /\ Masks(<<b>> \o s) # <<>>
         /\ Head(Masks(<<b>> \o s)) = b % Base
         /\ Tail(Masks(<<b>> \o s)) = Masks(s)
<1> DEFINE c == <<b>> \o s
<1>1. /\ c \in Seq(Byte) /\ Len(c) = Len(s) + 1
      /\ c[1] = b /\ \A i \in 1..Len(s) : c[i + 1] = s[i]
  OBVIOUS
<1> HIDE DEF c
<1>2. /\ Masks(c) \in Seq(Nat) /\ Len(Masks(c)) = Len(s) + 1
      /\ \A i \in 1..Len(c) : Masks(c)[i] = c[i] % Base
  BY <1>1, MaskBytes
<1>3. /\ Masks(s) \in Seq(Nat) /\ Len(Masks(s)) = Len(s)
      /\ \A i \in 1..Len(s) : Masks(s)[i] = s[i] % Base
  BY MaskBytes
<1>4. Len(s) \in Nat
  OBVIOUS
<1>5. Masks(c) # <<>> /\ Head(Masks(c)) = b % Base
  <2>1. Masks(c) # <<>>
    BY <1>2, <1>4
  <2>2. Head(Masks(c)) = Masks(c)[1] /\ 1 \in 1..Len(c)
    BY <1>1, <1>2, <1>4, <2>1
  <2> QED BY <1>1, <1>2, <2>1, <2>2
<1>6. Tail(Masks(c)) = Masks(s)
  <2>1. /\ Tail(Masks(c)) \in Seq(Nat) /\ Len(Tail(Masks(c))) = Len(s)
        /\ \A i \in 1..Len(s) : Tail(Masks(c))[i] = Masks(c)[i + 1]
    BY <1>2, <1>4, <1>5
  <2>2. ASSUME NEW i \in 1..Len(s) PROVE Tail(Masks(c))[i] = Masks(s)[i]
    <3>1. i + 1 \in 1..Len(c) /\ c[i + 1] = s[i]
      BY <1>1, <1>4
    <3>2. Masks(c)[i + 1] = s[i] % Base
      BY <1>2, <3>1
    <3> QED BY <1>3, <2>1, <3>2
  <2> QED BY <1>3, <2>1, <2>2, SeqEqual
<1> QED BY <1>5, <1>6 DEF c

\* What the bytes of a number are: all of them but the last have the
\* continuation bit, and their digits are those of the number.
Codes(v) ==
  LET code == encode_varint[v] IN
    /\ Len(code) >= 1
    /\ \A i \in 1..(Len(code) - 1) : code[i] >= Base
    /\ code[Len(code)] < Base
    /\ Number[Len(code)][Masks(code)] = v

\* The bytes encode_varint writes are those of the number.
LEMMA VarintCode ==
  \A v \in Nat : Codes(v)
<1> DEFINE T == {n \in Nat : \A v \in 0..n : Codes(v)}
<1>1. ASSUME NEW v \in Nat, v < Base PROVE Codes(v)
  <2>1. encode_varint[v] = <<v>> /\ v \in Byte
    <3>1. encode_varint[v] = <<v>>
      BY <1>1, EncodeStep
    <3>2. v \in Byte
      BY <1>1, BaseFact DEF Byte
    <3> QED BY <3>1, <3>2
  <2>2. v % Base = v
    BY <1>1, Digits
  <2> DEFINE ds == Masks(<<v>>)
  <2>3. ds = <<v>>
    <3>1. Len(<<v>>) = 1 /\ \A i \in 1..1 : <<v>>[i] = v
      OBVIOUS
    <3> QED BY <3>1, <2>2 DEF Masks
  <2>4. ds \in Seq(Nat) /\ ds # <<>> /\ Head(ds) = v /\ Tail(ds) \in Seq(Nat)
    <3> HIDE DEF ds
    <3>1. <<v>> \in Seq(Nat) /\ <<v>> # <<>> /\ <<v>>[1] = v
      OBVIOUS
    <3> QED BY <2>3, <3>1, TailSeq
  <2> HIDE DEF ds
  <2>5. Number[1][ds] = v
    <3>1. Number[0 + 1][ds] = Head(ds) + Base * Number[0][Tail(ds)]
      BY <2>4, NumberStep
    <3>2. Number[0][Tail(ds)] = 0
      BY <2>4, NumberStep
    <3>3. Base * 0 = 0
      BY BaseFact
    <3> QED BY <3>1, <3>2, <3>3, <2>4
  <2>6. Len(<<v>>) = 1 /\ <<v>>[1] = v
    OBVIOUS
  <2> QED BY <2>1, <2>5, <2>6, <1>1 DEF Codes, ds
<1>2. 0 \in T
  <2>1. Codes(0)
    BY <1>1, BaseFact
  <2> QED BY <2>1
<1>3. ASSUME NEW n \in Nat, n \in T PROVE n + 1 \in T
  <2> SUFFICES ASSUME NEW v \in 0..(n + 1), v >= Base PROVE Codes(v)
    BY <1>1, BaseFact
  <2> v \in Nat
    OBVIOUS
  <2>1. PICK q \in Nat, r \in 0..(Base - 1) :
          q = v \div Base /\ r = v % Base /\ v = Base * q + r /\ q < v
    BY Digits
  <2> DEFINE c == encode_varint[q]
             code == encode_varint[v]
             b == Base + r
  <2>2. Codes(q)
    BY <1>3, <2>1
  <2>3. b \in Byte /\ b >= Base /\ b % Base = r /\ c \in Seq(Byte)
    <3>1. b \in Byte /\ b % Base = r
      BY Masked
    <3>2. b >= Base
      BY BaseFact
    <3>3. c \in Seq(Byte)
      BY EncodeStep
    <3> QED BY <3>1, <3>2, <3>3
  <2>4. code = <<b>> \o c
    BY <2>1, EncodeStep
  <2>5. /\ Len(c) \in Nat /\ Len(c) >= 1
        /\ \A i \in 1..(Len(c) - 1) : c[i] >= Base
        /\ c[Len(c)] < Base
        /\ Number[Len(c)][Masks(c)] = q
    BY <2>2, <2>3 DEF Codes
  <2>6. code \in Seq(Byte) /\ Masks(code) \in Seq(Nat)
        /\ Masks(c) \in Seq(Nat)
    BY EncodeStep, MaskBytes
  <2> HIDE DEF c, code, b
  <2>7. /\ Len(code) = Len(c) + 1
        /\ code[1] = b /\ \A i \in 1..Len(c) : code[i + 1] = c[i]
    BY <2>3, <2>4
  <2>8. \A i \in 1..(Len(code) - 1) : code[i] >= Base
    <3> SUFFICES ASSUME NEW i \in 1..(Len(code) - 1) PROVE code[i] >= Base
      OBVIOUS
    <3>1. CASE i = 1
      BY <3>1, <2>3, <2>7
    <3>2. CASE i # 1
      <4>1. i - 1 \in 1..(Len(c) - 1) /\ i - 1 \in 1..Len(c)
            /\ (i - 1) + 1 = i
        BY <3>2, <2>5, <2>7
      <4> QED BY <4>1, <2>5, <2>7
    <3> QED BY <3>1, <3>2
  <2>9. code[Len(code)] < Base
    BY <2>5, <2>7
  <2>10. Number[Len(code)][Masks(code)] = v
    <3>1. Masks(code) # <<>> /\ Head(Masks(code)) = r
          /\ Tail(Masks(code)) = Masks(c)
      BY <2>3, <2>4, MaskCons
    <3>2. Number[Len(c) + 1][Masks(code)]
            = Head(Masks(code)) + Base * Number[Len(c)][Tail(Masks(code))]
      BY <2>5, <2>6, <3>1, NumberStep
    <3>3. Number[Len(c) + 1][Masks(code)] = r + Base * q
      BY <3>1, <3>2, <2>5
    <3>4. r + Base * q = v
      BY <2>1, BaseFact
    <3> QED BY <3>3, <3>4, <2>7
  <2>11. Len(code) >= 1
    BY <2>5, <2>7
  <2> QED BY <2>8, <2>9, <2>10, <2>11 DEF Codes, code
<1>4. \A n \in T : Codes(n)
  OBVIOUS
<1> HIDE DEF T
<1> QED BY <1>2, <1>3, <1>4, Induct

\* k digits are enough for a number below Base ^ k.
LEMMA VarintSize ==
  \A k \in Nat : \A v \in Nat :
    v < Power[k + 1] => Len(encode_varint[v]) <= k + 1
<1> DEFINE T == {k \in Nat : \A v \in Nat :
                   v < Power[k + 1] => Len(encode_varint[v]) <= k + 1}
<1>1. ASSUME NEW v \in Nat, v < Base PROVE Len(encode_varint[v]) = 1
  <2>1. encode_varint[v] = <<v>>
    BY <1>1, EncodeStep
  <2> QED BY <2>1
<1>2. 0 \in T
  <2>1. Power[0 + 1] = Base * 1
    BY PowerStep, Zenon
  <2>2. Base * 1 = Base
    BY BaseFact
  <2>3. Power[0 + 1] = Base
    BY <2>1, <2>2, Zenon
  <2>4. ASSUME NEW v \in Nat, v < Power[0 + 1]
        PROVE  Len(encode_varint[v]) <= 0 + 1
    <3>1. Len(encode_varint[v]) = 1
      BY <2>3, <2>4, <1>1, Zenon
    <3> QED BY <3>1
  <2> QED BY <2>4
<1>3. ASSUME NEW k \in Nat, k \in T PROVE k + 1 \in T
  <2> SUFFICES ASSUME NEW v \in Nat, v < Power[(k + 1) + 1]
               PROVE  Len(encode_varint[v]) <= (k + 1) + 1
    OBVIOUS
  <2>1. CASE v < Base
    <3>1. Len(encode_varint[v]) = 1
      BY <2>1, <1>1, Zenon
    <3> QED BY <3>1
  <2>2. CASE v >= Base
    <3> DEFINE c == encode_varint[v \div Base]
               b == Base + (v % Base)
    <3>1. PICK m \in Nat : m = Power[k + 1] /\ Power[(k + 1) + 1] = Base * m
      <4>1. k + 1 \in Nat
        OBVIOUS
      <4> QED BY <4>1, PowerStep
    <3>2. v \div Base < m /\ v \div Base \in Nat
      BY <3>1, Quotient, Digits
    <3>3. Len(c) <= k + 1
      BY <3>1, <3>2, <1>3
    <3>4. c \in Seq(Byte)
      BY <3>2, EncodeStep
    <3>5. encode_varint[v] = <<b>> \o c
      BY <2>2, EncodeStep
    <3> HIDE DEF c, b
    <3>6. Len(<<b>> \o c) = Len(c) + 1
      BY <3>4
    <3>7. Len(c) \in Nat
      BY <3>4
    <3> QED BY <3>3, <3>5, <3>6, <3>7
  <2> QED BY <2>1, <2>2, BaseFact
<1>4. \A k \in T : \A v \in Nat :
        v < Power[k + 1] => Len(encode_varint[v]) <= k + 1
  OBVIOUS
<1> HIDE DEF T
<1> QED BY <1>2, <1>3, <1>4, Induct

\* The bytes begin with the code, as far as both go.
Begins(bytes, code) ==
  \A i \in 1..Len(code) : i <= Len(bytes) => bytes[i] = code[i]

\* The bytes of a word are at most Groups.
LEMMA WordCode ==
  ASSUME NEW v \in 0..(Word - 1)
  PROVE  /\ v \in Nat
         /\ encode_varint[v] \in Seq(Byte)
         /\ Len(encode_varint[v]) \in 1..Groups
         /\ Codes(v)
<1>1. v \in Nat /\ v < Power[Groups]
  <2>1. Power[Groups] \in Nat
    BY PowerStep, Constants
  <2> QED BY <2>1, Constants
<1>2. Groups - 1 \in Nat /\ (Groups - 1) + 1 = Groups
  BY Constants
<1>3. Len(encode_varint[v]) <= Groups
  BY <1>1, <1>2, VarintSize
<1>4. encode_varint[v] \in Seq(Byte) /\ Codes(v)
  BY <1>1, EncodeStep, VarintCode
<1>5. Len(encode_varint[v]) \in Nat /\ Len(encode_varint[v]) >= 1
  BY <1>4 DEF Codes
<1> QED BY <1>1, <1>3, <1>4, <1>5, Constants

\* The whole code of a word is read back, whatever follows it.
LEMMA DecodeWhole ==
  ASSUME NEW v \in 0..(Word - 1), NEW bytes \in Seq(Byte),
         Len(encode_varint[v]) <= Len(bytes), Begins(bytes, encode_varint[v])
  PROVE  decode_varint(bytes) = <<v, Len(encode_varint[v])>>
<1> DEFINE code == encode_varint[v]
           size == Len(code)
<1>1. v \in Nat /\ code \in Seq(Byte) /\ size \in 1..Groups /\ Codes(v)
  BY WordCode
<1>2. /\ \A i \in 1..(size - 1) : code[i] >= Base
      /\ code[size] < Base
      /\ Number[size][Masks(code)] = v
  BY <1>1 DEF Codes
<1>3. size <= Len(bytes) /\ \A i \in 1..size : bytes[i] = code[i]
  BY <1>1 DEF Begins
<1> HIDE DEF code
<1>4. \A i \in 1..Len(bytes) : bytes[i] \in Nat
  BY BaseFact DEF Byte
<1>5. Len(bytes) \in Nat
  OBVIOUS
<1>6. size \in Ends(bytes)
  BY <1>1, <1>2, <1>3, <1>5 DEF Ends
<1>7. \A i \in Ends(bytes) : i \in Nat /\ size <= i
  <2> SUFFICES ASSUME NEW i \in Ends(bytes) PROVE i \in Nat /\ size <= i
    OBVIOUS
  <2>1. i \in 1..Len(bytes) /\ bytes[i] < Base
    BY DEF Ends
  <2>2. i >= size
    <3> SUFFICES ASSUME i < size PROVE FALSE
      BY <1>1, <1>5, <2>1
    <3>1. i \in 1..(size - 1) /\ i \in 1..size
      BY <1>1, <1>5, <2>1
    <3>2. bytes[i] >= Base
      BY <3>1, <1>2, <1>3
    <3> QED BY <2>1, <3>2, <1>4, BaseFact
  <2> QED BY <1>5, <2>1, <2>2
<1>8. Min(Ends(bytes)) = size
  <2>1. size \in Nat
    BY <1>1, Constants
  <2> QED BY <1>6, <1>7, <2>1 DEF Min
<1>9. [i \in 1..size |-> bytes[i] % Base] = Masks(code)
  BY <1>3 DEF Masks
<1>10. v % Word = v
  BY <1>1, Constants
<1>11. Ends(bytes) # {} /\ ~(size > Groups)
  BY <1>1, <1>6, Constants
<1> QED BY <1>2, <1>8, <1>9, <1>10, <1>11, Zenon DEF decode_varint, code

\* Less than the whole code is not taken for a number.
LEMMA DecodePart ==
  ASSUME NEW v \in 0..(Word - 1), NEW bytes \in Seq(Byte),
         Len(bytes) < Len(encode_varint[v]), Begins(bytes, encode_varint[v])
  PROVE  decode_varint(bytes) = <<>>
<1> DEFINE code == encode_varint[v]
<1>1. code \in Seq(Byte) /\ Codes(v)
  BY WordCode
<1>2. \A i \in 1..(Len(code) - 1) : code[i] >= Base
  BY <1>1 DEF Codes
<1>3. Len(code) \in Nat /\ Len(bytes) \in Nat
  BY <1>1
<1>4. \A i \in 1..Len(bytes) : bytes[i] \in Nat /\ bytes[i] >= Base
  <2> SUFFICES ASSUME NEW i \in 1..Len(bytes)
               PROVE  bytes[i] \in Nat /\ bytes[i] >= Base
    OBVIOUS
  <2>1. i \in 1..(Len(code) - 1) /\ i \in 1..Len(code) /\ i <= Len(bytes)
    BY <1>3
  <2>2. bytes[i] = code[i]
    BY <2>1 DEF Begins
  <2>3. bytes[i] \in Nat
    BY BaseFact DEF Byte
  <2> HIDE DEF code
  <2> QED BY <2>1, <2>2, <2>3, <1>2
<1>5. Ends(bytes) = {}
  BY <1>4, BaseFact DEF Ends
<1> QED BY <1>5, Zenon DEF decode_varint

\* The bytes of one sequence and then of another.
LEMMA Appended ==
  ASSUME NEW S, NEW s \in Seq(S), NEW t \in Seq(S)
  PROVE  /\ s \o t \in Seq(S)
         /\ Len(s) \in Nat /\ Len(t) \in Nat
         /\ Len(s \o t) = Len(s) + Len(t)
         /\ \A i \in 1..Len(s) : (s \o t)[i] = s[i]
         /\ \A i \in 1..Len(t) : (s \o t)[Len(s) + i] = t[i]
OBVIOUS

\* Bytes that all have a continuation bit are no number, whatever follows.
LEMMA DecodeLong ==
  ASSUME NEW long \in [1..Groups -> Base..(2 * Base - 1)],
         NEW bytes \in Seq(Byte)
  PROVE  decode_varint(long \o bytes) = <<>>
<1>1. Groups \in Nat /\ Base \in Nat
  BY Constants, BaseFact
<1>2. /\ long \in Seq(Byte) /\ Len(long) = Groups
      /\ \A i \in 1..Groups : long[i] \in Nat /\ long[i] >= Base
  <2>1. \A i \in 1..Groups :
          long[i] \in Byte /\ long[i] \in Nat /\ long[i] >= Base
    BY <1>1, BaseFact DEF Byte
  <2>2. DOMAIN long = 1..Groups /\ long \in [1..Groups -> Byte]
    BY <2>1
  <2> QED BY <1>1, <2>1, <2>2
<1> DEFINE b == long \o bytes
<1>3. /\ b \in Seq(Byte) /\ Len(b) \in Nat
      /\ \A i \in 1..Groups : b[i] = long[i]
  BY <1>2, Appended
<1>4. \A i \in 1..Len(b) : b[i] \in Nat
  <2> HIDE DEF b
  <2> QED BY <1>3, BaseFact DEF Byte
<1> HIDE DEF b
<1>5. \A i \in Ends(b) : i \in Nat /\ i > Groups
  <2> SUFFICES ASSUME NEW i \in Ends(b) PROVE i \in Nat /\ i > Groups
    OBVIOUS
  <2>1. i \in 1..Len(b) /\ b[i] < Base
    BY DEF Ends
  <2>2. i \in Nat /\ i >= 1
    BY <1>3, <2>1
  <2>3. ASSUME i <= Groups PROVE FALSE
    <3>1. i \in 1..Groups
      BY <1>1, <2>2, <2>3
    <3>2. b[i] \in Nat /\ b[i] >= Base
      BY <1>2, <1>3, <3>1
    <3> QED BY <1>1, <2>1, <3>2
  <2> QED BY <1>1, <2>2, <2>3
<1>6. Ends(b) # {} => Min(Ends(b)) > Groups
  <2> SUFFICES ASSUME Ends(b) # {} PROVE Min(Ends(b)) > Groups
    OBVIOUS
  <2>1. Ends(b) \subseteq Nat
    BY <1>5
  <2>2. PICK n \in Ends(b) : \A i \in Ends(b) : n <= i
    BY <2>1, Least
  <2>3. Min(Ends(b)) \in Ends(b)
    BY <2>2, Zenon DEF Min
  <2> QED BY <1>5, <2>3
<1> QED BY <1>6, Zenon DEF decode_varint, b

-----------------------------------------------------------------------------
(* Frames.                                                                 *)

\* A part of a sequence is one.
LEMMA Part ==
  ASSUME NEW S, NEW s \in Seq(S), NEW m \in Nat, NEW n \in Nat,
         m <= n, n <= Len(s)
  PROVE  /\ SubSeq(s, m + 1, n) \in Seq(S)
         /\ Len(SubSeq(s, m + 1, n)) = n - m
         /\ \A i \in 1..(n - m) : SubSeq(s, m + 1, n)[i] = s[m + i]
OBVIOUS

\* A message's length and type are words, and a type is not cut by the cast.
LEMMA Fields ==
  ASSUME NEW m \in Message
  PROVE  /\ m.payload \in Payloads /\ m.payload \in Seq(Byte)
         /\ Len(m.payload) \in Nat
         /\ Len(m.payload) \in 0..(Word - 1)
         /\ m.type \in Types /\ m.type \in 0..(Word - 1)
         /\ m.type % TypeWord = m.type
         /\ m = [type |-> m.type, payload |-> m.payload]
<1>1. /\ m.payload \in Payloads /\ m.type \in Types
      /\ m = [type |-> m.type, payload |-> m.payload]
  BY DEF Message
<1>2. m.payload \in Seq(Byte) /\ Len(m.payload) < Word
  BY <1>1, Constants
<1>3. Len(m.payload) \in Nat
  BY <1>2
<1> QED BY <1>1, <1>2, <1>3, Constants

\* Where the parts of a frame are: the zero byte, the length, the type and
\* the payload.
Frame(m, f) ==
  LET L == encode_varint[Len(m.payload)]
      T == encode_varint[m.type]
  IN /\ f \in Seq(Byte)
     /\ Len(f) = 1 + Len(L) + Len(T) + Len(m.payload)
     /\ f[1] = 0
     /\ \A i \in 1..Len(L) : f[1 + i] = L[i]
     /\ \A i \in 1..Len(T) : f[1 + Len(L) + i] = T[i]
     /\ \A i \in 1..Len(m.payload) :
          f[1 + Len(L) + Len(T) + i] = m.payload[i]

\* encode_response makes such a frame.
LEMMA FrameParts ==
  ASSUME NEW m \in Message
  PROVE  Frame(m, encode_response(m))
<1> DEFINE L == encode_varint[Len(m.payload)]
           T == encode_varint[m.type]
           P == m.payload
<1>1. L \in Seq(Byte) /\ T \in Seq(Byte) /\ P \in Seq(Byte)
  BY Fields, WordCode
<1>2. <<0>> \in Seq(Byte) /\ Len(<<0>>) = 1 /\ <<0>>[1] = 0
  <2>1. 0 \in Byte
    BY BaseFact DEF Byte
  <2> QED BY <2>1
<1> DEFINE f1 == <<0>> \o L
           f2 == f1 \o T
           f3 == f2 \o P
<1>3. encode_response(m) = f3
  BY DEF encode_response
<1> HIDE DEF L, T, P
<1>4. /\ f1 \in Seq(Byte) /\ Len(f1) = 1 + Len(L)
      /\ f1[1] = 0 /\ \A i \in 1..Len(L) : f1[1 + i] = L[i]
  BY <1>1, <1>2, Appended
<1> HIDE DEF f1
<1>5. /\ f2 \in Seq(Byte) /\ Len(f2) = Len(f1) + Len(T)
      /\ \A i \in 1..Len(f1) : f2[i] = f1[i]
      /\ \A i \in 1..Len(T) : f2[Len(f1) + i] = T[i]
  <2> HIDE DEF f3
  <2>1. f1 \in Seq(Byte) /\ T \in Seq(Byte)
    BY <1>1, <1>4
  <2> QED BY <2>1, Appended
<1> HIDE DEF f2
<1>6. /\ f3 \in Seq(Byte) /\ Len(f3) = Len(f2) + Len(P)
      /\ \A i \in 1..Len(f2) : f3[i] = f2[i]
      /\ \A i \in 1..Len(P) : f3[Len(f2) + i] = P[i]
  <2>1. f2 \in Seq(Byte) /\ P \in Seq(Byte)
    BY <1>1, <1>5
  <2> QED BY <2>1, Appended
<1> HIDE DEF f3
<1>7. Len(L) \in Nat /\ Len(T) \in Nat /\ Len(P) \in Nat
  BY <1>1
<1>8. f3[1] = 0 /\ Len(f3) = 1 + Len(L) + Len(T) + Len(P)
  BY <1>4, <1>5, <1>6, <1>7
<1>9. ASSUME NEW i \in 1..Len(L) PROVE f3[1 + i] = L[i]
  <2>1. 1 + i \in 1..Len(f1) /\ 1 + i \in 1..Len(f2)
    BY <1>4, <1>5, <1>7
  <2> QED BY <2>1, <1>4, <1>5, <1>6
<1>10. ASSUME NEW i \in 1..Len(T) PROVE f3[1 + Len(L) + i] = T[i]
  <2>1. 1 + Len(L) + i \in 1..Len(f2) /\ 1 + Len(L) + i = Len(f1) + i
    BY <1>4, <1>5, <1>7
  <2> QED BY <2>1, <1>5, <1>6
<1>11. ASSUME NEW i \in 1..Len(P) PROVE f3[1 + Len(L) + Len(T) + i] = P[i]
  <2>1. 1 + Len(L) + Len(T) + i = Len(f2) + i
    BY <1>4, <1>5, <1>7
  <2> QED BY <2>1, <1>6
<1> QED BY <1>3, <1>6, <1>8, <1>9, <1>10, <1>11 DEF Frame, L, T, P

\* The bytes of no messages, and of a message and more.
LEMMA EncodingStep ==
  \A ms \in Seq(Message) :
    /\ Encoding(ms) \in Seq(Byte)
    /\ ms = <<>> => Encoding(ms) = <<>>
    /\ ms # <<>> =>
         Encoding(ms) = encode_response(Head(ms)) \o Encoding(Tail(ms))
<1> DEFINE S == [Seq(Message) -> Seq(Byte)]
           none == [ms \in Seq(Message) |-> <<>>]
           next(g) == [ms \in Seq(Message) |->
                         IF ms = <<>> THEN <<>>
                         ELSE encode_response(Head(ms)) \o g[Tail(ms)]]
           step == [x \in Nat \X S |-> next(x[2])]
<1>0. \A m \in Message : encode_response(m) \in Seq(Byte)
  BY FrameParts DEF Frame
<1>1. \A g \in S : next(g) \in S
  <2>1. ASSUME NEW g \in S, NEW ms \in Seq(Message)
        PROVE  (IF ms = <<>> THEN <<>>
                ELSE encode_response(Head(ms)) \o g[Tail(ms)]) \in Seq(Byte)
    <3>1. CASE ms # <<>>
      <4>1. Head(ms) \in Message /\ Tail(ms) \in Seq(Message)
        BY <3>1, TailSeq
      <4>2. PICK a \in Seq(Byte) : a = encode_response(Head(ms))
        BY <4>1, <1>0
      <4>3. PICK b \in Seq(Byte) : b = g[Tail(ms)]
        BY <4>1
      <4>4. a \o b \in Seq(Byte)
        BY Appended
      <4> QED BY <3>1, <4>2, <4>3, <4>4, Zenon
    <3> QED BY <3>1
  <2> QED BY <2>1
<1>2. PICK f : Iterates(f, none, step, S)
  <2>1. none \in S
    OBVIOUS
  <2>2. step \in [Nat \X S -> S]
    BY <1>1
  <2> HIDE DEF S, none, step
  <2> QED BY <2>1, <2>2, Recursion
<1>3. /\ f \in [Nat -> S] /\ f[0] = none
      /\ \A n \in Nat : f[n + 1] = next(f[n])
  <2>1. /\ f \in [Nat -> S] /\ f[0] = none
        /\ \A n \in Nat : f[n + 1] = step[<<n, f[n]>>]
    BY <1>2 DEF Iterates
  <2>2. \A n \in Nat : \A g \in S : step[<<n, g>>] = next(g)
    OBVIOUS
  <2> HIDE DEF S, none, step, next
  <2> QED BY <2>1, <2>2
<1> DEFINE F(g) == [n \in Nat |->
                      [ms \in Seq(Message) |->
                         IF n = 0 \/ ms = <<>> THEN <<>>
                         ELSE encode_response(Head(ms)) \o g[n - 1][Tail(ms)]]]
<1>4. f = F(f)
  <2>1. ASSUME NEW n \in Nat PROVE f[n] = F(f)[n]
    <3>1. CASE n = 0
      BY <3>1, <1>3
    <3>2. CASE n # 0
      <4>1. n - 1 \in Nat /\ n = (n - 1) + 1
        BY <3>2
      <4>2. f[n] = next(f[n - 1])
        BY <4>1, <1>3, Zenon
      <4> QED BY <3>2, <4>2
    <3> QED BY <3>1, <3>2
  <2> HIDE DEF S
  <2> QED BY <1>3, <2>1
<1>5. Encodings = F(Encodings)
  BY <1>4, Zenon DEF Encodings
<1>6. ASSUME NEW n \in Nat, NEW ms \in Seq(Message)
      PROVE  Encodings[n][ms] =
               IF n = 0 \/ ms = <<>> THEN <<>>
               ELSE encode_response(Head(ms)) \o Encodings[n - 1][Tail(ms)]
  <2>1. F(Encodings)[n] =
          [es \in Seq(Message) |-> IF n = 0 \/ es = <<>> THEN <<>>
             ELSE encode_response(Head(es)) \o Encodings[n - 1][Tail(es)]]
    OBVIOUS
  <2>2. F(Encodings)[n][ms] =
          IF n = 0 \/ ms = <<>> THEN <<>>
          ELSE encode_response(Head(ms)) \o Encodings[n - 1][Tail(ms)]
    BY <2>1, Zenon
  <2> HIDE DEF F
  <2>3. Encodings[n] = F(Encodings)[n]
    BY <1>5, Zenon
  <2> QED BY <2>2, <2>3, Zenon
<1> HIDE DEF F, S
<1>7. ASSUME NEW ms \in Seq(Message)
      PROVE  /\ ms = <<>> => Encoding(ms) = <<>>
             /\ ms # <<>> =>
                  Encoding(ms) = encode_response(Head(ms)) \o Encoding(Tail(ms))
  <2>1. CASE ms = <<>>
    <3>1. Len(ms) \in Nat
      OBVIOUS
    <3> QED BY <2>1, <3>1, <1>6, Zenon DEF Encoding
  <2>2. CASE ms # <<>>
    <3>1. /\ Len(ms) \in Nat /\ Len(ms) # 0
          /\ Len(Tail(ms)) = Len(ms) - 1
      BY <2>2, TailSeq
    <3> QED BY <2>2, <3>1, <1>6, Zenon DEF Encoding
  <2> QED BY <2>1, <2>2
<1> DEFINE T == {n \in Nat : \A ms \in Seq(Message) :
                   Len(ms) = n => Encoding(ms) \in Seq(Byte)}
<1>8. 0 \in T
  <2>1. ASSUME NEW ms \in Seq(Message), Len(ms) = 0
        PROVE  Encoding(ms) \in Seq(Byte)
    <3>1. ms = <<>> /\ <<>> \in Seq(Byte)
      BY <2>1
    <3> QED BY <3>1, <1>7, Zenon
  <2> QED BY <2>1
<1>9. ASSUME NEW n \in Nat, n \in T PROVE n + 1 \in T
  <2>1. \A ms \in Seq(Message) : Len(ms) = n => Encoding(ms) \in Seq(Byte)
    BY <1>9
  <2>2. ASSUME NEW ms \in Seq(Message), Len(ms) = n + 1
        PROVE  Encoding(ms) \in Seq(Byte)
    <3>1. ms # <<>>
      BY <2>2
    <3>2. Head(ms) \in Message /\ Tail(ms) \in Seq(Message)
          /\ Len(Tail(ms)) = n
      BY <2>2, <3>1, TailSeq
    <3>3. PICK a \in Seq(Byte) : a = encode_response(Head(ms))
      BY <3>2, <1>0
    <3>4. PICK b \in Seq(Byte) : b = Encoding(Tail(ms))
      BY <3>2, <2>1
    <3>5. a \o b \in Seq(Byte)
      BY Appended
    <3> QED BY <3>1, <3>3, <3>4, <3>5, <1>7, Zenon
  <2> QED BY <2>2
<1>10. \A n \in T : \A ms \in Seq(Message) :
         Len(ms) = n => Encoding(ms) \in Seq(Byte)
  OBVIOUS
<1> HIDE DEF T
<1>11. \A ms \in Seq(Message) : Len(ms) \in Nat
  OBVIOUS
<1>12. \A ms \in Seq(Message) : Encoding(ms) \in Seq(Byte)
  BY <1>8, <1>9, <1>10, <1>11, Induct
<1> QED BY <1>7, <1>12

\* One message more is its bytes after the others.
LEMMA EncodingAppend ==
  \A ms \in Seq(Message) : \A m \in Message :
    Encoding(Append(ms, m)) = Encoding(ms) \o encode_response(m)
<1> DEFINE Good(ms) == \A m \in Message :
             Encoding(Append(ms, m)) = Encoding(ms) \o encode_response(m)
           T == {n \in Nat : \A ms \in Seq(Message) : Len(ms) = n => Good(ms)}
<1>0. \A m \in Message : encode_response(m) \in Seq(Byte)
  BY FrameParts DEF Frame
<1>1. ASSUME NEW m \in Message
      PROVE  Encoding(<<m>>) = encode_response(m)
  <2>1. /\ <<m>> \in Seq(Message) /\ <<m>> # <<>>
        /\ Head(<<m>>) = m /\ Tail(<<m>>) = <<>>
        /\ <<>> \in Seq(Message)
    OBVIOUS
  <2>2. Encoding(<<>>) = <<>>
    BY <2>1, EncodingStep
  <2>3. Encoding(<<m>>) = encode_response(m) \o <<>>
    BY <2>1, <2>2, EncodingStep, Zenon
  <2> QED BY <2>3, <1>0, ConcatEmptySeq
<1>2. 0 \in T
  <2>1. ASSUME NEW ms \in Seq(Message), Len(ms) = 0, NEW m \in Message
        PROVE  Encoding(Append(ms, m)) = Encoding(ms) \o encode_response(m)
    <3>1. ms = <<>> /\ Append(ms, m) = <<m>>
      BY <2>1
    <3>2. Encoding(ms) = <<>>
      BY <3>1, EncodingStep
    <3>3. <<>> \o encode_response(m) = encode_response(m)
      BY <1>0, ConcatEmptySeq
    <3> QED BY <3>1, <3>2, <3>3, <1>1, Zenon
  <2> QED BY <2>1
<1>3. ASSUME NEW n \in Nat, n \in T PROVE n + 1 \in T
  <2>1. \A ms \in Seq(Message) : Len(ms) = n => Good(ms)
    BY <1>3
  <2> HIDE DEF Good
  <2>2. ASSUME NEW ms \in Seq(Message), Len(ms) = n + 1
        PROVE  Good(ms)
    <3> SUFFICES ASSUME NEW m \in Message
        PROVE Encoding(Append(ms, m)) = Encoding(ms) \o encode_response(m)
      BY DEF Good
    <3>1. ms # <<>>
      BY <2>2
    <3>2. Head(ms) \in Message /\ Tail(ms) \in Seq(Message)
          /\ Len(Tail(ms)) = n
      BY <2>2, <3>1, TailSeq
    <3> DEFINE h == Head(ms)
               t == Tail(ms)
    <3>3. /\ Append(ms, m) \in Seq(Message) /\ Append(ms, m) # <<>>
          /\ Head(Append(ms, m)) = h /\ Tail(Append(ms, m)) = Append(t, m)
      BY <3>1, <3>2
    <3>4. Encoding(Append(t, m)) = Encoding(t) \o encode_response(m)
      BY <3>2, <2>1 DEF Good
    <3>5. PICK a \in Seq(Byte) : a = encode_response(h)
      BY <3>2, <1>0
    <3>6. PICK b \in Seq(Byte) : b = Encoding(t)
      BY <3>2, EncodingStep
    <3>7. PICK c \in Seq(Byte) : c = encode_response(m)
      BY <1>0
    <3>8. Encoding(ms) = a \o b
      BY <3>1, <3>5, <3>6, EncodingStep
    <3>9. Encoding(Append(ms, m)) = a \o (b \o c)
      BY <3>3, <3>4, <3>5, <3>6, <3>7, EncodingStep, Zenon
    <3>10. (a \o b) \o c = a \o (b \o c)
      BY ConcatAssociative
    <3> QED BY <3>7, <3>8, <3>9, <3>10, Zenon
  <2> QED BY <2>2
<1>4. \A n \in T : \A ms \in Seq(Message) : Len(ms) = n => Good(ms)
  OBVIOUS
<1> HIDE DEF T
<1>5. \A ms \in Seq(Message) : Len(ms) \in Nat
  OBVIOUS
<1>6. \A ms \in Seq(Message) : Good(ms)
  <2> HIDE DEF Good
  <2> QED BY <1>2, <1>3, <1>4, <1>5, Induct
<1> QED BY <1>6

-----------------------------------------------------------------------------
(* next_message.                                                           *)

\* What it reads in a buffer that begins with a frame, as far as it goes.
LEMMA Reads ==
  ASSUME NEW m \in Message, NEW b \in Seq(Byte), b # <<>>,
         Begins(b, encode_response(m)),
         NEW nL, nL = Len(encode_varint[Len(m.payload)]),
         NEW nT, nT = Len(encode_varint[m.type])
  PROVE  /\ nL \in Nat /\ nT \in Nat
         /\ Head(b) = 0
         /\ Len(b) < 1 + nL => decode_varint(Tail(b)) = <<>>
         /\ Len(b) >= 1 + nL =>
              decode_varint(Tail(b)) = <<Len(m.payload), nL>>
         /\ 1 + nL <= Len(b) /\ Len(b) < 1 + nL + nT =>
              decode_varint(SubSeq(b, 1 + nL + 1, Len(b))) = <<>>
         /\ Len(b) >= 1 + nL + nT =>
              decode_varint(SubSeq(b, 1 + nL + 1, Len(b))) = <<m.type, nT>>
<1> DEFINE E == encode_response(m)
           L == encode_varint[Len(m.payload)]
           T == encode_varint[m.type]
           nP == Len(m.payload)
<1>1. /\ nP \in 0..(Word - 1) /\ m.type \in 0..(Word - 1)
      /\ nP \in Nat
      /\ L \in Seq(Byte) /\ T \in Seq(Byte)
  BY Fields, WordCode
<1>2. Frame(m, E)
  BY FrameParts
<1>3. /\ nL = Len(L) /\ nT = Len(T) /\ nL \in Nat /\ nT \in Nat
  BY <1>1
<1>4. /\ Len(E) = 1 + nL + nT + nP
      /\ E[1] = 0
      /\ \A i \in 1..nL : E[1 + i] = L[i]
      /\ \A i \in 1..nT : E[1 + nL + i] = T[i]
  BY <1>2, <1>3 DEF Frame
<1>5. \A i \in 1..Len(E) : i <= Len(b) => b[i] = E[i]
  BY DEF Begins
<1>6. Len(b) \in Nat /\ Len(b) >= 1
      /\ Tail(b) \in Seq(Byte) /\ Len(Tail(b)) = Len(b) - 1
      /\ \A i \in 1..(Len(b) - 1) : Tail(b)[i] = b[i + 1]
      /\ Head(b) = b[1]
  BY TailSeq
<1> HIDE DEF E, L, T, nP
<1>7. Head(b) = 0
  BY <1>1, <1>3, <1>4, <1>5, <1>6
<1>8. Begins(Tail(b), L)
  <2> SUFFICES ASSUME NEW i \in 1..Len(L), i <= Len(Tail(b))
               PROVE  Tail(b)[i] = L[i]
    BY DEF Begins
  <2>1. /\ i \in 1..(Len(b) - 1) /\ i \in 1..nL
        /\ i + 1 \in 1..Len(E) /\ i + 1 <= Len(b) /\ i + 1 = 1 + i
    BY <1>1, <1>3, <1>4, <1>6
  <2> QED BY <2>1, <1>4, <1>5, <1>6
<1>9. Len(b) < 1 + nL => decode_varint(Tail(b)) = <<>>
  <2> SUFFICES ASSUME Len(b) < 1 + nL PROVE decode_varint(Tail(b)) = <<>>
    OBVIOUS
  <2>1. Len(Tail(b)) < Len(L)
    BY <1>3, <1>6
  <2> QED BY <2>1, <1>1, <1>6, <1>8, DecodePart DEF L, nP
<1>10. Len(b) >= 1 + nL => decode_varint(Tail(b)) = <<nP, nL>>
  <2> SUFFICES ASSUME Len(b) >= 1 + nL
               PROVE  decode_varint(Tail(b)) = <<nP, nL>>
    OBVIOUS
  <2>1. Len(L) <= Len(Tail(b))
    BY <1>3, <1>6
  <2>2. decode_varint(Tail(b)) = <<nP, Len(L)>>
    BY <2>1, <1>1, <1>6, <1>8, DecodeWhole DEF L, nP
  <2> QED BY <2>2, <1>3
<1> DEFINE r == SubSeq(b, 1 + nL + 1, Len(b))
<1>11. ASSUME 1 + nL <= Len(b)
       PROVE  r \in Seq(Byte) /\ Len(r) = Len(b) - (1 + nL) /\ Begins(r, T)
  <2>1. /\ r \in Seq(Byte) /\ Len(r) = Len(b) - (1 + nL)
        /\ \A i \in 1..(Len(b) - (1 + nL)) : r[i] = b[1 + nL + i]
    <3>1. PICK k \in Nat : k = 1 + nL
      BY <1>3
    <3>2. k <= Len(b) /\ Len(b) \in Nat
      BY <3>1, <1>6, <1>11
    <3>3. /\ SubSeq(b, k + 1, Len(b)) \in Seq(Byte)
          /\ Len(SubSeq(b, k + 1, Len(b))) = Len(b) - k
          /\ \A i \in 1..(Len(b) - k) :
               SubSeq(b, k + 1, Len(b))[i] = b[k + i]
      BY <3>2, Part
    <3> QED BY <3>1, <3>3, Zenon
  <2> HIDE DEF r
  <2>2. ASSUME NEW i \in 1..Len(T), i <= Len(r) PROVE r[i] = T[i]
    <3>1. /\ i \in 1..(Len(b) - (1 + nL)) /\ i \in 1..nT
          /\ 1 + nL + i \in 1..Len(E) /\ 1 + nL + i <= Len(b)
      BY <2>1, <2>2, <1>1, <1>3, <1>4, <1>6
    <3> QED BY <3>1, <2>1, <1>4, <1>5
  <2> QED BY <2>1, <2>2 DEF Begins
<1> HIDE DEF r
<1>12. 1 + nL <= Len(b) /\ Len(b) < 1 + nL + nT => decode_varint(r) = <<>>
  <2> SUFFICES ASSUME 1 + nL <= Len(b), Len(b) < 1 + nL + nT
               PROVE  decode_varint(r) = <<>>
    OBVIOUS
  <2>1. Len(r) < Len(T)
    BY <1>3, <1>6, <1>11
  <2> QED BY <2>1, <1>1, <1>11, DecodePart DEF T
<1>13. Len(b) >= 1 + nL + nT => decode_varint(r) = <<m.type, nT>>
  <2> SUFFICES ASSUME Len(b) >= 1 + nL + nT
               PROVE  decode_varint(r) = <<m.type, nT>>
    OBVIOUS
  <2>1. 1 + nL <= Len(b)
    BY <1>3, <1>6
  <2>2. Len(T) <= Len(r)
    BY <1>3, <1>6, <1>11, <2>1
  <2>3. decode_varint(r) = <<m.type, Len(T)>>
    BY <2>1, <2>2, <1>1, <1>11, DecodeWhole DEF T
  <2> QED BY <2>3, <1>3
<1> QED BY <1>3, <1>7, <1>9, <1>10, <1>12, <1>13 DEF nP, r

\* A whole frame is returned as the message it was made from, and what
\* follows it stays.
LEMMA NextWhole ==
  ASSUME NEW m \in Message, NEW b \in Seq(Byte),
         Len(encode_response(m)) <= Len(b), Begins(b, encode_response(m))
  PROVE  next_message(b) =
           [kind |-> "Some", msg |-> m,
            rest |-> SubSeq(b, Len(encode_response(m)) + 1, Len(b))]
<1> DEFINE E == encode_response(m)
           nL == Len(encode_varint[Len(m.payload)])
           nT == Len(encode_varint[m.type])
           nP == Len(m.payload)
           size == Len(E)
<1>1. /\ nP \in Nat /\ m.payload \in Seq(Byte)
      /\ m = [type |-> m.type, payload |-> m.payload]
  BY Fields
<1>2. /\ E \in Seq(Byte) /\ size = 1 + nL + nT + nP
      /\ \A i \in 1..nP : E[1 + nL + nT + i] = m.payload[i]
  BY FrameParts DEF Frame
<1>3. nL \in Nat /\ nT \in Nat
  BY Fields, WordCode
<1>4. b # <<>> /\ Len(b) \in Nat /\ Len(b) >= 1 + nL + nT + nP
  <2>1. size <= Len(b)
    OBVIOUS
  <2> HIDE DEF E, nL, nT, nP, size
  <2>2. Len(b) \in Nat
    OBVIOUS
  <2>3. Len(b) >= 1 + nL + nT + nP
    BY <2>1, <2>2, <1>1, <1>2, <1>3
  <2>4. b # <<>>
    BY <2>2, <2>3, <1>1, <1>3
  <2> QED BY <2>2, <2>3, <2>4
<1>5. \A i \in 1..size : b[i] = E[i]
  <2>1. \A i \in 1..size : i <= Len(b) => b[i] = E[i]
    BY DEF Begins
  <2> HIDE DEF E, nL, nT, nP, size
  <2> QED BY <2>1, <1>1, <1>2, <1>3, <1>4
<1>6. /\ Head(b) = 0
      /\ decode_varint(Tail(b)) = <<nP, nL>>
      /\ decode_varint(SubSeq(b, 1 + nL + 1, Len(b))) = <<m.type, nT>>
  <2>1. /\ Head(b) = 0
        /\ Len(b) >= 1 + nL => decode_varint(Tail(b)) = <<nP, nL>>
        /\ Len(b) >= 1 + nL + nT =>
             decode_varint(SubSeq(b, 1 + nL + 1, Len(b))) = <<m.type, nT>>
    BY <1>4, Reads
  <2> HIDE DEF nL, nT, nP
  <2>2. Len(b) >= 1 + nL /\ Len(b) >= 1 + nL + nT
    BY <1>1, <1>3, <1>4
  <2> QED BY <2>1, <2>2
<1> HIDE DEF E, nL, nT, nP
<1>7. PICK p \in Nat : p = 1 + nL + nT
  BY <1>3
<1>8. PICK e \in Nat : e = p + nP /\ e = size /\ e <= Len(b)
  BY <1>1, <1>2, <1>4, <1>7
<1>9. SubSeq(b, p + 1, e) = m.payload
  <2>1. /\ SubSeq(b, p + 1, e) \in Seq(Byte)
        /\ Len(SubSeq(b, p + 1, e)) = e - p
        /\ \A i \in 1..(e - p) : SubSeq(b, p + 1, e)[i] = b[p + i]
    <3>1. p <= e
      BY <1>1, <1>8
    <3> QED BY <3>1, <1>8, Part
  <2>2. e - p = nP
    BY <1>1, <1>8
  <2>3. ASSUME NEW i \in 1..nP PROVE b[p + i] = m.payload[i]
    <3>1. p + i \in 1..size /\ p + i = 1 + nL + nT + i
      BY <1>1, <1>7, <1>8
    <3> QED BY <3>1, <1>2, <1>5
  <2> QED BY <2>1, <2>2, <2>3, <1>1, SeqEqual DEF nP
<1>10. <<nP, nL>> # <<>> /\ <<m.type, nT>> # <<>>
       /\ <<nP, nL>>[1] = nP /\ <<nP, nL>>[2] = nL
       /\ <<m.type, nT>>[1] = m.type /\ <<m.type, nT>>[2] = nT
  OBVIOUS
<1>11. ~(Len(b) < (1 + nL) + nP) /\ ~(Len(b) < e)
  BY <1>1, <1>3, <1>4, <1>8
<1>12. (1 + nL) + nT = p
  BY <1>7
<1> DEFINE length == decode_varint(Tail(b))
           body == 1 + length[2]
           type == decode_varint(SubSeq(b, body + 1, Len(b)))
           payload == body + type[2]
           end == payload + length[1]
<1>13. length = <<nP, nL>> /\ body = 1 + nL /\ type = <<m.type, nT>>
       /\ payload = p /\ end = e
  BY <1>6, <1>8, <1>10, <1>12, Zenon
<1>14. next_message(b) =
         IF b = <<>> \/ Head(b) # 0 \/ length = <<>>
            \/ Len(b) < body + length[1] \/ type = <<>>
         THEN NoMessage
         ELSE IF Len(b) < end THEN Panic
         ELSE [kind |-> "Some",
               msg |-> [type |-> type[1] % TypeWord,
                        payload |-> SubSeq(b, payload + 1, end)],
               rest |-> SubSeq(b, end + 1, Len(b))]
  BY Zenon DEF next_message
<1> HIDE DEF length, body, type, payload, end
<1>15. next_message(b) =
         [kind |-> "Some",
          msg |-> [type |-> type[1] % TypeWord,
                   payload |-> SubSeq(b, payload + 1, end)],
          rest |-> SubSeq(b, end + 1, Len(b))]
  BY <1>4, <1>6, <1>10, <1>11, <1>13, <1>14, Zenon
<1>16. [type |-> type[1] % TypeWord,
        payload |-> SubSeq(b, payload + 1, end)] = m
  <2>1. m.type % TypeWord = m.type
    BY Fields
  <2> QED BY <2>1, <1>1, <1>9, <1>10, <1>13, Zenon
<1> QED BY <1>8, <1>13, <1>15, <1>16, Zenon DEF E

\* Less than a frame is waited for, or it panics: over a payload, and with no
\* more missing than the type is long.
LEMMA NextPart ==
  ASSUME NEW m \in Message, NEW b \in Seq(Byte),
         Len(b) < Len(encode_response(m)), Begins(b, encode_response(m))
  PROVE  \/ next_message(b) = NoMessage
         \/ /\ next_message(b) = Panic
            /\ m.payload # <<>>
            /\ Len(encode_response(m)) - Len(b)
                 \in 1..Len(encode_varint[m.type])
<1> DEFINE E == encode_response(m)
           nL == Len(encode_varint[Len(m.payload)])
           nT == Len(encode_varint[m.type])
           nP == Len(m.payload)
           length == decode_varint(Tail(b))
           body == 1 + length[2]
           type == decode_varint(SubSeq(b, body + 1, Len(b)))
           payload == body + type[2]
           end == payload + length[1]
           some == [kind |-> "Some",
                    msg |-> [type |-> type[1] % TypeWord,
                             payload |-> SubSeq(b, payload + 1, end)],
                    rest |-> SubSeq(b, end + 1, Len(b))]
<1>1. next_message(b) =
        IF b = <<>> \/ Head(b) # 0 \/ length = <<>>
           \/ Len(b) < body + length[1] \/ type = <<>>
        THEN NoMessage
        ELSE IF Len(b) < end THEN Panic
        ELSE some
  BY Zenon DEF next_message
<1>2. nP \in Nat /\ m.payload \in Seq(Byte)
  BY Fields
<1>3. Len(E) = 1 + nL + nT + nP
  BY FrameParts DEF Frame
<1>4. nL \in Nat /\ nT \in Nat /\ Len(b) \in Nat
  BY Fields, WordCode
<1> SUFFICES ASSUME b # <<>>, next_message(b) # NoMessage
             PROVE  /\ next_message(b) = Panic
                    /\ m.payload # <<>>
                    /\ Len(E) - Len(b) \in 1..nT
  <2> HIDE DEF length, body, type, payload, end, some
  <2> QED BY <1>1
<1>5. ~(length = <<>>) /\ ~(Len(b) < body + length[1]) /\ ~(type = <<>>)
  <2> HIDE DEF length, body, type, payload, end, some
  <2> QED BY <1>1
<1>6. /\ Len(b) < 1 + nL => length = <<>>
      /\ Len(b) >= 1 + nL => length = <<nP, nL>>
      /\ 1 + nL <= Len(b) /\ Len(b) < 1 + nL + nT =>
           decode_varint(SubSeq(b, 1 + nL + 1, Len(b))) = <<>>
      /\ Len(b) >= 1 + nL + nT =>
           decode_varint(SubSeq(b, 1 + nL + 1, Len(b))) = <<m.type, nT>>
  BY Reads
<1> HIDE DEF nL, nT, nP, E
<1>7. Len(b) >= 1 + nL /\ length = <<nP, nL>>
  <2> HIDE DEF length
  <2> QED BY <1>4, <1>5, <1>6
<1>8. length[1] = nP /\ body = 1 + nL
  <2> HIDE DEF length
  <2>1. length[1] = nP /\ length[2] = nL
    BY <1>7
  <2> QED BY <2>1
<1>9. Len(b) >= 1 + nL + nT /\ type = <<m.type, nT>>
  <2>1. type = decode_varint(SubSeq(b, 1 + nL + 1, Len(b)))
    BY <1>8, Zenon
  <2> HIDE DEF type
  <2> QED BY <2>1, <1>4, <1>5, <1>6, <1>7
<1>10. payload = 1 + nL + nT /\ end = 1 + nL + nT + nP
  <2> HIDE DEF length, body, type
  <2>1. type[2] = nT
    BY <1>9
  <2>2. payload = 1 + nL + nT
    BY <2>1, <1>8, Zenon
  <2> HIDE DEF payload
  <2> QED BY <2>2, <1>8
<1>11. Len(b) >= 1 + nL + nP
  <2> HIDE DEF length, body
  <2> QED BY <1>2, <1>4, <1>5, <1>8
<1>12. next_message(b) = Panic
  <2>1. Len(b) < end
    BY <1>3, <1>10 DEF E
  <2> HIDE DEF length, body, type, payload, end, some
  <2> QED BY <2>1, <1>1
<1>13. m.payload # <<>>
  <2> SUFFICES ASSUME m.payload = <<>> PROVE FALSE
    OBVIOUS
  <2>1. nP = 0
    BY DEF nP
  <2> QED BY <2>1, <1>3, <1>4, <1>9 DEF E
<1>14. Len(E) - Len(b) \in 1..nT
  <2>1. Len(b) < Len(E)
    BY DEF E
  <2> QED BY <2>1, <1>2, <1>3, <1>4, <1>11
<1> QED BY <1>12, <1>13, <1>14

-----------------------------------------------------------------------------
(* The stream.                                                             *)

\* What is left of a buffer and the bytes that come after it.
LEMMA PartAndMore ==
  ASSUME NEW b \in Seq(Byte), NEW w \in Seq(Byte), NEW n \in 0..Len(b)
  PROVE  LET d == SubSeq(b, n + 1, Len(b)) \o w IN
           /\ d \in Seq(Byte)
           /\ Len(d) = (Len(b) - n) + Len(w)
           /\ \A i \in 1..(Len(b) - n) : d[i] = b[n + i]
           /\ \A i \in 1..Len(w) : d[(Len(b) - n) + i] = w[i]
<1> DEFINE c == SubSeq(b, n + 1, Len(b))
<1>1. /\ c \in Seq(Byte) /\ Len(c) = Len(b) - n
      /\ \A i \in 1..(Len(b) - n) : c[i] = b[n + i]
  <2>1. Len(b) \in Nat /\ n \in Nat /\ n <= Len(b)
    OBVIOUS
  <2> QED BY <2>1, Part
<1> HIDE DEF c
<1>3. /\ c \o w \in Seq(Byte) /\ Len(c \o w) = Len(c) + Len(w)
      /\ \A i \in 1..Len(c) : (c \o w)[i] = c[i]
      /\ \A i \in 1..Len(w) : (c \o w)[Len(c) + i] = w[i]
  <2>1. c \in Seq(Byte)
    BY <1>1
  <2> QED BY <2>1, Appended
<1>4. /\ c \o w \in Seq(Byte)
      /\ Len(c \o w) = (Len(b) - n) + Len(w)
      /\ \A i \in 1..(Len(b) - n) : (c \o w)[i] = b[n + i]
      /\ \A i \in 1..Len(w) : (c \o w)[(Len(b) - n) + i] = w[i]
  BY <1>1, <1>3, Zenon
<1> QED BY <1>4 DEF c

\* Taking the front of a buffer off leaves what follows it.
LEMMA CutFront ==
  ASSUME NEW b \in Seq(Byte), NEW w \in Seq(Byte), NEW e \in Seq(Byte),
         NEW r \in Seq(Byte)
  PROVE  b \o w = e \o r /\ Len(e) <= Len(b) =>
           SubSeq(b, Len(e) + 1, Len(b)) \o w = r
<1>1. /\ Len(b \o w) = Len(b) + Len(w)
      /\ \A i \in 1..Len(b) : (b \o w)[i] = b[i]
      /\ \A i \in 1..Len(w) : (b \o w)[Len(b) + i] = w[i]
  BY Appended
<1>2. /\ Len(e \o r) = Len(e) + Len(r)
      /\ \A i \in 1..Len(r) : (e \o r)[Len(e) + i] = r[i]
  BY Appended
<1>3. /\ Len(e) \in Nat /\ Len(b) \in Nat /\ Len(r) \in Nat /\ Len(w) \in Nat
  OBVIOUS
<1> DEFINE d == SubSeq(b, Len(e) + 1, Len(b)) \o w
           rest == Len(b) - Len(e)
<1>4. Len(e) <= Len(b) =>
        /\ d \in Seq(Byte)
        /\ Len(d) = rest + Len(w)
        /\ \A i \in 1..rest : d[i] = b[Len(e) + i]
        /\ \A i \in 1..Len(w) : d[rest + i] = w[i]
  <2>1. Len(e) <= Len(b) => Len(e) \in 0..Len(b)
    BY <1>3
  <2> QED BY <2>1, PartAndMore, Zenon
<1> SUFFICES ASSUME b \o w = e \o r, Len(e) <= Len(b)
             PROVE  d = r
  OBVIOUS
<1> HIDE DEF d
<1>5. /\ Len(b) + Len(w) = Len(e) + Len(r)
      /\ \A i \in 1..Len(r) : (b \o w)[Len(e) + i] = r[i]
  BY <1>1, <1>2, Zenon
<1>6. Len(d) = Len(r) /\ rest \in Nat
  BY <1>3, <1>4, <1>5
<1>7. ASSUME NEW i \in 1..Len(r) PROVE d[i] = r[i]
  <2>1. (b \o w)[Len(e) + i] = r[i]
    BY <1>5
  <2>2. CASE i <= rest
    <3>1. i \in 1..rest /\ Len(e) + i \in 1..Len(b)
      BY <2>2, <1>3
    <3> QED BY <3>1, <2>1, <1>1, <1>4
  <2>3. CASE i > rest
    <3> DEFINE k == i - rest
    <3>1. k \in 1..Len(w) /\ i = rest + k /\ Len(e) + i = Len(b) + k
      BY <2>3, <1>3, <1>5
    <3> HIDE DEF k, rest
    <3>2. d[i] = w[k] /\ (b \o w)[Len(e) + i] = w[k]
      BY <3>1, <1>1, <1>4, Zenon
    <3> QED BY <3>2, <2>1, Zenon
  <2> QED BY <2>2, <2>3, <1>3
<1> QED BY <1>4, <1>6, <1>7, SeqEqual

\* The messages sent and not yet handed to the dispatcher.
Left == SubSeq(msgs, Len(handed) + 1, Len(msgs))

\* The message of which buf holds the beginning.
Following == msgs[Len(handed) + 1]

\* What has been handed is the front of what was sent.
Handed ==
  /\ Len(handed) <= Len(msgs)
  /\ \A i \in 1..Len(handed) : handed[i] = msgs[i]

\* A task that panicked has found a message in buf and not the end of it.
Panicked ==
  task = "panicked" => Len(handed) < Len(msgs) /\ PanicIsTorn

\* The inductive invariant.
Stream ==
  /\ TypeOK
  /\ Handed
  /\ Encoding(Left) = buf \o wire
  /\ WaitsOnlyForMore
  /\ Panicked

\* The first of the messages that are left.
LEMMA LeftMessages ==
  ASSUME TypeOK, Handed
  PROVE  /\ Len(handed) \in Nat /\ Len(msgs) \in Nat
         /\ Left \in Seq(Message)
         /\ Len(Left) = Len(msgs) - Len(handed)
         /\ \A i \in 1..(Len(msgs) - Len(handed)) :
              Left[i] = msgs[Len(handed) + i]
<1>1. msgs \in Seq(Message) /\ handed \in Seq(Message)
  BY DEF TypeOK
<1>2. Len(handed) \in Nat /\ Len(msgs) \in Nat /\ Len(handed) <= Len(msgs)
  BY <1>1 DEF Handed
<1> QED BY <1>1, <1>2, Part DEF Left

\* buf begins with the frame of the message that follows, as far as it goes,
\* and is empty when none does.
LEMMA BufBegins ==
  ASSUME Stream
  PROVE  /\ Len(handed) < Len(msgs) =>
              /\ Following \in Message /\ Head(Left) = Following
              /\ Left # <<>> /\ Tail(Left) \in Seq(Message)
              /\ encode_response(Following) \in Seq(Byte)
              /\ Encoding(Tail(Left)) \in Seq(Byte)
              /\ buf \o wire =
                   encode_response(Following) \o Encoding(Tail(Left))
              /\ Begins(buf, encode_response(Following))
         /\ ~(Len(handed) < Len(msgs)) => Left = <<>> /\ buf = <<>>
<1>1. /\ msgs \in Seq(Message) /\ buf \in Seq(Byte) /\ wire \in Seq(Byte)
      /\ Encoding(Left) = buf \o wire /\ Len(handed) <= Len(msgs)
  BY DEF Stream, TypeOK, Handed
<1>2. /\ Len(handed) \in Nat /\ Len(msgs) \in Nat
      /\ Left \in Seq(Message)
      /\ Len(Left) = Len(msgs) - Len(handed)
      /\ \A i \in 1..(Len(msgs) - Len(handed)) :
           Left[i] = msgs[Len(handed) + i]
  BY LeftMessages DEF Stream
<1>3. ASSUME Len(handed) < Len(msgs)
      PROVE  /\ Following \in Message /\ Head(Left) = Following
             /\ Left # <<>> /\ Tail(Left) \in Seq(Message)
             /\ encode_response(Following) \in Seq(Byte)
             /\ Encoding(Tail(Left)) \in Seq(Byte)
             /\ buf \o wire =
                  encode_response(Following) \o Encoding(Tail(Left))
             /\ Begins(buf, encode_response(Following))
  <2>1. Left # <<>>
    BY <1>2, <1>3
  <2>2. /\ Head(Left) \in Message /\ Tail(Left) \in Seq(Message)
        /\ Head(Left) = Left[1]
    BY <1>2, <2>1, TailSeq
  <2>3. Head(Left) = Following
    <3>1. 1 \in 1..(Len(msgs) - Len(handed))
      BY <1>2, <1>3
    <3> QED BY <2>2, <3>1, <1>2 DEF Following
  <2>4. PICK e \in Seq(Byte) : e = encode_response(Following)
    BY <2>2, <2>3, FrameParts DEF Frame
  <2>5. PICK r \in Seq(Byte) : r = Encoding(Tail(Left))
    BY <2>2, EncodingStep
  <2>6. buf \o wire = e \o r
    BY <2>1, <2>3, <2>4, <2>5, <1>1, <1>2, EncodingStep, Zenon
  <2>7. ASSUME NEW i \in 1..Len(e), i <= Len(buf) PROVE buf[i] = e[i]
    <3>1. (e \o r)[i] = e[i]
      BY Appended
    <3>2. i \in 1..Len(buf)
      BY <2>7
    <3>3. (buf \o wire)[i] = buf[i]
      BY <3>2, <1>1, Appended
    <3> QED BY <2>6, <3>1, <3>3
  <2>8. Begins(buf, e)
    BY <2>7 DEF Begins
  <2> QED BY <2>1, <2>2, <2>3, <2>4, <2>5, <2>6, <2>8, Zenon
<1>4. ASSUME ~(Len(handed) < Len(msgs)) PROVE Left = <<>> /\ buf = <<>>
  <2>1. Len(Left) = 0
    BY <1>1, <1>2, <1>4
  <2>2. Left = <<>>
    BY <2>1, <1>2
  <2>3. buf \o wire = <<>>
    BY <2>2, <1>1, <1>2, EncodingStep, Zenon
  <2> QED BY <2>2, <2>3, <1>1, ConcatEqualIffEmpty
<1> QED BY <1>3, <1>4

-----------------------------------------------------------------------------
(* The invariant.                                                          *)

\* Nothing has been sent.
LEMMA StreamInit == Init => Stream
<1> SUFFICES ASSUME Init PROVE Stream
  OBVIOUS
<1>1. /\ msgs = <<>> /\ wire = <<>> /\ buf = <<>> /\ handed = <<>>
      /\ task = "read"
  BY DEF Init
<1>2. TypeOK
  BY <1>1 DEF TypeOK
<1>3. Handed
  BY <1>1 DEF Handed
<1>4. Encoding(Left) = buf \o wire
  <2>1. Left = <<>> /\ <<>> \in Seq(Message)
    BY <1>1 DEF Left
  <2>2. Encoding(<<>>) = <<>>
    BY <2>1, EncodingStep
  <2>3. buf \o wire = <<>>
    BY <1>1
  <2> QED BY <2>1, <2>2, <2>3, Zenon
<1>5. WaitsOnlyForMore /\ Panicked
  BY <1>1 DEF WaitsOnlyForMore, Panicked
<1> QED BY <1>2, <1>3, <1>4, <1>5 DEF Stream

\* The client sends: a message more is left and its bytes are on the wire.
LEMMA StreamSend ==
  ASSUME Stream, NEW m \in Message, Send(m)
  PROVE  Stream'
<1>1. /\ msgs' = Append(msgs, m) /\ wire' = wire \o encode_response(m)
      /\ buf' = buf /\ handed' = handed /\ task' = task
  BY DEF Send
<1>2. /\ msgs \in Seq(Message) /\ wire \in Seq(Byte) /\ buf \in Seq(Byte)
      /\ handed \in Seq(Message) /\ task \in {"read", "parse", "panicked"}
      /\ Len(handed) <= Len(msgs)
      /\ \A i \in 1..Len(handed) : handed[i] = msgs[i]
  BY DEF Stream, TypeOK, Handed
<1>3. PICK e \in Seq(Byte) : e = encode_response(m)
  BY FrameParts DEF Frame
<1>4. /\ Len(msgs) \in Nat /\ Len(handed) \in Nat
      /\ msgs' \in Seq(Message) /\ Len(msgs') = Len(msgs) + 1
      /\ \A i \in 1..Len(msgs) : msgs'[i] = msgs[i]
      /\ msgs'[Len(msgs) + 1] = m
  BY <1>1, <1>2, AppendProperties
<1>5. TypeOK'
  <2>1. wire' \in Seq(Byte)
    BY <1>1, <1>2, <1>3, Appended
  <2> QED BY <2>1, <1>1, <1>2, <1>4 DEF TypeOK
<1>6. Handed'
  <2>1. \A i \in 1..Len(handed) : handed[i] = msgs'[i]
    BY <1>2, <1>4
  <2> QED BY <2>1, <1>1, <1>2, <1>4 DEF Handed
<1>7. Left' = Append(Left, m)
  <2>1. /\ Left \in Seq(Message) /\ Len(Left) = Len(msgs) - Len(handed)
        /\ \A i \in 1..(Len(msgs) - Len(handed)) :
             Left[i] = msgs[Len(handed) + i]
    BY LeftMessages DEF Stream
  <2>2. /\ Left' \in Seq(Message) /\ Len(Left') = Len(Left) + 1
        /\ \A i \in 1..(Len(Left) + 1) : Left'[i] = msgs'[Len(handed) + i]
    <3>1. Left' = SubSeq(msgs', Len(handed) + 1, Len(msgs'))
      BY <1>1, Zenon DEF Left
    <3>2. Len(handed) <= Len(msgs') /\ Len(msgs') \in Nat
      BY <1>2, <1>4
    <3>3. /\ Left' \in Seq(Message)
          /\ Len(Left') = Len(msgs') - Len(handed)
          /\ \A i \in 1..(Len(msgs') - Len(handed)) :
               Left'[i] = msgs'[Len(handed) + i]
      BY <3>1, <3>2, <1>4, Part
    <3>4. Len(msgs') - Len(handed) = Len(Left) + 1
      BY <2>1, <1>4
    <3> QED BY <3>3, <3>4, Zenon
  <2> DEFINE l == Append(Left, m)
  <2>3. /\ l \in Seq(Message) /\ Len(l) = Len(Left) + 1
        /\ \A i \in 1..Len(Left) : l[i] = Left[i]
        /\ l[Len(Left) + 1] = m
    BY <2>1, AppendProperties
  <2> HIDE DEF l
  <2>4. ASSUME NEW i \in 1..(Len(Left) + 1) PROVE Left'[i] = l[i]
    <3>1. CASE i <= Len(Left)
      <4>1. /\ i \in 1..Len(Left) /\ i \in 1..(Len(msgs) - Len(handed))
            /\ Len(handed) + i \in 1..Len(msgs)
        BY <3>1, <2>1, <1>4, <1>2
      <4> QED BY <4>1, <2>1, <2>2, <2>3, <1>4
    <3>2. CASE i > Len(Left)
      <4>1. i = Len(Left) + 1 /\ Len(handed) + i = Len(msgs) + 1
        BY <3>2, <2>1, <1>4, <1>2
      <4> QED BY <4>1, <2>2, <2>3, <1>4
    <3> QED BY <3>1, <3>2, <2>1, <1>4
  <2>5. Left' = l
    BY <2>2, <2>3, <2>4, SeqEqual
  <2> QED BY <2>5 DEF l
<1>8. (Encoding(Left) = buf \o wire)'
  <2>1. Left \in Seq(Message)
    BY LeftMessages DEF Stream
  <2>2. Encoding(Append(Left, m)) = (buf \o wire) \o e
    BY <2>1, <1>3, EncodingAppend, Zenon DEF Stream
  <2>3. (buf \o wire) \o e = buf \o (wire \o e)
    BY <1>2, ConcatAssociative
  <2>4. Encoding(Left') = buf' \o wire'
    BY <1>1, <1>3, <1>7, <2>2, <2>3, Zenon
  <2> QED BY <2>4
<1>9. WaitsOnlyForMore'
  <2> SUFFICES ASSUME task = "read"
               PROVE  Len(buf) < Len(encode_response(msgs'[Len(handed) + 1]))
    BY <1>1 DEF WaitsOnlyForMore
  <2>1. CASE Len(handed) < Len(msgs)
    <3>1. Len(buf) < Len(encode_response(msgs[Len(handed) + 1]))
      BY <2>1 DEF Stream, WaitsOnlyForMore
    <3>2. msgs'[Len(handed) + 1] = msgs[Len(handed) + 1]
      BY <2>1, <1>4
    <3> QED BY <3>1, <3>2
  <2>2. CASE ~(Len(handed) < Len(msgs))
    <3>1. buf = <<>>
      BY <2>2, BufBegins
    <3>2. msgs'[Len(handed) + 1] = m
      <4>1. Len(handed) = Len(msgs)
        BY <2>2, <1>2, <1>4
      <4> QED BY <4>1, <1>4
    <3>3. Len(encode_response(m)) > 0
      <4>1. Len(encode_response(m)) =
              1 + Len(encode_varint[Len(m.payload)])
                + Len(encode_varint[m.type]) + Len(m.payload)
        BY FrameParts DEF Frame
      <4>2. /\ Len(encode_varint[Len(m.payload)]) \in Nat
            /\ Len(encode_varint[m.type]) \in Nat
            /\ Len(m.payload) \in Nat
        BY Fields, WordCode
      <4>3. \A x, y, z \in Nat : 1 + x + y + z > 0
        OBVIOUS
      <4> QED BY <4>1, <4>2, <4>3, Zenon
    <3>4. Len(buf) = 0
      BY <3>1
    <3> QED BY <3>2, <3>3, <3>4
  <2> QED BY <2>1, <2>2
<1>10. Panicked'
  <2> SUFFICES ASSUME task = "panicked"
               PROVE  Len(handed) < Len(msgs') /\ PanicIsTorn'
    BY <1>1 DEF Panicked
  <2>1. Len(handed) < Len(msgs) /\ PanicIsTorn
    BY DEF Stream, Panicked
  <2>2. msgs'[Len(handed) + 1] = msgs[Len(handed) + 1]
    BY <2>1, <1>4
  <2>3. PanicIsTorn'
    BY <2>1, <2>2, <1>1, Zenon DEF PanicIsTorn
  <2> QED BY <2>1, <2>3, <1>4
<1> QED BY <1>5, <1>6, <1>8, <1>9, <1>10 DEF Stream

\* A read moves bytes from the wire to buf.
LEMMA StreamRead ==
  ASSUME Stream, NEW n \in 1..Len(wire), ReadBuf(n)
  PROVE  Stream'
<1>1. /\ buf' = buf \o SubSeq(wire, 1, n)
      /\ wire' = SubSeq(wire, n + 1, Len(wire))
      /\ task' = "parse" /\ msgs' = msgs /\ handed' = handed
      /\ n <= Len(wire)
  BY DEF ReadBuf
<1>2. /\ msgs \in Seq(Message) /\ wire \in Seq(Byte) /\ buf \in Seq(Byte)
      /\ handed \in Seq(Message)
  BY DEF Stream, TypeOK
<1>3. n \in Nat /\ Len(wire) \in Nat
  BY <1>2
<1> DEFINE w1 == SubSeq(wire, 1, n)
           w2 == SubSeq(wire, n + 1, Len(wire))
<1>4. w1 \in Seq(Byte) /\ w2 \in Seq(Byte)
  <2>1. w2 \in Seq(Byte)
    BY <1>1, <1>2, <1>3, Part
  <2>2. SubSeq(wire, 0 + 1, n) \in Seq(Byte)
    BY <1>1, <1>2, <1>3, Part
  <2> QED BY <2>1, <2>2
<1>5. w1 \o w2 = wire
  <2>1. 1 \in 1..(Len(wire) + 1) /\ n \in (1 - 1)..Len(wire)
        /\ Len(wire) \in n..Len(wire)
    BY <1>1, <1>3
  <2>2. w1 \o w2 = SubSeq(wire, 1, Len(wire))
    BY <2>1, <1>2, ConcatAdjacentSubSeq
  <2> QED BY <2>2, <1>2, SubSeqFull
<1> HIDE DEF w1, w2
<1>6. buf' = buf \o w1 /\ wire' = w2
  BY <1>1, Zenon DEF w1, w2
<1>7. TypeOK'
  <2>1. buf' \in Seq(Byte)
    BY <1>2, <1>4, <1>6, Appended
  <2> QED BY <2>1, <1>1, <1>2, <1>4, <1>6 DEF TypeOK
<1>8. Handed'
  BY <1>1 DEF Handed, Stream
<1>9. (Encoding(Left) = buf \o wire)'
  <2>1. Left' = Left
    BY <1>1, Zenon DEF Left
  <2>2. (buf \o w1) \o w2 = buf \o (w1 \o w2)
    <3>1. buf \in Seq(Byte) /\ w1 \in Seq(Byte) /\ w2 \in Seq(Byte)
      BY <1>2, <1>4
    <3> QED BY <3>1, ConcatAssociative
  <2>3. Encoding(Left) = buf \o wire
    BY DEF Stream
  <2>4. Encoding(Left') = buf' \o wire'
    BY <2>1, <2>2, <2>3, <1>5, <1>6, Zenon
  <2> QED BY <2>4
<1>10. WaitsOnlyForMore' /\ Panicked'
  BY <1>1 DEF WaitsOnlyForMore, Panicked
<1> QED BY <1>7, <1>8, <1>9, <1>10 DEF Stream

\* A turn of the loop hands the first message that is left, or finds that buf
\* holds only a part of it.
LEMMA StreamNext ==
  ASSUME Stream, NextMessage
  PROVE  Stream'
<1>1. /\ task = "parse" /\ msgs' = msgs /\ wire' = wire
      /\ \/ /\ next_message(buf).kind = "Some"
            /\ handed' = Append(handed, next_message(buf).msg)
            /\ buf' = next_message(buf).rest
            /\ task' = task
         \/ /\ next_message(buf).kind = "None"
            /\ task' = "read"
            /\ buf' = buf /\ handed' = handed
         \/ /\ next_message(buf).kind = "Panic"
            /\ task' = "panicked"
            /\ buf' = buf /\ handed' = handed
  BY DEF NextMessage
<1>2. /\ msgs \in Seq(Message) /\ wire \in Seq(Byte) /\ buf \in Seq(Byte)
      /\ handed \in Seq(Message)
      /\ Len(handed) <= Len(msgs)
      /\ \A i \in 1..Len(handed) : handed[i] = msgs[i]
  BY DEF Stream, TypeOK, Handed
<1>3. Len(handed) \in Nat /\ Len(msgs) \in Nat /\ Len(buf) \in Nat
  BY <1>2
\* The steps that take nothing.
<1>4. ASSUME buf' = buf, handed' = handed, task' \in {"read", "panicked"}
      PROVE  /\ TypeOK' /\ Handed' /\ (Encoding(Left) = buf \o wire)'
  <2>1. TypeOK'
    BY <1>1, <1>2, <1>4 DEF TypeOK
  <2>2. Handed'
    BY <1>1, <1>2, <1>4 DEF Handed
  <2>3. Left' = Left
    BY <1>1, <1>4, Zenon DEF Left
  <2>4. Encoding(Left) = buf \o wire
    BY DEF Stream
  <2>5. Encoding(Left') = buf' \o wire'
    BY <2>3, <2>4, <1>1, <1>4, Zenon
  <2> QED BY <2>1, <2>2, <2>5
<1>5. CASE ~(Len(handed) < Len(msgs))
  <2>1. buf = <<>>
    BY <1>5, BufBegins
  <2>2. next_message(buf) = NoMessage
    BY <2>1, Zenon DEF next_message
  <2>3. next_message(buf).kind = "None"
    BY <2>2 DEF NoMessage
  <2>4. buf' = buf /\ handed' = handed /\ task' = "read"
    BY <2>3, <1>1
  <2>5. WaitsOnlyForMore' /\ Panicked'
    BY <2>4, <1>1, <1>5 DEF WaitsOnlyForMore, Panicked
  <2> QED BY <2>4, <2>5, <1>4 DEF Stream
<1>6. CASE Len(handed) < Len(msgs)
  <2>1. PICK m \in Message : m = Following /\ m = Head(Left)
    BY <1>6, BufBegins
  <2>2. PICK e \in Seq(Byte) : e = encode_response(m)
    BY <1>6, <2>1, BufBegins
  <2>3. PICK r \in Seq(Byte) : r = Encoding(Tail(Left))
    BY <1>6, BufBegins
  <2>4. buf \o wire = e \o r /\ Begins(buf, encode_response(m))
    BY <1>6, <2>1, <2>2, <2>3, BufBegins
  <2>5. Left # <<>>
    BY <1>6, BufBegins
  <2>6. CASE Len(e) <= Len(buf)
    <3>1. next_message(buf) = [kind |-> "Some", msg |-> m,
                               rest |-> SubSeq(buf, Len(e) + 1, Len(buf))]
      <4>1. Len(encode_response(m)) <= Len(buf)
        BY <2>2, <2>6
      <4> QED BY <4>1, <2>2, <2>4, <1>2, NextWhole
    <3>2. /\ next_message(buf).kind = "Some"
          /\ next_message(buf).msg = m
          /\ next_message(buf).rest = SubSeq(buf, Len(e) + 1, Len(buf))
      BY <3>1
    <3>3. /\ handed' = Append(handed, m)
          /\ buf' = SubSeq(buf, Len(e) + 1, Len(buf))
          /\ task' = "parse"
      BY <3>2, <1>1
    <3>4. /\ handed' \in Seq(Message) /\ Len(handed') = Len(handed) + 1
          /\ \A i \in 1..Len(handed) : handed'[i] = handed[i]
          /\ handed'[Len(handed) + 1] = m
      BY <3>3, <1>2, AppendProperties
    <3>5. TypeOK'
      <4>1. Len(e) \in Nat /\ Len(buf) \in Nat
        BY <1>3
      <4>2. buf' \in Seq(Byte)
        BY <4>1, <2>6, <3>3, <1>2, Part
      <4> QED BY <4>2, <3>3, <3>4, <1>1, <1>2 DEF TypeOK
    <3>6. Handed'
      <4>1. ASSUME NEW i \in 1..Len(handed') PROVE handed'[i] = msgs[i]
        <5>1. CASE i <= Len(handed)
          <6>1. i \in 1..Len(handed)
            BY <5>1, <3>4, <1>3
          <6> QED BY <6>1, <3>4, <1>2
        <5>2. CASE i > Len(handed)
          <6>1. i = Len(handed) + 1
            BY <5>2, <3>4, <1>3
          <6> QED BY <6>1, <3>4, <2>1 DEF Following
        <5> QED BY <5>1, <5>2, <3>4, <1>3
      <4>2. Len(handed') <= Len(msgs)
        BY <1>3, <1>6, <3>4
      <4> QED BY <4>1, <4>2, <1>1 DEF Handed
    <3>7. Left' = Tail(Left)
      <4>1. Left = SubSeq(msgs, Len(handed) + 1, Len(msgs))
        BY DEF Left
      <4>2. Tail(SubSeq(msgs, Len(handed) + 1, Len(msgs)))
              = SubSeq(msgs, (Len(handed) + 1) + 1, Len(msgs))
        <5>1. Len(handed) + 1 \in 1..Len(msgs)
              /\ Len(msgs) \in (Len(handed) + 1)..Len(msgs)
          BY <1>3, <1>6
        <5> QED BY <5>1, <1>2, HeadTailOfSubSeq
      <4>3. Left' = SubSeq(msgs, (Len(handed) + 1) + 1, Len(msgs))
        BY <1>1, <3>4, Zenon DEF Left
      <4> QED BY <4>1, <4>2, <4>3, Zenon
    <3>8. SubSeq(buf, Len(e) + 1, Len(buf)) \o wire = r
      BY <2>4, <2>6, <1>2, CutFront
    <3>9. Encoding(Left') = buf' \o wire'
      BY <3>3, <3>7, <3>8, <2>3, <1>1, Zenon
    <3>10. WaitsOnlyForMore' /\ Panicked'
      BY <3>3 DEF WaitsOnlyForMore, Panicked
    <3> QED BY <3>5, <3>6, <3>9, <3>10 DEF Stream
  <2>7. CASE ~(Len(e) <= Len(buf))
    <3>1. Len(buf) < Len(encode_response(m))
      <4>1. Len(e) \in Nat
        OBVIOUS
      <4> QED BY <4>1, <2>2, <2>7, <1>3
    <3>2. \/ next_message(buf) = NoMessage
          \/ /\ next_message(buf) = Panic
             /\ m.payload # <<>>
             /\ Len(encode_response(m)) - Len(buf)
                  \in 1..Len(encode_varint[m.type])
      BY <3>1, <2>4, <1>2, NextPart
    <3>3. NoMessage.kind = "None" /\ Panic.kind = "Panic"
      BY DEF NoMessage, Panic
    <3>4. CASE next_message(buf) = NoMessage
      <4>1. buf' = buf /\ handed' = handed /\ task' = "read"
        BY <3>3, <3>4, <1>1
      <4>2. WaitsOnlyForMore'
        BY <4>1, <3>1, <2>1, <1>1 DEF WaitsOnlyForMore, Following
      <4>3. Panicked'
        BY <4>1 DEF Panicked
      <4> QED BY <4>1, <4>2, <4>3, <1>4 DEF Stream
    <3>5. CASE next_message(buf) # NoMessage
      <4>1. buf' = buf /\ handed' = handed /\ task' = "panicked"
        BY <3>2, <3>3, <3>5, <1>1
      <4>2. WaitsOnlyForMore'
        BY <4>1 DEF WaitsOnlyForMore
      <4>3. Panicked'
        <5>1. PanicIsTorn'
          BY <4>1, <3>2, <3>5, <2>1, <1>1 DEF PanicIsTorn, Following
        <5> QED BY <5>1, <4>1, <1>1, <1>6 DEF Panicked
      <4> QED BY <4>1, <4>2, <4>3, <1>4 DEF Stream
    <3> QED BY <3>4, <3>5
  <2> QED BY <2>6, <2>7
<1> QED BY <1>5, <1>6

\* No step breaks the invariant.
LEMMA StreamStep == Stream /\ [Next]_vars => Stream'
<1> SUFFICES ASSUME Stream, [Next]_vars PROVE Stream'
  OBVIOUS
<1>1. ASSUME NEW m \in Message, Send(m) PROVE Stream'
  BY <1>1, StreamSend
<1>2. CASE Read
  BY <1>2, StreamRead DEF Read
<1>3. CASE NextMessage
  BY <1>3, StreamNext
<1>4. CASE UNCHANGED vars
  BY <1>4 DEF vars, Stream, TypeOK, Handed, Left, WaitsOnlyForMore, Panicked,
              PanicIsTorn
<1> QED BY <1>1, <1>2, <1>3, <1>4 DEF Next

\* In every reachable state the bytes are where they should be.
THEOREM Streams == Spec => []Stream
BY StreamInit, StreamStep, PTL DEF Spec

-----------------------------------------------------------------------------
(* The properties.                                                         *)

\* Every variable has its type: what next_message returns is a message.
THEOREM FramingTypes == Spec => []TypeOK
<1>1. Stream => TypeOK
  BY DEF Stream
<1> QED BY <1>1, Streams, PTL

\* No byte is lost, doubled or taken from the wrong place, whatever the
\* messages are and wherever the reads were cut.
THEOREM NoByteLost == Spec => []NothingLost
<1>1. Stream => NothingLost
  <2> SUFFICES ASSUME Stream PROVE NothingLost
    OBVIOUS
  <2>1. /\ msgs \in Seq(Message) /\ handed \in Seq(Message)
        /\ Len(handed) <= Len(msgs)
        /\ \A i \in 1..Len(handed) : handed[i] = msgs[i]
    BY DEF Stream, TypeOK, Handed
  <2>2. Len(handed) \in Nat /\ Len(msgs) \in Nat
    BY <2>1
  <2>3. SubSeq(handed, 0 + 1, Len(handed)) = SubSeq(msgs, 0 + 1, Len(handed))
    <3> DEFINE h == SubSeq(handed, 0 + 1, Len(handed))
               s == SubSeq(msgs, 0 + 1, Len(handed))
    <3>1. /\ h \in Seq(Message) /\ Len(h) = Len(handed) - 0
          /\ \A i \in 1..(Len(handed) - 0) : h[i] = handed[0 + i]
      BY <2>1, <2>2, Part
    <3>2. /\ s \in Seq(Message) /\ Len(s) = Len(handed) - 0
          /\ \A i \in 1..(Len(handed) - 0) : s[i] = msgs[0 + i]
      BY <2>1, <2>2, Part
    <3> HIDE DEF h, s
    <3>3. \A i \in 1..Len(h) : h[i] = s[i]
      BY <3>1, <3>2, <2>1, <2>2
    <3>4. h = s
      BY <3>1, <3>2, <3>3, SeqEqual
    <3> QED BY <3>4 DEF h, s
  <2>4. IsPrefix(handed, msgs)
    BY <2>1, <2>3 DEF IsPrefix
  <2>5. Encoding(SubSeq(msgs, Len(handed) + 1, Len(msgs))) = buf \o wire
    BY Zenon DEF Stream, Left
  <2> QED BY <2>4, <2>5 DEF NothingLost
<1> QED BY <1>1, Streams, PTL

\* The loop waits only while buf does not hold a whole message.
THEOREM WaitsForMore == Spec => []WaitsOnlyForMore
<1>1. Stream => WaitsOnlyForMore
  BY DEF Stream
<1> QED BY <1>1, Streams, PTL

\* A panic is over a payload of which no more is missing than the type is
\* long.
THEOREM PanicsTorn == Spec => []PanicIsTorn
<1>1. Stream => PanicIsTorn
  BY DEF Stream, Panicked, PanicIsTorn
<1> QED BY <1>1, Streams, PTL

\* decode_varint reads back every word encode_varint writes, whatever follows
\* it, takes no proper prefix of one for a number, and refuses what is too long.
THEOREM WordsReadBack == Spec => []VarintsReadBack
<1>1. ASSUME Stream, NEW v \in 0..(Word - 1)
      PROVE  LET code == encode_varint[v] IN
               /\ decode_varint(code \o buf) = <<v, Len(code)>>
               /\ \A n \in 0..(Len(code) - 1) :
                    decode_varint(SubSeq(code, 1, n)) = <<>>
  <2> DEFINE code == encode_varint[v]
  <2>1. code \in Seq(Byte) /\ buf \in Seq(Byte)
    BY <1>1, WordCode DEF Stream, TypeOK
  <2>2. decode_varint(code \o buf) = <<v, Len(code)>>
    <3>1. /\ code \o buf \in Seq(Byte) /\ Len(code) \in Nat /\ Len(buf) \in Nat
          /\ Len(code \o buf) = Len(code) + Len(buf)
          /\ \A i \in 1..Len(code) : (code \o buf)[i] = code[i]
      BY <2>1, Appended
    <3> DEFINE b == code \o buf
    <3>2. Len(code) <= Len(b) /\ Begins(b, code)
      BY <3>1 DEF Begins
    <3> QED BY <3>1, <3>2, DecodeWhole
  <2>3. ASSUME NEW n \in 0..(Len(code) - 1)
        PROVE  decode_varint(SubSeq(code, 1, n)) = <<>>
    <3> DEFINE b == SubSeq(code, 0 + 1, n)
    <3>1. n \in Nat /\ n < Len(code) /\ Len(code) \in Nat
      BY <2>1
    <3>2. /\ b \in Seq(Byte) /\ Len(b) = n - 0
          /\ \A i \in 1..(n - 0) : b[i] = code[0 + i]
      BY <2>1, <3>1, Part
    <3> HIDE DEF b
    <3>3. Len(b) < Len(code) /\ Begins(b, code)
      BY <3>1, <3>2 DEF Begins
    <3>4. decode_varint(b) = <<>>
      BY <3>2, <3>3, DecodePart
    <3>5. b = SubSeq(code, 1, n)
      BY DEF b
    <3> QED BY <3>4, <3>5
  <2> QED BY <1>1, <2>2, <2>3
<1>2. ASSUME Stream, NEW long \in [1..Groups -> Base..(2 * Base - 1)]
      PROVE  decode_varint(long \o buf) = <<>>
  BY <1>2, DecodeLong DEF Stream, TypeOK
<1>3. Stream => VarintsReadBack
  BY <1>1, <1>2, Zenon DEF VarintsReadBack
<1> QED BY <1>3, Streams, PTL
=============================================================================
