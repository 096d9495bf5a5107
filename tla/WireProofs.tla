----------------------------- MODULE WireProofs -----------------------------
(***************************************************************************)
(* Proofs about Wire: the frames of the session and of every advert are    *)
(* read back, whatever values BlueZ gives.                                 *)
(***************************************************************************)
EXTENDS Wire, RawAdvProofs

-----------------------------------------------------------------------------
(* Sequences after each other.                                             *)

Over(s, S) == s \in Seq(S)

\* What is ahead of a sequence is ahead of a longer one.
LEMMA AheadOfBoth ==
  ASSUME NEW S, NEW x, NEW p, NEW s, Over(x, S), Over(p, S), Over(s, S),
         NEW q, NEW r, q = x \o p, r = p \o s
  PROVE  q \o s = x \o r
BY ConcatAssociative DEF Over

\* The sequences after each other, with one more ahead of them.
LEMMA JoinedAhead ==
  ASSUME NEW S, NEW n \in Nat, NEW ss \in [1..n -> Seq(S)],
         NEW tt \in [1..(n + 1) -> Seq(S)],
         \A i \in 1..n : tt[i + 1] = ss[i]
  PROVE  /\ FlattenSeq(ss) \in Seq(S)
         /\ FlattenSeq(tt) = tt[1] \o FlattenSeq(ss)
<1>1. PICK f : GrowsIn(f, ss, n, S) /\ FlattenSeq(ss) = f[n]
  BY JoinedIn
<1>2. PICK g : GrowsIn(g, tt, n + 1, S) /\ FlattenSeq(tt) = g[n + 1]
  <2>1. n + 1 \in Nat
    OBVIOUS
  <2> QED BY <2>1, JoinedIn
<1>3. /\ \A i \in 0..n : f[i] \in Seq(S)
      /\ f[0] = <<>>
      /\ \A i \in 1..n : f[i] = f[i - 1] \o ss[i]
  BY <1>1 DEF GrowsIn
<1>4. /\ g[0] = <<>>
      /\ \A i \in 1..(n + 1) : g[i] = g[i - 1] \o tt[i]
  BY <1>2 DEF GrowsIn
<1>5. PICK x \in Seq(S) : x = tt[1]
  OBVIOUS
<1> DEFINE T == {i \in Nat : i <= n => g[i + 1] = x \o f[i]}
<1>6. 0 \in T
  <2>1. 1 \in 1..(n + 1) /\ 1 - 1 = 0 /\ 0 + 1 = 1
    OBVIOUS
  <2>2. g[0 + 1] = <<>> \o x
    BY <1>4, <1>5, <2>1
  <2>3. <<>> \o x = x /\ x \o <<>> = x
    BY <1>5, ConcatEmptySeq
  <2> QED BY <1>3, <2>2, <2>3
<1>7. ASSUME NEW i \in Nat, i \in T PROVE i + 1 \in T
  <2> SUFFICES ASSUME i + 1 <= n PROVE g[(i + 1) + 1] = x \o f[i + 1]
    OBVIOUS
  <2>1. /\ i \in 0..n /\ i + 1 \in 1..n /\ (i + 1) - 1 = i /\ i <= n
        /\ (i + 1) + 1 \in 1..(n + 1) /\ ((i + 1) + 1) - 1 = i + 1
    OBVIOUS
  <2>2. PICK s : s = ss[i + 1] /\ s \in Seq(S) /\ tt[(i + 1) + 1] = s
    BY <2>1
  <2>3. g[(i + 1) + 1] = g[i + 1] \o s
    BY <1>4, <2>1, <2>2
  <2>4. g[i + 1] = x \o f[i]
    BY <1>7, <2>1
  <2>5. f[i + 1] = f[i] \o s
    BY <1>3, <2>1, <2>2
  <2>6. s \in Seq(S) /\ f[i] \in Seq(S)
    BY <1>3, <2>1, <2>2
  <2>7. g[i + 1] \o s = x \o f[i + 1]
    <3>1. PICK p, q, r : p = f[i] /\ q = g[i + 1] /\ r = f[i + 1]
      OBVIOUS
    <3>2. q = x \o p /\ r = p \o s
      BY <2>4, <2>5, <3>1
    <3>3. Over(x, S) /\ Over(p, S) /\ Over(s, S)
      BY <1>5, <2>6, <3>1 DEF Over
    <3>4. q \o s = x \o r
      BY <3>2, <3>3, AheadOfBoth
    <3> QED BY <3>1, <3>4, Zenon
  <2> QED BY <2>3, <2>7, Zenon
<1>8. n \in T
  <2> HIDE DEF T
  <2> QED BY <1>6, <1>7, Induct
<1>9. g[n + 1] = x \o f[n]
  BY <1>8
<1>10. n \in 0..n
  OBVIOUS
<1> QED BY <1>1, <1>2, <1>3, <1>5, <1>9, <1>10

\* One thing each.
LEMMA JoinedSingles ==
  ASSUME NEW S, NEW n \in Nat, NEW s \in [1..n -> S]
  PROVE  FlattenSeq([i \in 1..n |-> <<s[i]>>]) = s
<1> DEFINE ss == [i \in 1..n |-> <<s[i]>>]
<1>1. ss \in [1..n -> Seq(S)]
  OBVIOUS
<1>2. PICK f : GrowsIn(f, ss, n, S) /\ FlattenSeq(ss) = f[n]
  <2> HIDE DEF ss
  <2> QED BY <1>1, JoinedIn
<1>3. /\ f[0] = <<>>
      /\ \A i \in 1..n : f[i] = f[i - 1] \o <<s[i]>>
  BY <1>2 DEF GrowsIn
<1> DEFINE T == {k \in Nat : k <= n => f[k] = [i \in 1..k |-> s[i]]}
<1>4. 0 \in T
  BY <1>3
<1>5. ASSUME NEW k \in Nat, k \in T PROVE k + 1 \in T
  <2> SUFFICES ASSUME k + 1 <= n PROVE f[k + 1] = [i \in 1..(k + 1) |-> s[i]]
    OBVIOUS
  <2>1. k + 1 \in 1..n /\ (k + 1) - 1 = k /\ k <= n
    OBVIOUS
  <2>2. f[k + 1] = f[k] \o <<s[k + 1]>>
    BY <1>3, <2>1
  <2>3. f[k] = [i \in 1..k |-> s[i]]
    BY <1>5, <2>1
  <2>4. [i \in 1..k |-> s[i]] \o <<s[k + 1]>> = [i \in 1..(k + 1) |-> s[i]]
    OBVIOUS
  <2> QED BY <2>2, <2>3, <2>4
<1>6. n \in T
  <2> HIDE DEF T
  <2> QED BY <1>4, <1>5, Induct
<1>7. [i \in 1..n |-> s[i]] = s
  OBVIOUS
<1> QED BY <1>2, <1>6, <1>7

\* Something in one place and nothing in the others.
LEMMA JoinedOne ==
  ASSUME NEW S, NEW n \in Nat, NEW ss \in [1..n -> Seq(S)], NEW k \in 1..n,
         \A i \in 1..n : i # k => ss[i] = <<>>
  PROVE  FlattenSeq(ss) = ss[k]
<1>1. PICK f : GrowsIn(f, ss, n, S) /\ FlattenSeq(ss) = f[n]
  BY JoinedIn
<1>2. /\ f[0] = <<>>
      /\ \A i \in 1..n : f[i] = f[i - 1] \o ss[i]
  BY <1>1 DEF GrowsIn
<1>3. ss[k] \in Seq(S) /\ <<>> \in Seq(S)
  OBVIOUS
<1>4. /\ <<>> \o <<>> = <<>> /\ <<>> \o ss[k] = ss[k]
      /\ ss[k] \o <<>> = ss[k]
  BY <1>3, ConcatEmptySeq
<1> DEFINE T == {i \in Nat : i <= n => f[i] = IF i < k THEN <<>> ELSE ss[k]}
<1>5. 0 \in T
  BY <1>2
<1>6. ASSUME NEW i \in Nat, i \in T PROVE i + 1 \in T
  <2> SUFFICES ASSUME i + 1 <= n
               PROVE  f[i + 1] = IF i + 1 < k THEN <<>> ELSE ss[k]
    OBVIOUS
  <2>1. i + 1 \in 1..n /\ (i + 1) - 1 = i /\ i <= n
    OBVIOUS
  <2>2. f[i + 1] = f[i] \o ss[i + 1]
    BY <1>2, <2>1
  <2>3. f[i] = IF i < k THEN <<>> ELSE ss[k]
    BY <1>6, <2>1
  <2>4. CASE i + 1 < k
    BY <1>4, <2>1, <2>2, <2>3, <2>4
  <2>5. CASE i + 1 = k
    <3>1. f[i] = <<>> /\ ss[i + 1] = ss[k]
      BY <2>3, <2>5
    <3>2. f[i + 1] = ss[k]
      BY <1>4, <2>2, <3>1, Zenon
    <3> QED BY <2>5, <3>2
  <2>6. CASE i + 1 > k
    <3>1. f[i] = ss[k] /\ ss[i + 1] = <<>>
      BY <2>1, <2>3, <2>6
    <3>2. f[i + 1] = ss[k]
      BY <1>4, <2>2, <3>1, Zenon
    <3> QED BY <2>6, <3>2
  <2> QED BY <2>4, <2>5, <2>6
<1>7. n \in T
  <2> HIDE DEF T
  <2> QED BY <1>5, <1>6, Induct
<1> QED BY <1>1, <1>7

\* Nothing anywhere.
LEMMA JoinedNone ==
  ASSUME NEW S, NEW n \in Nat, NEW ss \in [1..n -> Seq(S)],
         \A i \in 1..n : ss[i] = <<>>
  PROVE  FlattenSeq(ss) = <<>>
<1>1. CASE n = 0
  <2>1. PICK f : GrowsIn(f, ss, n, S) /\ FlattenSeq(ss) = f[n]
    BY JoinedIn
  <2> QED BY <1>1, <2>1 DEF GrowsIn
<1>2. CASE n # 0
  <2>1. 1 \in 1..n
    BY <1>2
  <2>2. FlattenSeq(ss) = ss[1]
    BY <2>1, JoinedOne
  <2> QED BY <2>1, <2>2
<1> QED BY <1>1, <1>2

\* Of bytes.
LEMMA BytesAssociative ==
  ASSUME NEW s \in Bytes, NEW t \in Bytes, NEW u \in Bytes
  PROVE  (s \o t) \o u = s \o (t \o u)
BY ConcatAssociative DEF Bytes

LEMMA BytesEmpty ==
  /\ <<>> \in Bytes /\ Len(<<>>) = 0
  /\ \A s \in Bytes : <<>> \o s = s /\ s \o <<>> = s
BY ConcatEmptySeq DEF Bytes

-----------------------------------------------------------------------------
(* Varints.                                                                *)

\* One digit more.
LEMMA NumberMore ==
  ASSUME NEW base \in Nat, NEW n \in Nat, NEW digits \in [1..n -> Nat],
         NEW more \in [1..(n + 1) -> Nat], \A i \in 1..n : more[i] = digits[i]
  PROVE  /\ Number(base, digits) \in Nat
         /\ Number(base, more) = base * Number(base, digits) + more[n + 1]
<1>1. PICK f : Counts(f, base, digits, n) /\ Number(base, digits) = f[n]
  BY Counted
<1>2. PICK g : Counts(g, base, more, n + 1) /\ Number(base, more) = g[n + 1]
  <2>1. n + 1 \in Nat
    OBVIOUS
  <2> QED BY <2>1, Counted
<1> DEFINE T == {i \in Nat : i <= n => g[i] = f[i]}
<1>3. 0 \in T
  BY <1>1, <1>2 DEF Counts
<1>4. ASSUME NEW i \in Nat, i \in T PROVE i + 1 \in T
  <2> SUFFICES ASSUME i + 1 <= n PROVE g[i + 1] = f[i + 1]
    OBVIOUS
  <2>1. /\ i + 1 \in 1..n /\ i + 1 \in 1..(n + 1)
        /\ (i + 1) - 1 = i /\ i <= n
    OBVIOUS
  <2>2. f[i + 1] = base * f[(i + 1) - 1] + digits[i + 1]
    BY <1>1, <2>1, Zenon DEF Counts
  <2>3. g[i + 1] = base * g[(i + 1) - 1] + more[i + 1]
    BY <1>2, <2>1, Zenon DEF Counts
  <2>4. g[i] = f[i] /\ more[i + 1] = digits[i + 1]
    BY <1>4, <2>1
  <2> QED BY <2>1, <2>2, <2>3, <2>4, Zenon
<1>5. n \in T
  <2> HIDE DEF T
  <2> QED BY <1>3, <1>4, Induct
<1>6. g[n] = f[n] /\ f[n] \in Nat
  BY <1>1, <1>5 DEF Counts
<1>7. n + 1 \in 1..(n + 1) /\ (n + 1) - 1 = n
  OBVIOUS
<1>8. g[n + 1] = base * g[(n + 1) - 1] + more[n + 1]
  BY <1>2, <1>7, Zenon DEF Counts
<1> QED BY <1>1, <1>2, <1>6, <1>7, <1>8, Zenon

\* No digits, and one.
LEMMA NumberNone ==
  ASSUME NEW base \in Nat
  PROVE  Number(base, <<>>) = 0
<1>1. <<>> \in [1..0 -> Nat] /\ 0 \in Nat
  OBVIOUS
<1>2. PICK f : Counts(f, base, <<>>, 0) /\ Number(base, <<>>) = f[0]
  BY <1>1, Counted
<1> QED BY <1>2 DEF Counts

\* How a varint continues.
LEMMA VarintStep ==
  \A v \in Nat : /\ Varint(v) \in Bytes
                 /\ v < 128 => Varint(v) = <<v>>
                 /\ v >= 128 => Varint(v) = <<128 + (v % 128)>>
                                              \o Varint(v \div 128)
<1> DEFINE Stop == 0..127
           start == [v \in Nat |-> IF v < 128 THEN <<v>> ELSE <<>>]
           down == [v \in Nat |-> v \div 128]
           step == [x \in Nat \X Bytes |-> <<128 + (x[1] % 128)>> \o x[2]]
<1>1. PICK f \in [Nat -> Bytes] : Descends(f, Stop, start, down, step)
  <2>1. start \in [Nat -> Bytes]
    <3>1. ASSUME NEW v \in Nat
          PROVE  (IF v < 128 THEN <<v>> ELSE <<>>) \in Bytes
      <4>1. CASE v < 128
        <5>1. v \in Byte
          BY <4>1 DEF Byte
        <5> QED BY <4>1, <5>1 DEF Bytes
      <4>2. CASE ~(v < 128)
        BY <4>2 DEF Bytes
      <4> QED BY <4>1, <4>2
    <3> QED BY <3>1
  <2>2. down \in [Nat -> Nat]
    OBVIOUS
  <2>3. step \in [Nat \X Bytes -> Bytes]
    <3>1. ASSUME NEW v \in Nat, NEW s \in Bytes
          PROVE  <<128 + (v % 128)>> \o s \in Bytes
      <4>1. 128 + (v % 128) \in Byte
        BY DEF Byte
      <4>2. <<128 + (v % 128)>> \in Bytes
        BY <4>1 DEF Bytes
      <4> QED BY <4>2, Appended
    <3> QED BY <3>1
  <2>4. \A v \in Nat \ Stop : down[v] < v
    OBVIOUS
  <2>5. Stop \in SUBSET Nat
    OBVIOUS
  <2> HIDE DEF Stop, start, down, step
  <2> QED BY <2>1, <2>2, <2>3, <2>4, <2>5, StrongRecursion
<1>2. \A v \in Nat : f[v] = IF v < 128 THEN <<v>>
                            ELSE <<128 + (v % 128)>> \o f[v \div 128]
  <2> SUFFICES ASSUME NEW v \in Nat
               PROVE  f[v] = IF v < 128 THEN <<v>>
                             ELSE <<128 + (v % 128)>> \o f[v \div 128]
    OBVIOUS
  <2>1. f[v] = IF v \in Stop THEN start[v] ELSE step[<<v, f[down[v]]>>]
    BY <1>1 DEF Descends
  <2>2. v \div 128 \in Nat /\ f[v \div 128] \in Bytes
    <3>1. v \div 128 \in Nat
      OBVIOUS
    <3> QED BY <3>1
  <2>3. down[v] = v \div 128 /\ start[v] = IF v < 128 THEN <<v>> ELSE <<>>
    OBVIOUS
  <2>4. step[<<v, f[v \div 128]>>] = <<128 + (v % 128)>> \o f[v \div 128]
    BY <2>2
  <2>5. v \in Stop <=> v < 128
    OBVIOUS
  <2> HIDE DEF Stop, start, down, step
  <2> QED BY <2>1, <2>3, <2>4, <2>5
<1> DEFINE F(h) == [k \in Nat |-> IF k < 128 THEN <<k>>
                                  ELSE <<128 + (k % 128)>> \o h[k \div 128]]
           from == CHOOSE h : h = F(h)
<1> HIDE DEF Stop, start, down, step
<1>3. f = F(f)
  BY <1>2
<1>4. from = F(from)
  <2> HIDE DEF F
  <2> QED BY <1>3, Zenon DEF from
<1>5. \A v \in Nat : Varint(v) = from[v]
  BY Zenon DEF Varint
<1> HIDE DEF from
<1>6. \A v \in Nat : from[v] = IF v < 128 THEN <<v>>
                               ELSE <<128 + (v % 128)>> \o from[v \div 128]
  BY <1>4
<1> HIDE DEF F
<1> DEFINE T == {n \in Nat : \A v \in 0..n : from[v] = f[v]}
<1>7. \A v \in Nat : v < 128 \/ from[v \div 128] = f[v \div 128]
                      => from[v] = f[v]
  <2> SUFFICES ASSUME NEW v \in Nat,
                      v < 128 \/ from[v \div 128] = f[v \div 128]
               PROVE  from[v] = f[v]
    OBVIOUS
  <2>1. f[v] = IF v < 128 THEN <<v>>
               ELSE <<128 + (v % 128)>> \o f[v \div 128]
    BY <1>2
  <2>2. from[v] = IF v < 128 THEN <<v>>
                  ELSE <<128 + (v % 128)>> \o from[v \div 128]
    BY <1>6
  <2>3. CASE v < 128
    BY <2>1, <2>2, <2>3, Zenon
  <2>4. CASE ~(v < 128)
    BY <2>1, <2>2, <2>4, Zenon
  <2> QED BY <2>3, <2>4
<1>8. 0 \in T
  BY <1>7
<1>9. ASSUME NEW n \in Nat, n \in T PROVE n + 1 \in T
  <2> SUFFICES ASSUME NEW v \in 0..(n + 1) PROVE from[v] = f[v]
    OBVIOUS
  <2>1. CASE v < 128
    BY <1>7, <2>1
  <2>2. CASE v >= 128
    <3>1. v \div 128 \in 0..n /\ ~(v < 128)
      BY <2>2
    <3>2. from[v \div 128] = f[v \div 128]
      BY <1>9, <3>1
    <3> QED BY <1>7, <3>2
  <2> QED BY <2>1, <2>2
<1>10. \A v \in Nat : from[v] = f[v]
  <2>1. \A n \in T : from[n] = f[n]
    OBVIOUS
  <2> HIDE DEF T
  <2> QED BY <2>1, <1>8, <1>9, Induct
<1>11. ASSUME NEW v \in Nat
       PROVE  /\ Varint(v) \in Bytes
              /\ v < 128 => Varint(v) = <<v>>
              /\ v >= 128 => Varint(v) = <<128 + (v % 128)>>
                                           \o Varint(v \div 128)
  <2>1. v \div 128 \in Nat /\ (v >= 128 => ~(v < 128))
    OBVIOUS
  <2>2. from[v] \in Bytes
    BY <1>10
  <2> QED BY <1>5, <1>6, <2>1, <2>2, Zenon
<1> QED BY <1>11

\* The first k bytes of s are a varint, and these are the digits in them.
Ends(s, k) ==
  k \in 1..Len(s) /\ s[k] < 128 /\ \A j \in 1..(k - 1) : s[j] >= 128

Low(s, k) == Reverse([j \in 1..k |-> s[j] % 128])

LEMMA BytesAreNumbers ==
  \A s \in Bytes : /\ Len(s) \in Nat /\ DOMAIN s = 1..Len(s)
                   /\ \A j \in 1..Len(s) : s[j] \in Byte /\ s[j] \in Nat
<1>1. Byte \subseteq Nat
  BY DEF Byte
<1>2. \A s \in Bytes : /\ Len(s) \in Nat /\ DOMAIN s = 1..Len(s)
                       /\ \A j \in 1..Len(s) : s[j] \in Byte
  BY DEF Bytes
<1> QED BY <1>1, <1>2

LEMMA OneByte ==
  ASSUME NEW b \in Byte
  PROVE  \E p \in Bytes : p = <<b>> /\ Len(p) = 1 /\ p[1] = b
<1>1. PICK p : p = <<b>>
  OBVIOUS
<1>2. p \in Bytes /\ Len(p) = 1 /\ p[1] = b
  BY <1>1 DEF Bytes
<1> QED BY <1>1, <1>2

LEMMA EndIs ==
  ASSUME NEW s \in Bytes, NEW k, Ends(s, k)
  PROVE  HasVarint(s) /\ VarintEnd(s) = k
<1>1. /\ Len(s) \in Nat /\ DOMAIN s = 1..Len(s)
      /\ k \in 1..Len(s) /\ s[k] < 128 /\ \A j \in 1..(k - 1) : s[j] >= 128
      /\ \A j \in 1..Len(s) : s[j] \in Nat
  BY BytesAreNumbers DEF Ends
<1> DEFINE P(j) == s[j] < 128 /\ \A i \in 1..(j - 1) : s[i] >= 128
<1>2. P(k)
  BY <1>1
<1>3. ASSUME NEW j \in 1..Len(s), P(j) PROVE j = k
  <2>1. k \in Int /\ j \in Int
    BY <1>1
  <2>2. ~(j < k)
    BY <1>1, <1>3, <2>1
  <2>3. ~(k < j)
    BY <1>1, <1>3, <2>1
  <2> QED BY <2>1, <2>2, <2>3
<1>4. (CHOOSE j \in 1..Len(s) : P(j)) = k
  <2>1. \E j \in 1..Len(s) : P(j)
    BY <1>1, <1>2
  <2> HIDE DEF P
  <2> QED BY <1>3, <2>1
<1>5. VarintEnd(s) = k
  BY <1>1, <1>4, Zenon DEF VarintEnd
<1> QED BY <1>1, <1>5 DEF HasVarint

LEMMA LowIs ==
  ASSUME NEW s \in Bytes, NEW k \in 0..Len(s)
  PROVE  /\ Low(s, k) = [i \in 1..k |-> s[(k - i) + 1] % 128]
         /\ Low(s, k) \in [1..k -> Nat]
<1>1. k \in Nat /\ \A j \in 1..k : s[j] \in Nat /\ s[j] % 128 \in Nat
  <2>1. Len(s) \in Nat /\ \A j \in 1..Len(s) : s[j] \in Nat
    BY BytesAreNumbers
  <2> QED BY <2>1
<1> DEFINE d == [j \in 1..k |-> s[j] % 128]
<1>2. Len(d) = k
  BY <1>1
<1>3. \A i \in 1..k : (k - i) + 1 \in 1..k /\ d[(k - i) + 1] = s[(k - i) + 1] % 128
  BY <1>1
<1>4. Reverse(d) = [i \in 1..k |-> d[(k - i) + 1]]
  <2> HIDE DEF d
  <2> QED BY <1>2 DEF Reverse
<1>5. Low(s, k) = [i \in 1..k |-> s[(k - i) + 1] % 128]
  <2>1. Low(s, k) = Reverse(d)
    BY DEF Low
  <2> HIDE DEF d
  <2> QED BY <1>3, <1>4, <2>1
<1> QED BY <1>1, <1>3, <1>5

\* A varint is a number.
Stands(s, n) ==
  /\ s \in Bytes
  /\ Ends(s, Len(s))
  /\ Number(128, Low(s, Len(s))) = n

LEMMA VarintStands ==
  ASSUME NEW n \in Nat
  PROVE  Stands(Varint(n), n)
<1> DEFINE T == {k \in Nat : \A v \in 0..k : Stands(Varint(v), v)}
<1>1. ASSUME NEW v \in Nat, v < 128 PROVE Stands(Varint(v), v)
  <2>1. v \in Byte
    BY <1>1 DEF Byte
  <2>2. PICK s : s = <<v>>
    OBVIOUS
  <2>3. s \in Bytes /\ Len(s) = 1 /\ s[1] = v
    BY <2>1, <2>2 DEF Bytes
  <2>4. Ends(s, 1)
    BY <1>1, <2>3 DEF Ends
  <2>5. Low(s, 1) \in [1..1 -> Nat] /\ Low(s, 1)[1] = v
    <3>1. 1 \in 0..Len(s)
      BY <2>3
    <3>2. /\ Low(s, 1) = [i \in 1..1 |-> s[(1 - i) + 1] % 128]
          /\ Low(s, 1) \in [1..1 -> Nat]
      BY <2>3, <3>1, LowIs
    <3>3. v % 128 = v /\ (1 - 1) + 1 = 1
      BY <1>1
    <3> QED BY <2>3, <3>2, <3>3
  <2>6. Number(128, Low(s, 1)) = v
    <3>1. PICK d, z : d = Low(s, 1) /\ z = <<>>
      OBVIOUS
    <3>2. /\ z \in [1..0 -> Nat] /\ 0 \in Nat /\ 0 + 1 = 1 /\ 128 \in Nat
          /\ d \in [1..(0 + 1) -> Nat] /\ \A i \in 1..0 : d[i] = z[i]
      BY <2>5, <3>1
    <3>3. Number(128, d) = 128 * Number(128, z) + d[0 + 1]
      BY <3>2, NumberMore
    <3>4. Number(128, z) = 0
      BY <3>1, <3>2, NumberNone
    <3> QED BY <2>5, <3>1, <3>2, <3>3, <3>4
  <2>7. Varint(v) = s
    BY <1>1, <2>2, VarintStep
  <2> QED BY <2>3, <2>4, <2>6, <2>7 DEF Stands
<1>2. ASSUME NEW v \in Nat, v >= 128, Stands(Varint(v \div 128), v \div 128)
      PROVE  Stands(Varint(v), v)
  <2>1. PICK m \in Nat, r \in 0..127 :
          m = v \div 128 /\ r = v % 128 /\ v = 128 * m + r
    OBVIOUS
  <2>2. PICK s, L, b : s = Varint(m) /\ L = Len(s) /\ b = 128 + r
    OBVIOUS
  <2>3. s \in Bytes /\ Ends(s, L) /\ Number(128, Low(s, L)) = m
    BY <1>2, <2>1, <2>2 DEF Stands
  <2>4. L \in Nat /\ L >= 1
    BY <2>2, <2>3 DEF Ends, Bytes
  <2>5. b \in Byte /\ b >= 128 /\ b % 128 = r
    BY <2>2 DEF Byte
  <2>6. PICK t : t = <<b>> \o s
    OBVIOUS
  <2>7. /\ t \in Bytes /\ Len(t) = L + 1 /\ t[1] = b
        /\ \A j \in 1..L : t[j + 1] = s[j]
    <3>1. PICK p \in Bytes : p = <<b>> /\ Len(p) = 1 /\ p[1] = b
      BY <2>5, OneByte
    <3>2. /\ t \in Bytes /\ Len(t) = Len(p) + Len(s)
          /\ \A j \in 1..Len(p) : t[j] = p[j]
          /\ \A j \in 1..Len(s) : t[Len(p) + j] = s[j]
      BY <2>3, <2>6, <3>1, Appended
    <3>3. 1 + L = L + 1 /\ 1 \in 1..1 /\ \A j \in 1..L : 1 + j = j + 1
      BY <2>4
    <3> QED BY <2>2, <3>1, <3>2, <3>3
  <2>8. Ends(t, L + 1)
    <3>1. t[L + 1] < 128
      <4>1. L \in 1..L /\ s[L] < 128
        BY <2>3, <2>4 DEF Ends
      <4> QED BY <2>7, <4>1
    <3>2. ASSUME NEW j \in 1..L PROVE t[j] >= 128
      <4>1. CASE j = 1
        BY <2>5, <2>7, <4>1
      <4>2. CASE j # 1
        <5>1. j - 1 \in 1..L /\ j - 1 \in 1..(L - 1) /\ (j - 1) + 1 = j
          BY <2>4, <4>2
        <5>2. s[j - 1] >= 128
          BY <2>3, <5>1 DEF Ends
        <5>3. t[(j - 1) + 1] = s[j - 1]
          BY <2>7, <5>1
        <5> QED BY <5>1, <5>2, <5>3
      <4> QED BY <4>1, <4>2
    <3>3. L + 1 \in 1..Len(t) /\ (L + 1) - 1 = L
      BY <2>4, <2>7
    <3> QED BY <3>1, <3>2, <3>3 DEF Ends
  <2>9. PICK d, e : d = Low(s, L) /\ e = Low(t, L + 1)
    OBVIOUS
  <2>10. /\ d \in [1..L -> Nat] /\ e \in [1..(L + 1) -> Nat]
         /\ \A i \in 1..L : e[i] = d[i]
         /\ e[L + 1] = r
    <3>1. L \in 0..Len(s) /\ L + 1 \in 0..Len(t)
      BY <2>2, <2>4, <2>7
    <3>2. d \in [1..L -> Nat] /\ d = [i \in 1..L |-> s[(L - i) + 1] % 128]
      BY <2>3, <2>9, <3>1, LowIs
    <3>3. /\ e \in [1..(L + 1) -> Nat]
          /\ e = [i \in 1..(L + 1) |-> t[((L + 1) - i) + 1] % 128]
      BY <2>7, <2>9, <3>1, LowIs
    <3>4. ASSUME NEW i \in 1..L PROVE e[i] = d[i]
      <4>1. (L - i) + 1 \in 1..L /\ ((L + 1) - i) + 1 = ((L - i) + 1) + 1
            /\ i \in 1..(L + 1)
        BY <2>4
      <4>2. t[((L - i) + 1) + 1] = s[(L - i) + 1]
        BY <2>7, <4>1
      <4>3. e[i] = t[((L + 1) - i) + 1] % 128
        BY <3>3, <4>1
      <4>4. d[i] = s[(L - i) + 1] % 128
        BY <3>2
      <4> QED BY <4>1, <4>2, <4>3, <4>4, Zenon
    <3>5. e[L + 1] = r
      <4>1. L + 1 \in 1..(L + 1) /\ ((L + 1) - (L + 1)) + 1 = 1
        BY <2>4
      <4>2. e[L + 1] = t[((L + 1) - (L + 1)) + 1] % 128
        BY <3>3, <4>1
      <4> QED BY <2>5, <2>7, <4>1, <4>2
    <3> QED BY <3>2, <3>3, <3>4, <3>5
  <2>11. Number(128, e) = v
    <3>1. 128 \in Nat
      OBVIOUS
    <3>2. Number(128, e) = 128 * Number(128, d) + e[L + 1]
      BY <2>4, <2>10, <3>1, NumberMore
    <3> QED BY <2>1, <2>3, <2>9, <2>10, <3>2
  <2>12. Varint(v) = t
    <3>1. Varint(v) = <<128 + (v % 128)>> \o Varint(v \div 128)
      BY <1>2, VarintStep
    <3> QED BY <2>1, <2>2, <2>6, <3>1, Zenon
  <2> QED BY <2>7, <2>8, <2>9, <2>11, <2>12 DEF Stands
<1>3. 0 \in T
  <2>1. \A v \in 0..0 : v \in Nat /\ v < 128
    OBVIOUS
  <2> QED BY <1>1, <2>1
<1>4. ASSUME NEW k \in Nat, k \in T PROVE k + 1 \in T
  <2> SUFFICES ASSUME NEW v \in 0..(k + 1) PROVE Stands(Varint(v), v)
    OBVIOUS
  <2>1. CASE v < 128
    BY <1>1, <2>1
  <2>2. CASE v >= 128
    <3>1. v \div 128 \in 0..k /\ v \in Nat
      BY <2>2
    <3> QED BY <1>2, <1>4, <2>2, <3>1
  <2> QED BY <2>1, <2>2
<1>5. \A k \in T : Stands(Varint(k), k)
  OBVIOUS
<1>6. n \in T
  <2> HIDE DEF T
  <2> QED BY <1>3, <1>4, Induct
<1> QED BY <1>5, <1>6

\* A varint is read back, whatever follows.
LEMMA VarintRead ==
  ASSUME NEW n \in Nat, NEW rest \in Bytes
  PROVE  /\ Varint(n) \in Bytes
         /\ Len(Varint(n)) \in Nat /\ Len(Varint(n)) >= 1
         /\ HasVarint(Varint(n) \o rest)
         /\ ReadVarint(Varint(n) \o rest).value = n
         /\ ReadVarint(Varint(n) \o rest).rest = rest
<1>1. PICK s, L, t : s = Varint(n) /\ L = Len(s) /\ t = s \o rest
  OBVIOUS
<1>2. s \in Bytes /\ Ends(s, L) /\ Number(128, Low(s, L)) = n
  BY <1>1, VarintStands DEF Stands
<1>3. L \in Nat /\ L >= 1
  BY <1>1, <1>2 DEF Ends, Bytes
<1>4. /\ t \in Bytes /\ Len(rest) \in Nat
      /\ Len(t) = L + Len(rest)
      /\ \A i \in 1..L : t[i] = s[i]
      /\ \A i \in 1..Len(rest) : t[L + i] = rest[i]
  BY <1>1, <1>2, Appended
<1>5. Ends(t, L)
  BY <1>1, <1>2, <1>3, <1>4 DEF Ends
<1>6. HasVarint(t) /\ VarintEnd(t) = L
  BY <1>4, <1>5, EndIs
<1>7. [j \in 1..L |-> t[j] % 128] = [j \in 1..L |-> s[j] % 128]
  BY <1>4
<1>8. SubSeq(t, L + 1, Len(t)) = rest
  <2>1. L <= Len(t) /\ Len(t) <= Len(t) /\ Len(t) \in Nat
        /\ Len(t) - L = Len(rest)
    BY <1>3, <1>4
  <2>2. PICK r : r = SubSeq(t, L + 1, Len(t))
    OBVIOUS
  <2>3. /\ r \in Bytes /\ Len(r) = Len(rest)
        /\ \A i \in 1..Len(rest) : r[i] = t[L + i]
    BY <1>3, <1>4, <2>1, <2>2, Part
  <2>4. \A i \in 1..Len(r) : r[i] = rest[i]
    BY <1>4, <2>3
  <2> QED BY <2>2, <2>3, <2>4, SameBytes
<1>9. ReadVarint(t).value = n
  <2>1. ReadVarint(t).value
          = Number(128, Reverse([j \in 1..L |-> t[j] % 128]))
    BY <1>6 DEF ReadVarint
  <2> QED BY <1>2, <1>7, <2>1 DEF Low
<1>10. ReadVarint(t).rest = rest
  BY <1>6, <1>8 DEF ReadVarint
<1> QED BY <1>1, <1>2, <1>3, <1>6, <1>9, <1>10

\* What is read when there is one.
LEMMA VarintParts ==
  ASSUME NEW s \in Bytes, HasVarint(s)
  PROVE  /\ ReadVarint(s).value \in Nat
         /\ ReadVarint(s).rest \in Bytes
         /\ Len(ReadVarint(s).rest) \in Nat
         /\ Len(ReadVarint(s).rest) < Len(s)
<1>1. /\ Len(s) \in Nat /\ DOMAIN s = 1..Len(s)
      /\ \A j \in 1..Len(s) : s[j] \in Nat
  BY BytesAreNumbers
<1> DEFINE A == {j \in Nat : j \in 1..Len(s) /\ s[j] < 128}
<1>2. A \in SUBSET Nat /\ A # {}
  BY <1>1 DEF HasVarint
<1>3. PICK k \in A : \A j \in A : k <= j
  <2> HIDE DEF A
  <2> QED BY <1>2, Least
<1>4. k \in 1..Len(s) /\ s[k] < 128
  OBVIOUS
<1>5. ASSUME NEW j \in 1..(k - 1) PROVE s[j] >= 128
  <2>1. j \in 1..Len(s) /\ j \in Nat /\ s[j] \in Nat /\ ~(k <= j)
    BY <1>1, <1>4
  <2>2. j \notin A
    <3> HIDE DEF A
    <3> QED BY <1>3, <2>1
  <2> QED BY <2>1, <2>2
<1> HIDE DEF A
<1>6. VarintEnd(s) = k
  BY <1>4, <1>5, EndIs DEF Ends
<1>7. Number(128, Low(s, k)) \in Nat
  <2>1. k \in 0..Len(s) /\ k \in Nat /\ 128 \in Nat
    BY <1>1, <1>4
  <2>2. PICK d : d = Low(s, k) /\ d \in [1..k -> Nat]
    BY <2>1, LowIs
  <2>3. PICK f : Counts(f, 128, d, k) /\ Number(128, d) = f[k]
    BY <2>1, <2>2, Counted
  <2>4. f[k] \in Nat
    BY <2>1, <2>3 DEF Counts
  <2> QED BY <2>2, <2>3, <2>4
<1>8. ReadVarint(s).value = Number(128, Low(s, k))
  BY <1>6 DEF ReadVarint, Low
<1>9. ReadVarint(s).rest = SubSeq(s, k + 1, Len(s))
  BY <1>6 DEF ReadVarint
<1>10. /\ SubSeq(s, k + 1, Len(s)) \in Bytes
       /\ Len(SubSeq(s, k + 1, Len(s))) = Len(s) - k
  <2>1. k \in Nat /\ k <= Len(s) /\ Len(s) <= Len(s) /\ Len(s) \in Nat
    BY <1>1, <1>4
  <2> QED BY <2>1, Part
<1>11. Len(s) - k \in Nat /\ Len(s) - k < Len(s)
  BY <1>1, <1>4
<1> QED BY <1>7, <1>8, <1>9, <1>10, <1>11

-----------------------------------------------------------------------------
(* The values on the wire.                                                 *)

Wired == Nat \union Bytes
Item  == [tag : Nat, value : Wired]

\* The parts of the value that bytes start with.
TagOf(bytes)    == ReadVarint(bytes)
ArgOf(bytes)    == ReadVarint(TagOf(bytes).rest)
Numeric(bytes)  == TagOf(bytes).value % 8 = 0
LengthOf(bytes) == IF Numeric(bytes) THEN 0 ELSE ArgOf(bytes).value
ItemOf(bytes) ==
  [tag   |-> TagOf(bytes).value,
   value |-> IF Numeric(bytes) THEN ArgOf(bytes).value
             ELSE SubSeq(ArgOf(bytes).rest, 1, LengthOf(bytes))]
RestOf(bytes) ==
  SubSeq(ArgOf(bytes).rest, LengthOf(bytes) + 1, Len(ArgOf(bytes).rest))

WholeItem(bytes) ==
  /\ bytes # <<>> /\ HasVarint(bytes) /\ HasVarint(TagOf(bytes).rest)
  /\ ~(LengthOf(bytes) > Len(ArgOf(bytes).rest))

LEMMA ItemParts ==
  ASSUME NEW s \in Bytes, WholeItem(s)
  PROVE  /\ ItemOf(s) \in Item
         /\ RestOf(s) \in Bytes
         /\ Len(RestOf(s)) \in Nat /\ Len(RestOf(s)) < Len(s)
<1>1. PICK u, r, v, z, l :
        /\ u = TagOf(s).value /\ r = TagOf(s).rest
        /\ v = ArgOf(s).value /\ z = ArgOf(s).rest /\ l = LengthOf(s)
  OBVIOUS
<1>2. /\ u \in Nat /\ r \in Bytes /\ Len(r) \in Nat /\ Len(r) < Len(s)
      /\ Len(s) \in Nat
  BY <1>1, VarintParts, BytesAreNumbers DEF WholeItem, TagOf
<1>3. v \in Nat /\ z \in Bytes /\ Len(z) \in Nat /\ Len(z) < Len(r)
  <2>1. r \in Bytes /\ HasVarint(r)
    BY <1>1, <1>2 DEF WholeItem
  <2>2. v = ReadVarint(r).value /\ z = ReadVarint(r).rest
    BY <1>1 DEF ArgOf
  <2> QED BY <2>1, <2>2, VarintParts
<1>4. l \in Nat /\ l <= Len(z)
  <2>1. l = IF Numeric(s) THEN 0 ELSE v
    BY <1>1 DEF LengthOf
  <2>2. ~(l > Len(z))
    BY <1>1 DEF WholeItem
  <2>3. l \in Nat
    BY <1>3, <2>1
  <2> QED BY <1>3, <2>2, <2>3
<1>5. SubSeq(z, 1, l) \in Bytes
  <2>1. PICK nil \in Nat : nil = 0
    OBVIOUS
  <2>2. SubSeq(z, nil + 1, l) \in Bytes
    BY <1>3, <1>4, <2>1, Part
  <2>3. nil + 1 = 1
    BY <2>1
  <2> QED BY <2>2, <2>3
<1>6. /\ SubSeq(z, l + 1, Len(z)) \in Bytes
      /\ Len(SubSeq(z, l + 1, Len(z))) = Len(z) - l
  <2>1. Len(z) <= Len(z)
    BY <1>3
  <2> QED BY <1>3, <1>4, <2>1, Part
<1>7. ItemOf(s) \in Item
  <2>1. PICK w : w = IF Numeric(s) THEN v ELSE SubSeq(z, 1, l)
    OBVIOUS
  <2>2. w \in Wired
    BY <1>3, <1>5, <2>1 DEF Wired
  <2>3. ItemOf(s) = [tag |-> u, value |-> w]
    BY <1>1, <2>1, Zenon DEF ItemOf
  <2> QED BY <1>2, <2>2, <2>3 DEF Item
<1>8. Len(z) - l \in Nat /\ Len(z) - l < Len(s)
  BY <1>2, <1>3, <1>4
<1>9. RestOf(s) = SubSeq(z, l + 1, Len(z))
  BY <1>1, Zenon DEF RestOf
<1> QED BY <1>6, <1>7, <1>8, <1>9

\* Nothing, the first value and those of the rest, or a value that is cut off.
LEMMA FirstItemsStep ==
  \A n \in Nat : \A s \in Bytes :
    /\ FirstItems[n][s] \in Seq(Item)
    /\ FirstItems[0][s] = IF s = <<>> THEN <<>> ELSE <<Cut>>
    /\ FirstItems[n + 1][s] =
         IF s = <<>> THEN <<>>
         ELSE IF WholeItem(s) THEN <<ItemOf(s)>> \o FirstItems[n][RestOf(s)]
         ELSE <<Cut>>
<1> DEFINE S == [Bytes -> Seq(Item)]
           nil == [s \in Bytes |-> IF s = <<>> THEN <<>> ELSE <<Cut>>]
           next(g) == [s \in Bytes |->
                         IF s = <<>> THEN <<>>
                         ELSE IF WholeItem(s) THEN <<ItemOf(s)>> \o g[RestOf(s)]
                         ELSE <<Cut>>]
           step == [x \in Nat \X S |-> next(x[2])]
<1>0. /\ <<>> \in Seq(Item) /\ <<Cut>> \in Seq(Item)
      /\ \A it \in Item : <<it>> \in Seq(Item)
  <2>1. Cut \in Item
    BY DEF Cut, Item, Wired
  <2> QED BY <2>1
<1>1. ASSUME NEW g \in S PROVE next(g) \in S
  <2>1. ASSUME NEW s \in Bytes
        PROVE  (IF s = <<>> THEN <<>>
                ELSE IF WholeItem(s) THEN <<ItemOf(s)>> \o g[RestOf(s)]
                ELSE <<Cut>>) \in Seq(Item)
    <3>1. CASE s # <<>> /\ WholeItem(s)
      <4>1. ItemOf(s) \in Item /\ RestOf(s) \in Bytes
        BY <3>1, ItemParts
      <4>2. <<ItemOf(s)>> \in Seq(Item) /\ g[RestOf(s)] \in Seq(Item)
        BY <1>0, <4>1
      <4>3. <<ItemOf(s)>> \o g[RestOf(s)] \in Seq(Item)
        BY <4>2, ConcatProperties
      <4> QED BY <3>1, <4>3, Zenon
    <3>2. CASE s = <<>> \/ ~WholeItem(s)
      BY <1>0, <3>2, Zenon
    <3> QED BY <3>1, <3>2
  <2> QED BY <2>1
<1>2. PICK f : Iterates(f, nil, step, S)
  <2>1. nil \in S
    BY <1>0
  <2>2. step \in [Nat \X S -> S]
    <3> HIDE DEF S, next
    <3> QED BY <1>1
  <2> HIDE DEF S, nil, step
  <2> QED BY <2>1, <2>2, Recursion
<1>3. /\ f \in [Nat -> S] /\ f[0] = nil
      /\ \A n \in Nat : f[n + 1] = next(f[n])
  <2>1. /\ f \in [Nat -> S] /\ f[0] = nil
        /\ \A n \in Nat : f[n + 1] = step[<<n, f[n]>>]
    BY <1>2 DEF Iterates
  <2>2. \A n \in Nat : \A g \in S : step[<<n, g>>] = next(g)
    OBVIOUS
  <2> HIDE DEF S, nil, step, next
  <2> QED BY <2>1, <2>2
<1> DEFINE Body(g, n, bytes) ==
             LET tag    == ReadVarint(bytes)
                 arg    == ReadVarint(tag.rest)
                 number == tag.value % 8 = 0
                 length == IF number THEN 0 ELSE arg.value
             IN IF bytes = <<>> THEN <<>>
                ELSE IF n = 0 \/ ~HasVarint(bytes) THEN <<Cut>>
                ELSE IF ~HasVarint(tag.rest) \/ length > Len(arg.rest)
                     THEN <<Cut>>
                ELSE <<[tag   |-> tag.value,
                        value |-> IF number THEN arg.value
                                  ELSE SubSeq(arg.rest, 1, length)]>>
                       \o g[n - 1][SubSeq(arg.rest, length + 1, Len(arg.rest))]
           Step(g, n, s) ==
             IF s = <<>> THEN <<>>
             ELSE IF n # 0 /\ WholeItem(s)
                  THEN <<ItemOf(s)>> \o g[n - 1][RestOf(s)]
             ELSE <<Cut>>
           F(g) == [n \in Nat |-> [bytes \in Bytes |-> Body(g, n, bytes)]]
<1>4. \A g, n, s : Body(g, n, s) = Step(g, n, s)
  <2> SUFFICES ASSUME NEW g, NEW n, NEW s PROVE Body(g, n, s) = Step(g, n, s)
    OBVIOUS
  <2>1. Body(g, n, s) =
          IF s = <<>> THEN <<>>
          ELSE IF n = 0 \/ ~HasVarint(s) THEN <<Cut>>
          ELSE IF ~HasVarint(TagOf(s).rest) \/ LengthOf(s) > Len(ArgOf(s).rest)
               THEN <<Cut>>
          ELSE <<ItemOf(s)>> \o g[n - 1][RestOf(s)]
    BY Zenon DEF TagOf, ArgOf, Numeric, LengthOf, ItemOf, RestOf
  <2> HIDE DEF Body
  <2>2. CASE s = <<>>
    BY <2>1, <2>2, Zenon
  <2>3. CASE s # <<>> /\ n # 0 /\ WholeItem(s)
    BY <2>1, <2>3, Zenon DEF WholeItem
  <2>4. CASE s # <<>> /\ ~(n # 0 /\ WholeItem(s))
    BY <2>1, <2>4, Zenon DEF WholeItem
  <2> QED BY <2>2, <2>3, <2>4
<1> HIDE DEF Body
<1>5. f = F(f)
  <2>1. ASSUME NEW n \in Nat PROVE f[n] = [s \in Bytes |-> Step(f, n, s)]
    <3>1. CASE n = 0
      BY <3>1, <1>3
    <3>2. CASE n # 0
      <4>1. n - 1 \in Nat /\ n = (n - 1) + 1
        BY <3>2
      <4>2. f[n] = next(f[n - 1])
        BY <4>1, <1>3, Zenon
      <4> QED BY <3>2, <4>2
    <3> QED BY <3>1, <3>2
  <2>2. F(f) = [n \in Nat |-> [s \in Bytes |-> Step(f, n, s)]]
    <3> HIDE DEF Step
    <3> QED BY <1>4
  <2>3. f = [n \in Nat |-> f[n]]
    BY <1>3
  <2> HIDE DEF F, Step, S
  <2> QED BY <2>1, <2>2, <2>3
<1>6. FirstItems = F(FirstItems)
  <2>1. FirstItems = CHOOSE g : g = F(g)
    BY Zenon DEF FirstItems, Body
  <2> HIDE DEF F
  <2> QED BY <1>5, <2>1, Zenon
<1>7. ASSUME NEW n \in Nat, NEW s \in Bytes
      PROVE  FirstItems[n][s] = Step(FirstItems, n, s)
  <2>1. FirstItems[n] = [t \in Bytes |-> Body(FirstItems, n, t)]
    BY <1>6, Zenon
  <2>2. FirstItems[n][s] = Body(FirstItems, n, s)
    BY <2>1, Zenon
  <2> HIDE DEF Step
  <2> QED BY <1>4, <2>2
<1>8. ASSUME NEW n \in Nat, NEW s \in Bytes
      PROVE  /\ FirstItems[0][s] = nil[s]
             /\ FirstItems[n + 1][s] = next(FirstItems[n])[s]
  <2>1. n + 1 \in Nat /\ n + 1 # 0 /\ (n + 1) - 1 = n /\ 0 \in Nat
    OBVIOUS
  <2>2. FirstItems[0][s] = Step(FirstItems, 0, s)
    BY <1>7
  <2>3. FirstItems[n + 1][s] = Step(FirstItems, n + 1, s)
    BY <1>7, <2>1
  <2>4. Step(FirstItems, 0, s) = nil[s]
    BY Zenon
  <2>5. Step(FirstItems, n + 1, s) = next(FirstItems[n])[s]
    BY <2>1, Zenon
  <2> QED BY <2>2, <2>3, <2>4, <2>5, Zenon
<1> DEFINE T == {n \in Nat : \A s \in Bytes : FirstItems[n][s] \in Seq(Item)}
<1>9. 0 \in T
  BY <1>0, <1>8
<1>10. ASSUME NEW n \in Nat, n \in T PROVE n + 1 \in T
  <2> SUFFICES ASSUME NEW s \in Bytes
               PROVE  FirstItems[n + 1][s] \in Seq(Item)
    OBVIOUS
  <2>1. CASE s # <<>> /\ WholeItem(s)
    <3>1. ItemOf(s) \in Item /\ RestOf(s) \in Bytes
      BY <2>1, ItemParts
    <3>2. <<ItemOf(s)>> \in Seq(Item) /\ FirstItems[n][RestOf(s)] \in Seq(Item)
      BY <1>0, <1>10, <3>1
    <3>3. <<ItemOf(s)>> \o FirstItems[n][RestOf(s)] \in Seq(Item)
      BY <3>2, ConcatProperties
    <3>4. FirstItems[n + 1][s] = <<ItemOf(s)>> \o FirstItems[n][RestOf(s)]
      BY <1>8, <2>1
    <3> QED BY <3>3, <3>4, Zenon
  <2>2. CASE s = <<>> \/ ~WholeItem(s)
    BY <1>0, <1>8, <2>2
  <2> QED BY <2>1, <2>2
<1>11. \A n \in Nat : \A s \in Bytes : FirstItems[n][s] \in Seq(Item)
  <2>1. \A n \in T : \A s \in Bytes : FirstItems[n][s] \in Seq(Item)
    OBVIOUS
  <2> HIDE DEF T
  <2> QED BY <2>1, <1>9, <1>10, Induct
<1> HIDE DEF T, F, Step
<1> QED BY <1>8, <1>11, Zenon

\* There are no more values than bytes.
LEMMA ItemsAll ==
  \A s \in Bytes : \A n \in Nat : Len(s) <= n => FirstItems[n][s] = Items(s)
<1> DEFINE Good(s) == \A n \in Nat : Len(s) <= n => FirstItems[n][s] = Items(s)
           T == {k \in Nat : \A s \in Bytes : Len(s) <= k => Good(s)}
<1>0. \A s \in Bytes : Len(s) \in Nat /\ (Len(s) = 0 => s = <<>>)
  BY DEF Bytes
<1>1. ASSUME NEW n \in Nat, n # 0 PROVE \E m \in Nat : n = m + 1
  <2>1. n - 1 \in Nat /\ n = (n - 1) + 1
    BY <1>1
  <2> QED BY <2>1
<1>2. ASSUME NEW s \in Bytes, s = <<>> \/ ~WholeItem(s) PROVE Good(s)
  <2>1. ASSUME NEW n \in Nat
        PROVE  FirstItems[n][s] = IF s = <<>> THEN <<>> ELSE <<Cut>>
    <3>1. CASE n = 0
      BY <3>1, FirstItemsStep
    <3>2. CASE n # 0
      <4>1. PICK m \in Nat : n = m + 1
        BY <1>1, <3>2
      <4>2. FirstItems[m + 1][s] =
              IF s = <<>> THEN <<>>
              ELSE IF WholeItem(s) THEN <<ItemOf(s)>> \o FirstItems[m][RestOf(s)]
              ELSE <<Cut>>
        BY FirstItemsStep
      <4> QED BY <1>2, <4>1, <4>2, Zenon
    <3> QED BY <3>1, <3>2
  <2>2. Len(s) \in Nat
    BY <1>0
  <2> QED BY <2>1, <2>2 DEF Items
<1>3. 0 \in T
  <2>1. ASSUME NEW s \in Bytes, Len(s) <= 0 PROVE s = <<>>
    <3>1. Len(s) = 0
      BY <1>0, <2>1
    <3> QED BY <1>0, <3>1
  <2> HIDE DEF Good
  <2> QED BY <1>2, <2>1
<1>4. ASSUME NEW k \in Nat, k \in T PROVE k + 1 \in T
  <2>1. \A s \in Bytes : Len(s) <= k => Good(s)
    BY <1>4
  <2> SUFFICES ASSUME NEW s \in Bytes, Len(s) <= k + 1 PROVE Good(s)
    OBVIOUS
  <2>2. CASE s # <<>> /\ WholeItem(s)
    <3>1. /\ RestOf(s) \in Bytes /\ Len(RestOf(s)) \in Nat
          /\ Len(RestOf(s)) < Len(s) /\ Len(s) \in Nat
      BY <1>0, <2>2, ItemParts
    <3>2. Good(RestOf(s))
      <4>1. Len(RestOf(s)) <= k
        BY <3>1
      <4> HIDE DEF Good
      <4> QED BY <2>1, <3>1, <4>1
    <3>3. ASSUME NEW n \in Nat, Len(s) <= n
          PROVE  FirstItems[n][s] = <<ItemOf(s)>> \o Items(RestOf(s))
      <4>1. PICK m \in Nat : n = m + 1
        <5>1. n # 0
          BY <3>1, <3>3
        <5> QED BY <1>1, <5>1
      <4>2. Len(RestOf(s)) <= m
        BY <3>1, <3>3, <4>1
      <4>3. FirstItems[m][RestOf(s)] = Items(RestOf(s))
        BY <3>2, <4>2
      <4>4. FirstItems[m + 1][s] = <<ItemOf(s)>> \o FirstItems[m][RestOf(s)]
        BY <2>2, FirstItemsStep
      <4> QED BY <4>1, <4>3, <4>4, Zenon
    <3>4. Items(s) = <<ItemOf(s)>> \o Items(RestOf(s))
      <4>1. Len(s) <= Len(s)
        BY <3>1
      <4>2. FirstItems[Len(s)][s] = <<ItemOf(s)>> \o Items(RestOf(s))
        BY <3>1, <3>3, <4>1
      <4> QED BY <4>2, Zenon DEF Items
    <3> QED BY <3>3, <3>4
  <2>3. CASE s = <<>> \/ ~WholeItem(s)
    BY <2>3, <1>2
  <2> QED BY <2>2, <2>3
<1>5. \A k \in T : \A s \in Bytes : Len(s) <= k => Good(s)
  OBVIOUS
<1>6. \A k \in Nat : k <= k
  OBVIOUS
<1> HIDE DEF T, Good
<1>7. \A s \in Bytes : Good(s)
  <2>1. Nat \subseteq T
    BY <1>3, <1>4, Induct
  <2> QED BY <1>0, <1>5, <1>6, <2>1
<1> QED BY <1>7 DEF Good

\* The values of bytes are the first and those of the rest.
LEMMA ItemsStep ==
  ASSUME NEW s \in Bytes
  PROVE  /\ Items(s) \in Seq(Item)
         /\ s = <<>> => Items(s) = <<>>
         /\ WholeItem(s) => Items(s) = <<ItemOf(s)>> \o Items(RestOf(s))
<1>1. PICK n \in Nat : n = Len(s)
  BY DEF Bytes
<1>2. n <= n + 1 /\ n + 1 \in Nat /\ n <= n
  OBVIOUS
<1>3. Items(s) = FirstItems[n + 1][s]
  BY <1>1, <1>2, ItemsAll
<1>4. FirstItems[n + 1][s] =
        IF s = <<>> THEN <<>>
        ELSE IF WholeItem(s) THEN <<ItemOf(s)>> \o FirstItems[n][RestOf(s)]
        ELSE <<Cut>>
  BY FirstItemsStep
<1>5. Items(s) \in Seq(Item)
  BY <1>2, <1>3, FirstItemsStep
<1>6. ASSUME WholeItem(s)
      PROVE  s # <<>> /\ FirstItems[n][RestOf(s)] = Items(RestOf(s))
  <2>1. RestOf(s) \in Bytes /\ Len(RestOf(s)) <= n
    <3>1. /\ RestOf(s) \in Bytes /\ Len(RestOf(s)) \in Nat
          /\ Len(RestOf(s)) < n
      BY <1>1, <1>6, ItemParts
    <3> QED BY <3>1
  <2> QED BY <1>6, <2>1, ItemsAll DEF WholeItem
<1> QED BY <1>3, <1>4, <1>5, <1>6, Zenon

\* A value is read back in front of whatever follows: a number after a tag for
\* numbers, and bytes after their length.
LEMMA NumberRead ==
  ASSUME NEW t \in Nat, t % 8 = 0, NEW v \in Nat, NEW rest \in Bytes
  PROVE  LET s == Varint(t) \o Varint(v)
         IN /\ s \in Bytes
            /\ Items(s \o rest) = <<[tag |-> t, value |-> v]>> \o Items(rest)
<1>1. PICK a, b, s, r, z :
        a = Varint(t) /\ b = Varint(v) /\ s = a \o b /\ r = b \o rest
        /\ z = s \o rest
  OBVIOUS
<1>2. a \in Bytes /\ b \in Bytes
  BY <1>1, VarintRead
<1>3. s \in Bytes /\ r \in Bytes /\ z \in Bytes
  BY <1>1, <1>2, Appended
<1>4. z = a \o r
  BY <1>1, <1>2, BytesAssociative
<1>5. /\ HasVarint(z) /\ TagOf(z).value = t /\ TagOf(z).rest = r
      /\ HasVarint(r) /\ ArgOf(z).value = v /\ ArgOf(z).rest = rest
  <2>1. HasVarint(z) /\ TagOf(z).value = t /\ TagOf(z).rest = r
    <3>1. /\ HasVarint(Varint(t) \o r) /\ ReadVarint(Varint(t) \o r).value = t
          /\ ReadVarint(Varint(t) \o r).rest = r
      BY <1>3, VarintRead
    <3> QED BY <1>1, <1>4, <3>1, Zenon DEF TagOf
  <2>2. HasVarint(r) /\ ReadVarint(r).value = v /\ ReadVarint(r).rest = rest
    BY <1>1, VarintRead
  <2> QED BY <2>1, <2>2 DEF ArgOf
<1>6. Numeric(z) /\ LengthOf(z) = 0
  BY <1>5 DEF Numeric, LengthOf
<1>7. z # <<>>
  BY <1>5 DEF HasVarint
<1>8. WholeItem(z)
  <2>1. ~(0 > Len(rest))
    BY BytesAreNumbers
  <2> QED BY <1>5, <1>6, <1>7, <2>1 DEF WholeItem
<1>9. ItemOf(z) = [tag |-> t, value |-> v]
  BY <1>5, <1>6, Zenon DEF ItemOf
<1>10. RestOf(z) = rest
  <2>1. RestOf(z) = SubSeq(rest, 0 + 1, Len(rest))
    BY <1>5, <1>6, Zenon DEF RestOf
  <2>2. SubSeq(rest, 1, Len(rest)) = rest
    BY DEF Bytes
  <2> QED BY <2>1, <2>2
<1>11. Items(z) = <<[tag |-> t, value |-> v]>> \o Items(rest)
  BY <1>3, <1>8, <1>9, <1>10, ItemsStep
<1> QED BY <1>1, <1>3, <1>11

LEMMA BytesRead ==
  ASSUME NEW t \in Nat, t % 8 # 0, NEW v \in Bytes, NEW rest \in Bytes
  PROVE  LET s == Varint(t) \o (Varint(Len(v)) \o v)
         IN /\ s \in Bytes
            /\ Items(s \o rest) = <<[tag |-> t, value |-> v]>> \o Items(rest)
<1>0. PICK l \in Nat : l = Len(v)
  BY BytesAreNumbers
<1>1. PICK a, b, p, s, w, r, z :
        /\ a = Varint(t) /\ b = Varint(l) /\ p = b \o v /\ s = a \o p
        /\ w = v \o rest /\ r = b \o w /\ z = s \o rest
  OBVIOUS
<1>2. a \in Bytes /\ b \in Bytes
  BY <1>1, VarintRead
<1>3. p \in Bytes /\ w \in Bytes
  BY <1>1, <1>2, Appended
<1>4. s \in Bytes /\ r \in Bytes
  BY <1>1, <1>2, <1>3, Appended
<1>5. z \in Bytes
  BY <1>1, <1>4, Appended
<1>6. z = a \o r
  <2>1. (a \o p) \o rest = a \o (p \o rest)
    BY <1>2, <1>3, BytesAssociative
  <2>2. p \o rest = b \o (v \o rest)
    BY <1>1, <1>2, BytesAssociative
  <2> QED BY <1>1, <2>1, <2>2, Zenon
<1>7. /\ HasVarint(z) /\ TagOf(z).value = t /\ TagOf(z).rest = r
      /\ HasVarint(r) /\ ArgOf(z).value = l /\ ArgOf(z).rest = w
  <2>1. HasVarint(z) /\ TagOf(z).value = t /\ TagOf(z).rest = r
    <3>1. /\ HasVarint(Varint(t) \o r) /\ ReadVarint(Varint(t) \o r).value = t
          /\ ReadVarint(Varint(t) \o r).rest = r
      BY <1>4, VarintRead
    <3> QED BY <1>1, <1>6, <3>1, Zenon DEF TagOf
  <2>2. HasVarint(r) /\ ReadVarint(r).value = l /\ ReadVarint(r).rest = w
    BY <1>1, <1>3, VarintRead
  <2> QED BY <2>1, <2>2 DEF ArgOf
<1>8. ~Numeric(z) /\ LengthOf(z) = l
  BY <1>7 DEF Numeric, LengthOf
<1>9. z # <<>>
  BY <1>7 DEF HasVarint
<1>10. /\ Len(rest) \in Nat /\ Len(w) = l + Len(rest)
       /\ \A i \in 1..l : w[i] = v[i]
       /\ \A i \in 1..Len(rest) : w[l + i] = rest[i]
  BY <1>0, <1>1, Appended
<1>11. WholeItem(z)
  <2>1. ~(l > Len(w))
    BY <1>10
  <2> QED BY <1>7, <1>8, <1>9, <2>1 DEF WholeItem
<1>12. SubSeq(w, 1, l) = v
  <2>1. PICK nil \in Nat : nil = 0
    OBVIOUS
  <2>2. PICK y : y = SubSeq(w, nil + 1, l)
    OBVIOUS
  <2>3. nil <= l /\ l <= Len(w) /\ l - nil = l /\ nil + 1 = 1
        /\ \A i \in 1..l : nil + i = i
    BY <1>10, <2>1
  <2>4. /\ y \in Bytes /\ Len(y) = l - nil
        /\ \A i \in 1..(l - nil) : y[i] = w[nil + i]
    BY <1>3, <2>2, <2>3, Part
  <2>5. Len(y) = Len(v) /\ \A i \in 1..Len(y) : y[i] = v[i]
    BY <1>0, <1>10, <2>3, <2>4
  <2>6. y = v
    BY <2>4, <2>5, SameBytes
  <2> QED BY <2>2, <2>3, <2>6
<1>13. SubSeq(w, l + 1, Len(w)) = rest
  <2>1. PICK y : y = SubSeq(w, l + 1, Len(w))
    OBVIOUS
  <2>2. l <= Len(w) /\ Len(w) <= Len(w) /\ Len(w) \in Nat
        /\ Len(w) - l = Len(rest)
    BY <1>10
  <2>3. /\ y \in Bytes /\ Len(y) = Len(rest)
        /\ \A i \in 1..Len(rest) : y[i] = w[l + i]
    BY <1>3, <2>1, <2>2, Part
  <2>4. \A i \in 1..Len(y) : y[i] = rest[i]
    BY <1>10, <2>3
  <2> QED BY <2>1, <2>3, <2>4, SameBytes
<1>14. ItemOf(z) = [tag |-> t, value |-> v]
  BY <1>7, <1>8, <1>12, Zenon DEF ItemOf
<1>15. RestOf(z) = rest
  BY <1>7, <1>8, <1>13, Zenon DEF RestOf
<1>16. Items(z) = <<[tag |-> t, value |-> v]>> \o Items(rest)
  BY <1>5, <1>11, <1>14, <1>15, ItemsStep
<1> QED BY <1>0, <1>1, <1>4, <1>16, Zenon

\* The values with a tag, when there is one value more ahead.
LEMMA ValuesAhead ==
  ASSUME NEW t, NEW it \in Item, NEW its \in Seq(Item)
  PROVE  /\ ValuesOf(t, its) \in Seq(Wired)
         /\ ValuesOf(t, <<it>> \o its)
              = (IF it.tag = t THEN <<it.value>> ELSE <<>>) \o ValuesOf(t, its)
<1>1. PICK n, more : n = Len(its) /\ n \in Nat /\ more = <<it>> \o its
  <2>1. Len(its) \in Nat
    OBVIOUS
  <2> QED BY <2>1
<1>2. /\ more \in Seq(Item) /\ Len(more) = n + 1 /\ DOMAIN more = 1..(n + 1)
      /\ more[1] = it /\ \A i \in 1..n : more[i + 1] = its[i]
      /\ DOMAIN its = 1..n /\ \A i \in 1..n : its[i] \in Item
  BY <1>1
<1> DEFINE one(x) == IF x.tag = t THEN <<x.value>> ELSE <<>>
           ss == [i \in 1..n |-> one(its[i])]
           tt == [i \in 1..(n + 1) |-> one(more[i])]
<1>3. \A x \in Item : one(x) \in Seq(Wired)
  BY DEF Item
<1> HIDE DEF one
<1>4. ss \in [1..n -> Seq(Wired)] /\ tt \in [1..(n + 1) -> Seq(Wired)]
  <2>1. \A i \in 1..(n + 1) : more[i] \in Item
    BY <1>2
  <2> QED BY <1>2, <1>3, <2>1
<1>5. tt[1] = one(it) /\ \A i \in 1..n : tt[i + 1] = ss[i]
  BY <1>1, <1>2
<1>6. ValuesOf(t, its) = FlattenSeq(ss)
  BY <1>2, Zenon DEF ValuesOf, one
<1>7. ValuesOf(t, more) = FlattenSeq(tt)
  BY <1>2, Zenon DEF ValuesOf, one
<1> HIDE DEF ss, tt
<1>8. FlattenSeq(ss) \in Seq(Wired) /\ FlattenSeq(tt) = tt[1] \o FlattenSeq(ss)
  BY <1>1, <1>4, <1>5, JoinedAhead
<1> QED BY <1>1, <1>5, <1>6, <1>7, <1>8, Zenon DEF one

LEMMA ValuesNone ==
  ASSUME NEW t
  PROVE  ValuesOf(t, <<>>) = <<>>
<1>1. PICK n, its, ss : n = 0 /\ n \in Nat /\ its = <<>> /\ ss = <<>>
  OBVIOUS
<1>2. ss \in [1..n -> Seq(Wired)] /\ \A i \in 1..n : ss[i] = <<>>
  BY <1>1
<1>3. FlattenSeq(ss) = <<>>
  BY <1>1, <1>2, JoinedNone
<1>4. [i \in DOMAIN its |->
         IF its[i].tag = t THEN <<its[i].value>> ELSE <<>>] = ss
  BY <1>1
<1> QED BY <1>1, <1>3, <1>4, Zenon DEF ValuesOf

\* What bytes say, in front of whatever follows: their values with the tag t
\* are vs, and they have tags in T only.
Found(t, bytes) == ValuesOf(t, Items(bytes))
Tags(bytes)     == {Items(bytes)[i].tag : i \in DOMAIN Items(bytes)}

Says(bytes, t, vs, T) ==
  /\ bytes \in Bytes /\ Over(vs, Wired)
  /\ \A rest \in Bytes : /\ Found(t, bytes \o rest) = vs \o Found(t, rest)
                         /\ Tags(bytes \o rest) \subseteq T \union Tags(rest)

LEMMA FoundOver ==
  ASSUME NEW t, NEW bytes \in Bytes
  PROVE  Over(Found(t, bytes), Wired)
<1>1. Items(bytes) \in Seq(Item)
  BY ItemsStep
<1>2. PICK it : it \in Item
  <2>1. [tag |-> 0, value |-> 0] \in Item
    BY DEF Item, Wired
  <2> QED BY <2>1
<1> QED BY <1>1, <1>2, ValuesAhead DEF Found, Over

LEMMA OverBoth ==
  ASSUME NEW S, NEW s, NEW t, Over(s, S), Over(t, S)
  PROVE  Over(s \o t, S) /\ <<>> \o s = s /\ s \o <<>> = s
BY ConcatProperties, ConcatEmptySeq DEF Over

LEMMA SaysNone ==
  ASSUME NEW t, NEW T
  PROVE  Says(<<>>, t, <<>>, T)
<1>1. PICK nil : nil = <<>> /\ nil \in Bytes /\ Over(nil, Wired)
  <2>1. <<>> \in Seq(Wired)
    OBVIOUS
  <2> QED BY <2>1, BytesEmpty DEF Over
<1>2. ASSUME NEW rest \in Bytes
      PROVE  nil \o rest = rest /\ nil \o Found(t, rest) = Found(t, rest)
  <2>1. nil \o rest = rest
    BY <1>1, BytesEmpty
  <2>2. nil \o Found(t, rest) = Found(t, rest)
    BY <1>1, FoundOver, OverBoth
  <2> QED BY <2>1, <2>2
<1>3. Says(nil, t, nil, T)
  BY <1>1, <1>2, Zenon DEF Says
<1> QED BY <1>1, <1>3

LEMMA SaysBoth ==
  ASSUME NEW a, NEW b, NEW t, NEW us, NEW vs, NEW T,
         Says(a, t, us, T), Says(b, t, vs, T)
  PROVE  Says(a \o b, t, us \o vs, T)
<1>1. /\ a \in Bytes /\ b \in Bytes /\ Over(us, Wired) /\ Over(vs, Wired)
      /\ a \o b \in Bytes
  BY Appended DEF Says
<1>2. Over(us \o vs, Wired)
  BY <1>1, OverBoth
<1>3. ASSUME NEW rest \in Bytes
      PROVE  /\ Found(t, (a \o b) \o rest) = (us \o vs) \o Found(t, rest)
             /\ Tags((a \o b) \o rest) \subseteq T \union Tags(rest)
  <2>1. PICK r, q, p : /\ r = b \o rest /\ q = a \o r
                       /\ p = Found(t, rest)
    OBVIOUS
  <2>2. r \in Bytes
    BY <1>1, <2>1, Appended
  <2>3. (a \o b) \o rest = q
    BY <1>1, <2>1, BytesAssociative
  <2>4. Found(t, q) = us \o Found(t, r) /\ Tags(q) \subseteq T \union Tags(r)
    BY <2>1, <2>2 DEF Says
  <2>5. Found(t, r) = vs \o p /\ Tags(r) \subseteq T \union Tags(rest)
    BY <2>1 DEF Says
  <2>6. Over(p, Wired)
    BY <2>1, FoundOver
  <2>7. (us \o vs) \o p = us \o (vs \o p)
    BY <1>1, <2>6, AheadOfBoth
  <2> QED BY <2>1, <2>3, <2>4, <2>5, <2>7
<1> QED BY <1>1, <1>2, <1>3 DEF Says

LEMMA SaysAll ==
  ASSUME NEW n \in Nat, NEW ss \in [1..n -> Bytes],
         NEW vv \in [1..n -> Seq(Wired)], NEW t, NEW T,
         \A i \in 1..n : Says(ss[i], t, vv[i], T)
  PROVE  Says(FlattenSeq(ss), t, FlattenSeq(vv), T)
<1>1. PICK f : Grows(f, ss, n) /\ FlattenSeq(ss) = f[n]
  BY Joined
<1>2. PICK g : GrowsIn(g, vv, n, Wired) /\ FlattenSeq(vv) = g[n]
  BY JoinedIn
<1>3. /\ f[0] = <<>> /\ \A i \in 1..n : f[i] = f[i - 1] \o ss[i]
      /\ g[0] = <<>> /\ \A i \in 1..n : g[i] = g[i - 1] \o vv[i]
  BY <1>1, <1>2 DEF Grows, GrowsIn
<1> DEFINE D == {i \in Nat : i <= n => Says(f[i], t, g[i], T)}
<1>4. 0 \in D
  BY <1>3, SaysNone
<1>5. ASSUME NEW i \in Nat, i \in D PROVE i + 1 \in D
  <2> SUFFICES ASSUME i + 1 <= n PROVE Says(f[i + 1], t, g[i + 1], T)
    OBVIOUS
  <2>1. i + 1 \in 1..n /\ (i + 1) - 1 = i /\ i <= n
    OBVIOUS
  <2>2. Says(f[i], t, g[i], T) /\ Says(ss[i + 1], t, vv[i + 1], T)
    BY <1>5, <2>1
  <2>3. Says(f[i] \o ss[i + 1], t, g[i] \o vv[i + 1], T)
    BY <2>2, SaysBoth
  <2>4. f[i + 1] = f[i] \o ss[i + 1] /\ g[i + 1] = g[i] \o vv[i + 1]
    BY <1>3, <2>1
  <2> QED BY <2>3, <2>4, Zenon
<1>6. n \in D
  <2> HIDE DEF D
  <2> QED BY <1>4, <1>5, Induct
<1>7. Says(f[n], t, g[n], T)
  BY <1>6
<1> QED BY <1>1, <1>2, <1>7, Zenon

\* Bytes that are read as one value.
IsOne(s, it) ==
  s \in Bytes /\ \A rest \in Bytes : Items(s \o rest) = <<it>> \o Items(rest)

LEMMA SaysOne ==
  ASSUME NEW s, NEW it \in Item, IsOne(s, it), NEW t, NEW T, it.tag \in T
  PROVE  Says(s, t, IF it.tag = t THEN <<it.value>> ELSE <<>>, T)
<1>1. PICK vs : vs = IF it.tag = t THEN <<it.value>> ELSE <<>>
  OBVIOUS
<1>2. Over(vs, Wired)
  BY <1>1 DEF Item, Over
<1>3. ASSUME NEW rest \in Bytes
      PROVE  /\ Found(t, s \o rest) = vs \o Found(t, rest)
             /\ Tags(s \o rest) \subseteq T \union Tags(rest)
  <2>1. PICK its, more : its = Items(rest) /\ more = Items(s \o rest)
    OBVIOUS
  <2>2. its \in Seq(Item) /\ more = <<it>> \o its
    BY <2>1, ItemsStep DEF IsOne
  <2>3. ValuesOf(t, <<it>> \o its) = vs \o ValuesOf(t, its)
    BY <1>1, <2>2, ValuesAhead
  <2>4. \A i \in DOMAIN more : more[i] = it \/ \E j \in DOMAIN its : more[i] = its[j]
    <3>1. SUFFICES ASSUME NEW i \in DOMAIN more, i # 1
                   PROVE  \E j \in DOMAIN its : more[i] = its[j]
      BY <2>2
    <3>2. i - 1 \in DOMAIN its /\ more[i] = its[i - 1]
      BY <2>2, <3>1
    <3> QED BY <3>2
  <2>5. Tags(s \o rest) \subseteq T \union Tags(rest)
    BY <2>1, <2>4 DEF Tags
  <2> QED BY <2>1, <2>2, <2>3, <2>5, Zenon DEF Found
<1> QED BY <1>1, <1>2, <1>3 DEF Says, IsOne

-----------------------------------------------------------------------------
(* Fields.                                                                 *)

\* What the values xs with the tag are written as, one after the other, says
\* just these.
LEMMA SaysField ==
  ASSUME NEW tag \in Nat, NEW n \in Nat, NEW ss \in [1..n -> Bytes],
         NEW xs \in [1..n -> Wired],
         \A j \in 1..n : IsOne(ss[j], [tag |-> tag, value |-> xs[j]]),
         NEW t, NEW T, tag \in T
  PROVE  Says(FlattenSeq(ss), t, IF tag = t THEN xs ELSE <<>>, T)
<1> DEFINE vv == [j \in 1..n |-> IF tag = t THEN <<xs[j]>> ELSE <<>>]
<1>1. vv \in [1..n -> Seq(Wired)]
  OBVIOUS
<1>2. ASSUME NEW j \in 1..n PROVE Says(ss[j], t, vv[j], T)
  <2>1. PICK it : it = [tag |-> tag, value |-> xs[j]]
    OBVIOUS
  <2>2. it \in Item /\ it.tag = tag /\ it.value = xs[j]
    BY <2>1 DEF Item
  <2>3. IsOne(ss[j], it)
    BY <2>1
  <2>4. Says(ss[j], t, IF it.tag = t THEN <<it.value>> ELSE <<>>, T)
    BY <2>2, <2>3, SaysOne
  <2>5. vv[j] = IF it.tag = t THEN <<it.value>> ELSE <<>>
    BY <2>2
  <2> QED BY <2>4, <2>5, Zenon
<1>3. FlattenSeq(vv) = IF tag = t THEN xs ELSE <<>>
  <2>1. CASE tag = t
    <3>1. vv = [j \in 1..n |-> <<xs[j]>>]
      BY <2>1
    <3>2. FlattenSeq([j \in 1..n |-> <<xs[j]>>]) = xs
      BY JoinedSingles
    <3> QED BY <2>1, <3>1, <3>2, Zenon
  <2>2. CASE tag # t
    <3>1. \A j \in 1..n : vv[j] = <<>>
      BY <2>2
    <3> HIDE DEF vv
    <3>2. FlattenSeq(vv) = <<>>
      BY <1>1, <3>1, JoinedNone
    <3> QED BY <2>2, <3>2, Zenon
  <2> QED BY <2>1, <2>2
<1> HIDE DEF vv
<1>4. Says(FlattenSeq(ss), t, FlattenSeq(vv), T)
  BY <1>1, <1>2, SaysAll
<1> QED BY <1>3, <1>4, Zenon

AllWired(ss, n)  == ss \in [1..n -> Seq(Wired)]
OnlyAt(ss, k, n) == \A i \in 1..n : i # k => ss[i] = <<>>

LEMMA JoinedOneWired ==
  ASSUME NEW n \in Nat, NEW k \in 1..n, NEW ss, AllWired(ss, n), OnlyAt(ss, k, n)
  PROVE  FlattenSeq(ss) = ss[k]
BY JoinedOne DEF AllWired, OnlyAt

\* The values xs of the fields with these tags, and the bytes ss of each.
Coded(n, tags, len, ss, xs) ==
  /\ n \in Nat /\ tags \in [1..n -> Nat] /\ len \in [1..n -> Nat]
  /\ \A i, j \in 1..n : tags[i] = tags[j] => i = j
  /\ \A i \in 1..n :
       /\ ss[i] \in [1..len[i] -> Bytes]
       /\ xs[i] \in [1..len[i] -> Wired]
       /\ \A j \in 1..len[i] :
            IsOne(ss[i][j], [tag |-> tags[i], value |-> xs[i][j]])

AllJoined(n, ss) == FlattenSeq([i \in 1..n |-> FlattenSeq(ss[i])])

\* The fields have tags of their own: the values of every one are found, and
\* nothing else.
LEMMA FieldsRead ==
  ASSUME NEW n, NEW tags, NEW len, NEW ss, NEW xs, Coded(n, tags, len, ss, xs),
         NEW bytes, bytes = AllJoined(n, ss)
  PROVE  /\ bytes \in Bytes
         /\ \A i \in 1..n : ValuesOf(tags[i], Items(bytes)) = xs[i]
         /\ Tags(bytes) \subseteq {tags[i] : i \in 1..n}
<1> USE DEF Coded, AllJoined
<1> DEFINE T == {tags[i] : i \in 1..n}
           bb == [i \in 1..n |-> FlattenSeq(ss[i])]
           vv(t) == [i \in 1..n |-> IF tags[i] = t THEN xs[i] ELSE <<>>]
<1>1. \A i \in 1..n : tags[i] \in T
  OBVIOUS
<1> HIDE DEF T
<1>2. ASSUME NEW i \in 1..n, NEW t
      PROVE  Says(FlattenSeq(ss[i]), t, IF tags[i] = t THEN xs[i] ELSE <<>>, T)
  <2>1. PICK tag, k, s, x : tag = tags[i] /\ k = len[i] /\ s = ss[i] /\ x = xs[i]
    OBVIOUS
  <2>2. /\ tag \in Nat /\ k \in Nat /\ s \in [1..k -> Bytes]
        /\ x \in [1..k -> Wired] /\ tag \in T
        /\ \A j \in 1..k : IsOne(s[j], [tag |-> tag, value |-> x[j]])
    BY <1>1, <2>1
  <2>3. Says(FlattenSeq(s), t, IF tag = t THEN x ELSE <<>>, T)
    BY <2>2, SaysField
  <2> QED BY <2>1, <2>3, Zenon
<1>3. bb \in [1..n -> Bytes]
  BY <1>2 DEF Says
<1>4. ASSUME NEW t PROVE Says(bytes, t, FlattenSeq(vv(t)), T)
  <2>1. vv(t) \in [1..n -> Seq(Wired)]
    <3>1. ASSUME NEW i \in 1..n
          PROVE  (IF tags[i] = t THEN xs[i] ELSE <<>>) \in Seq(Wired)
      BY <1>2 DEF Says, Over
    <3> QED BY <3>1
  <2>2. \A i \in 1..n : Says(bb[i], t, vv(t)[i], T)
    BY <1>2
  <2> HIDE DEF vv, bb
  <2>3. Says(FlattenSeq(bb), t, FlattenSeq(vv(t)), T)
    BY <1>3, <2>1, <2>2, SaysAll
  <2> QED BY <2>3, Zenon DEF bb
<1>5. PICK nil : nil = <<>> /\ nil \in Bytes /\ Items(nil) = <<>>
  BY BytesEmpty, ItemsStep
<1>6. bytes \in Bytes /\ bytes \o nil = bytes
  BY <1>4, <1>5, BytesEmpty DEF Says
<1>7. ASSUME NEW i \in 1..n PROVE ValuesOf(tags[i], Items(bytes)) = xs[i]
  <2>1. PICK t, w : t = tags[i] /\ w = vv(t)
    OBVIOUS
  <2>2. w \in [1..n -> Seq(Wired)]
    <3>1. ASSUME NEW j \in 1..n
          PROVE  (IF tags[j] = t THEN xs[j] ELSE <<>>) \in Seq(Wired)
      BY <1>2 DEF Says, Over
    <3> QED BY <2>1, <3>1
  <2>3. w[i] = xs[i] /\ \A j \in 1..n : j # i => w[j] = <<>>
    BY <2>1
  <2>4. FlattenSeq(w) = w[i]
    <3>1. AllWired(w, n) /\ OnlyAt(w, i, n)
      BY <2>2, <2>3 DEF AllWired, OnlyAt
    <3> QED BY <3>1, JoinedOneWired
  <2>5. Says(bytes, t, w[i], T)
    <3> HIDE DEF vv, bb
    <3>1. Says(bytes, t, FlattenSeq(vv(t)), T)
      BY <1>4
    <3> QED BY <2>1, <2>4, <3>1, Zenon
  <2>6. Found(t, bytes \o nil) = w[i] \o Found(t, nil) /\ Over(w[i], Wired)
    BY <1>5, <2>5 DEF Says
  <2>7. Found(t, nil) = <<>>
    BY <1>5, ValuesNone, Zenon DEF Found
  <2>8. w[i] \o <<>> = w[i]
    BY <2>6, OverBoth
  <2> QED BY <1>6, <2>1, <2>3, <2>6, <2>7, <2>8, Zenon DEF Found
<1>8. Tags(bytes) \subseteq T
  <2>1. Tags(bytes \o nil) \subseteq T \union Tags(nil)
    BY <1>4, <1>5 DEF Says
  <2>2. Tags(nil) = {}
    BY <1>5 DEF Tags
  <2> QED BY <1>6, <2>1, <2>2
<1> QED BY <1>6, <1>7, <1>8 DEF T

\* A number of either sign is read back.
LEMMA ZigzagReadsBack ==
  ASSUME NEW v \in Int
  PROVE  zigzag(v) \in Nat /\ unzigzag(zigzag(v)) = v
<1>1. CASE v >= 0
  <2>1. zigzag(v) = 2 * v
    BY <1>1 DEF zigzag
  <2> QED BY <1>1, <2>1 DEF unzigzag
<1>2. CASE v < 0
  <2>1. zigzag(v) = -2 * v - 1
    BY <1>2 DEF zigzag
  <2>2. /\ zigzag(v) \in Nat /\ zigzag(v) % 2 = 1
        /\ (zigzag(v) + 1) \div 2 = -v
    BY <1>2, <2>1
  <2> QED BY <2>2 DEF unzigzag
<1> QED BY <1>1, <1>2

IsField(f) ==
  /\ f.n \in Nat /\ f.kind \in {"uint", "sint", "bytes", "message"}
  /\ f.repeated \in BOOLEAN /\ (f.repeated => ~IsNumber(f))

LEMMA TagIs ==
  ASSUME NEW f, IsField(f)
  PROVE  /\ Tag(f) \in Nat
         /\ IsNumber(f) <=> Tag(f) % 8 = 0
         /\ \A g : IsField(g) /\ Tag(f) = Tag(g) => f.n = g.n
<1>1. f.n \in Nat /\ \A g : IsField(g) => g.n \in Nat
  BY DEF IsField
<1>2. \A g : Tag(g) = 8 * g.n + (IF IsNumber(g) THEN 0 ELSE 2)
  BY DEF Tag
<1>3. \A x \in Nat : /\ (8 * x + 0) % 8 = 0 /\ (8 * x + 2) % 8 = 2
                     /\ 8 * x + 0 \in Nat /\ 8 * x + 2 \in Nat
  OBVIOUS
<1>4. Tag(f) \in Nat /\ (IsNumber(f) <=> Tag(f) % 8 = 0)
  BY <1>1, <1>2, <1>3
<1>5. ASSUME NEW g, IsField(g), Tag(f) = Tag(g) PROVE f.n = g.n
  <2>1. PICK x \in Nat, y \in Nat : x = f.n /\ y = g.n
    BY <1>1, <1>5
  <2>2. Tag(f) \in {8 * x + 0, 8 * x + 2} /\ Tag(g) \in {8 * y + 0, 8 * y + 2}
    BY <1>2, <2>1
  <2>3. x = y
    BY <1>5, <2>2
  <2> QED BY <2>1, <2>3
<1> QED BY <1>4, <1>5

\* The value v of a field, what is written of it after its tag and what is read;
\* b are the bytes of v if it is a message.
Allowed(f, v, b) ==
  /\ f.kind = "uint" => v \in Nat
  /\ f.kind = "sint" => v \in Int
  /\ f.kind = "bytes" => v \in Bytes
  /\ f.kind = "message" => b \in Bytes

BodyOf(f, v, b) ==
  CASE f.kind = "uint"    -> Varint(v)
    [] f.kind = "sint"    -> Varint(zigzag(v))
    [] f.kind = "bytes"   -> Varint(Len(v)) \o v
    [] f.kind = "message" -> Varint(Len(b)) \o b

WireValue(f, v, b) ==
  CASE f.kind = "uint"    -> v
    [] f.kind = "sint"    -> zigzag(v)
    [] f.kind = "bytes"   -> v
    [] f.kind = "message" -> b

OnWire(f, v, b) == Varint(Tag(f)) \o BodyOf(f, v, b)

LEMMA ValueRead ==
  ASSUME NEW f, IsField(f), NEW v, NEW b, Allowed(f, v, b)
  PROVE  /\ OnWire(f, v, b) \in Bytes
         /\ WireValue(f, v, b) \in Wired
         /\ IsOne(OnWire(f, v, b), [tag |-> Tag(f), value |-> WireValue(f, v, b)])
<1>1. PICK t, s, x : t = Tag(f) /\ s = OnWire(f, v, b) /\ x = WireValue(f, v, b)
  OBVIOUS
<1>2. t \in Nat /\ (IsNumber(f) <=> t % 8 = 0)
  BY <1>1, TagIs
<1>3. CASE f.kind = "uint"
  <2>1. v \in Nat /\ t % 8 = 0
    BY <1>2, <1>3 DEF Allowed, IsNumber
  <2>2. s = Varint(t) \o Varint(v) /\ x = v
    BY <1>1, <1>3 DEF OnWire, BodyOf, WireValue
  <2>3. /\ s \in Bytes
        /\ \A rest \in Bytes :
             Items(s \o rest) = <<[tag |-> t, value |-> x]>> \o Items(rest)
    BY <1>2, <2>1, <2>2, NumberRead, BytesEmpty
  <2> QED BY <1>1, <2>1, <2>2, <2>3 DEF IsOne, Wired
<1>4. CASE f.kind = "sint"
  <2>1. zigzag(v) \in Nat /\ t % 8 = 0
    BY <1>2, <1>4, ZigzagReadsBack DEF Allowed, IsNumber
  <2>2. s = Varint(t) \o Varint(zigzag(v)) /\ x = zigzag(v)
    BY <1>1, <1>4 DEF OnWire, BodyOf, WireValue
  <2>3. /\ s \in Bytes
        /\ \A rest \in Bytes :
             Items(s \o rest) = <<[tag |-> t, value |-> x]>> \o Items(rest)
    BY <1>2, <2>1, <2>2, NumberRead, BytesEmpty
  <2> QED BY <1>1, <2>1, <2>2, <2>3 DEF IsOne, Wired
<1>5. CASE f.kind \in {"bytes", "message"}
  <2>1. PICK w : w = IF f.kind = "bytes" THEN v ELSE b
    OBVIOUS
  <2>2. w \in Bytes /\ t % 8 # 0
    BY <1>2, <1>5, <2>1 DEF Allowed, IsNumber
  <2>3. s = Varint(t) \o (Varint(Len(w)) \o w) /\ x = w
    BY <1>1, <1>5, <2>1 DEF OnWire, BodyOf, WireValue
  <2>4. /\ s \in Bytes
        /\ \A rest \in Bytes :
             Items(s \o rest) = <<[tag |-> t, value |-> x]>> \o Items(rest)
    BY <1>2, <2>2, <2>3, BytesRead, BytesEmpty
  <2> QED BY <1>1, <2>2, <2>3, <2>4 DEF IsOne, Wired
<1> QED BY <1>3, <1>4, <1>5 DEF IsField

\* A table of fields, and a message that it fits; b are the bytes of the
\* messages within it.
IsTable(fields, n) ==
  /\ n \in Nat /\ DOMAIN fields = 1..n
  /\ \A i \in 1..n : IsField(fields[i])
  /\ \A i, j \in 1..n : fields[i].n = fields[j].n => i = j

List(w) ==
  /\ Len(w) \in Nat /\ DOMAIN w = 1..Len(w)
  /\ w = [i \in 1..Len(w) |-> w[i]]

FitsTable(fields, m, b) ==
  \A i \in DOMAIN fields :
    /\ List(Written(fields[i], m))
    /\ \A j \in 1..Len(Written(fields[i], m)) :
         Allowed(fields[i], Written(fields[i], m)[j], b[i][j])

Joins(fields, m, b) ==
  FlattenSeq(
    [i \in DOMAIN fields |->
       FlattenSeq([j \in DOMAIN Written(fields[i], m) |->
                     OnWire(fields[i], Written(fields[i], m)[j], b[i][j])])])

\* What a reader takes from the values that it finds, and what it should.
Got(f, all) == IF f.repeated \/ all = <<>> THEN all ELSE <<Last(all)>>

Want(f, m, got) ==
  IF f.repeated THEN Value(f, m)
  ELSE IF got = <<>> /\ Value(f, m) = Default(f) THEN <<>>
  ELSE <<Value(f, m)>>

LEMMA GotWritten ==
  ASSUME NEW f, NEW m, NEW xs, List(xs), List(Written(f, m)),
         Len(xs) = Len(Written(f, m))
  PROVE  Got(f, xs) = xs /\ Want(f, m, xs) = Written(f, m)
<1>1. CASE f.repeated
  BY <1>1 DEF Got, Want, Written
<1>2. CASE ~f.repeated /\ Value(f, m) = Default(f)
  <2>1. Written(f, m) = <<>>
    BY <1>2 DEF Written
  <2>2. xs = <<>>
    BY <2>1 DEF List
  <2> QED BY <1>2, <2>1, <2>2 DEF Got, Want
<1>3. CASE ~f.repeated /\ Value(f, m) # Default(f)
  <2>1. Written(f, m) = <<Value(f, m)>>
    BY <1>3 DEF Written
  <2>2. Len(xs) = 1 /\ DOMAIN xs = 1..1
    BY <2>1 DEF List
  <2>3. xs # <<>> /\ <<Last(xs)>> = xs
    <3>1. xs = [i \in 1..1 |-> xs[i]]
      BY <2>2 DEF List
    <3>2. [i \in 1..1 |-> xs[i]] = <<xs[1]>>
      OBVIOUS
    <3>3. Last(xs) = xs[1]
      BY <2>2 DEF Last
    <3>4. xs = <<Last(xs)>>
      BY <3>1, <3>2, <3>3, Zenon
    <3> QED BY <2>2, <3>4
  <2> QED BY <1>3, <2>1, <2>3 DEF Got, Want
<1> QED BY <1>1, <1>2, <1>3

LEMMA MessageRead ==
  ASSUME NEW fields, NEW n, IsTable(fields, n), NEW m, NEW b, FitsTable(fields, m, b),
         NEW bytes, bytes = Joins(fields, m, b)
  PROVE  /\ bytes \in Bytes
         /\ \A i \in DOMAIN Items(bytes) :
              \E f \in ToSet(fields) : Items(bytes)[i].tag = Tag(f)
         /\ \A i \in 1..n : \A all \in {ValuesOf(Tag(fields[i]), Items(bytes))} :
              /\ Got(fields[i], all) = all
              /\ Want(fields[i], m, all) = Written(fields[i], m)
              /\ List(all) /\ Len(all) = Len(Written(fields[i], m))
              /\ \A j \in 1..Len(all) :
                   all[j] = WireValue(fields[i], Written(fields[i], m)[j], b[i][j])
<1>1. PICK w, len, tags, ss, xs :
        /\ w = [i \in 1..n |-> Written(fields[i], m)]
        /\ len = [i \in 1..n |-> Len(w[i])]
        /\ tags = [i \in 1..n |-> Tag(fields[i])]
        /\ ss = [i \in 1..n |->
                  [j \in 1..len[i] |-> OnWire(fields[i], w[i][j], b[i][j])]]
        /\ xs = [i \in 1..n |->
                  [j \in 1..len[i] |-> WireValue(fields[i], w[i][j], b[i][j])]]
  OBVIOUS
<1>2. /\ n \in Nat /\ DOMAIN fields = 1..n
      /\ \A i \in 1..n : IsField(fields[i])
      /\ \A i, j \in 1..n : fields[i].n = fields[j].n => i = j
  BY DEF IsTable
<1>3. \A i \in 1..n : /\ List(w[i]) /\ DOMAIN w[i] = 1..len[i]
                      /\ \A j \in 1..len[i] : Allowed(fields[i], w[i][j], b[i][j])
  BY <1>1, <1>2 DEF FitsTable, List
<1>4. tags \in [1..n -> Nat] /\ len \in [1..n -> Nat]
  BY <1>1, <1>2, <1>3, TagIs DEF List
<1>5. \A i, j \in 1..n : tags[i] = tags[j] => i = j
  BY <1>1, <1>2, TagIs
<1>6. ASSUME NEW i \in 1..n, NEW j \in 1..len[i]
      PROVE  /\ ss[i][j] \in Bytes /\ xs[i][j] \in Wired
             /\ IsOne(ss[i][j], [tag |-> tags[i], value |-> xs[i][j]])
  <2>1. PICK f, v, c : f = fields[i] /\ v = w[i][j] /\ c = b[i][j]
    OBVIOUS
  <2>2. IsField(f) /\ Allowed(f, v, c)
    BY <1>2, <1>3, <2>1
  <2>3. /\ OnWire(f, v, c) \in Bytes /\ WireValue(f, v, c) \in Wired
        /\ IsOne(OnWire(f, v, c), [tag |-> Tag(f), value |-> WireValue(f, v, c)])
    BY <2>2, ValueRead
  <2>4. /\ ss[i][j] = OnWire(f, v, c) /\ xs[i][j] = WireValue(f, v, c)
        /\ tags[i] = Tag(f)
    BY <1>1, <2>1
  <2> QED BY <2>3, <2>4, Zenon
<1>7. \A i \in 1..n :
        /\ ss[i] \in [1..len[i] -> Bytes]
        /\ xs[i] \in [1..len[i] -> Wired]
        /\ \A j \in 1..len[i] :
             IsOne(ss[i][j], [tag |-> tags[i], value |-> xs[i][j]])
  BY <1>1, <1>6
<1>8. bytes = AllJoined(n, ss)
  <2>1. \A i \in 1..n :
          [j \in DOMAIN Written(fields[i], m) |->
             OnWire(fields[i], Written(fields[i], m)[j], b[i][j])] = ss[i]
    <3> SUFFICES ASSUME NEW i \in 1..n
                 PROVE  [j \in DOMAIN Written(fields[i], m) |->
                           OnWire(fields[i], Written(fields[i], m)[j], b[i][j])]
                          = ss[i]
      OBVIOUS
    <3>1. Written(fields[i], m) = w[i] /\ DOMAIN w[i] = 1..len[i]
      BY <1>1, <1>3
    <3> QED BY <1>1, <3>1
  <2>2. [i \in DOMAIN fields |->
           FlattenSeq([j \in DOMAIN Written(fields[i], m) |->
                         OnWire(fields[i], Written(fields[i], m)[j], b[i][j])])]
          = [i \in 1..n |-> FlattenSeq(ss[i])]
    BY <1>2, <2>1, Zenon
  <2> QED BY <2>2, Zenon DEF Joins, AllJoined
<1>9. /\ bytes \in Bytes
      /\ \A i \in 1..n : ValuesOf(tags[i], Items(bytes)) = xs[i]
      /\ Tags(bytes) \subseteq {tags[i] : i \in 1..n}
  <2>1. Coded(n, tags, len, ss, xs)
    BY <1>2, <1>4, <1>5, <1>7 DEF Coded
  <2> QED BY <1>8, <2>1, FieldsRead
<1>10. ASSUME NEW i \in DOMAIN Items(bytes)
       PROVE  \E f \in ToSet(fields) : Items(bytes)[i].tag = Tag(f)
  <2>1. Items(bytes)[i].tag \in {tags[k] : k \in 1..n}
    BY <1>9 DEF Tags
  <2>2. PICK k \in 1..n : Items(bytes)[i].tag = tags[k]
    BY <2>1
  <2>3. fields[k] \in ToSet(fields)
    BY <1>2, Zenon DEF ToSet
  <2>4. tags[k] = Tag(fields[k])
    BY <1>1
  <2> QED BY <2>2, <2>3, <2>4, Zenon
<1>11. ASSUME NEW i \in 1..n, NEW all,
              all = ValuesOf(Tag(fields[i]), Items(bytes))
       PROVE  /\ Got(fields[i], all) = all
              /\ Want(fields[i], m, all) = Written(fields[i], m)
              /\ List(all) /\ Len(all) = Len(Written(fields[i], m))
              /\ \A j \in 1..Len(all) :
                   all[j] = WireValue(fields[i], Written(fields[i], m)[j], b[i][j])
  <2>1. all = xs[i] /\ w[i] = Written(fields[i], m) /\ List(w[i])
    <3>1. tags[i] = Tag(fields[i]) /\ w[i] = Written(fields[i], m)
      BY <1>1
    <3> QED BY <1>3, <1>9, <1>11, <3>1, Zenon
  <2>2. len[i] \in Nat /\ len[i] = Len(w[i])
    BY <1>1, <1>4
  <2>3. /\ DOMAIN all = 1..len[i] /\ Len(all) = len[i]
        /\ \A j \in 1..len[i] : all[j] = WireValue(fields[i], w[i][j], b[i][j])
    BY <1>1, <2>1, <2>2
  <2>4. List(all) /\ Len(all) = Len(Written(fields[i], m))
    <3>1. all \in [1..len[i] -> Wired]
      BY <1>7, <2>1
    <3>2. all = [j \in 1..len[i] |-> all[j]]
      BY <3>1
    <3>3. List(all)
      BY <2>2, <2>3, <3>2 DEF List
    <3> QED BY <2>1, <2>2, <2>3, <3>3
  <2>5. Got(fields[i], all) = all /\ Want(fields[i], m, all) = Written(fields[i], m)
    BY <2>1, <2>4, GotWritten
  <2> QED BY <2>1, <2>2, <2>3, <2>4, <2>5, Zenon
<1> QED BY <1>9, <1>10, <1>11, Zenon

-----------------------------------------------------------------------------
(* The generated functions, with what they do to a message within another  *)
(* one written out.                                                        *)

ReadsAsFlat(fields, bytes, m) ==
  \A items \in {Items(bytes)} :
    /\ \A i \in DOMAIN items : \E f \in ToSet(fields) : items[i].tag = Tag(f)
    /\ \A f \in ToSet(fields) : \A all \in {ValuesOf(Tag(f), items)} :
       \A got \in {Got(f, all)} : \A want \in {Want(f, m, got)} :
         /\ Len(got) = Len(want)
         /\ \A i \in DOMAIN got :
              CASE f.kind = "sint"    -> unzigzag(got[i]) = want[i]
                [] f.kind = "message" -> FALSE
                [] OTHER              -> got[i] = want[i]

ReadsAs(fields, bytes, m) ==
  \A items \in {Items(bytes)} :
    /\ \A i \in DOMAIN items : \E f \in ToSet(fields) : items[i].tag = Tag(f)
    /\ \A f \in ToSet(fields) : \A all \in {ValuesOf(Tag(f), items)} :
       \A got \in {Got(f, all)} : \A want \in {Want(f, m, got)} :
         /\ Len(got) = Len(want)
         /\ \A i \in DOMAIN got :
              CASE f.kind = "sint"    -> unzigzag(got[i]) = want[i]
                [] f.kind = "message" -> ReadsAsFlat(f.of, got[i], want[i])
                [] OTHER              -> got[i] = want[i]

LEMMA MergeFromIs ==
  ASSUME NEW fields, NEW bytes, NEW m
  PROVE  merge_from(fields, bytes, m) = ReadsAs(fields, bytes, m)
BY Zenon DEF merge_from, IsReadAs, ReadsAs, ReadsAsFlat, Got, Want

FlatBody(f, v) ==
  CASE f.kind = "uint"    -> Varint(v)
    [] f.kind = "sint"    -> Varint(zigzag(v))
    [] f.kind = "bytes"   -> Varint(Len(v)) \o v
    [] f.kind = "message" -> Varint(Len(<<>>)) \o <<>>

FlatBytes(fields, m) ==
  FlattenSeq(
    [i \in DOMAIN fields |->
       FlattenSeq([j \in DOMAIN Written(fields[i], m) |->
                     Varint(Tag(fields[i]))
                       \o FlatBody(fields[i], Written(fields[i], m)[j])])])

FullBody(f, v) ==
  CASE f.kind = "uint"    -> Varint(v)
    [] f.kind = "sint"    -> Varint(zigzag(v))
    [] f.kind = "bytes"   -> Varint(Len(v)) \o v
    [] f.kind = "message" -> Varint(Len(FlatBytes(f.of, v))) \o FlatBytes(f.of, v)

FullBytes(fields, m) ==
  FlattenSeq(
    [i \in DOMAIN fields |->
       FlattenSeq([j \in DOMAIN Written(fields[i], m) |->
                     Varint(Tag(fields[i]))
                       \o FullBody(fields[i], Written(fields[i], m)[j])])])

LEMMA WriteToIs ==
  ASSUME NEW fields, NEW m
  PROVE  write_to(fields, m) = FullBytes(fields, m)
BY Zenon DEF write_to, BytesOf, FullBytes, FullBody, FlatBytes, FlatBody

\* The size of a varint is that of its bytes.
LEMMA VarintSizeIs ==
  \A v \in Nat : VarintSize(v) = Len(Varint(v)) /\ VarintSize(v) \in Nat
<1> DEFINE f == [v \in Nat |-> Len(Varint(v))]
           F(h) == [k \in Nat |-> IF k < 128 THEN 1 ELSE 1 + h[k \div 128]]
           size == CHOOSE h : h = F(h)
<1>1. ASSUME NEW v \in Nat
      PROVE  f[v] \in Nat /\ f[v] = IF v < 128 THEN 1 ELSE 1 + f[v \div 128]
  <2>1. PICK u \in Nat : u = v \div 128
    OBVIOUS
  <2>2. Varint(u) \in Bytes /\ Len(Varint(u)) \in Nat /\ Len(Varint(v)) \in Nat
    BY VarintStep, BytesAreNumbers
  <2>3. CASE v < 128
    <3>1. v \in Byte
      BY <2>3 DEF Byte
    <3>2. PICK p \in Bytes : p = <<v>> /\ Len(p) = 1
      BY <3>1, OneByte
    <3>3. Varint(v) = p
      BY <2>3, <3>2, VarintStep
    <3>4. f[v] = 1
      BY <3>2, <3>3
    <3> QED BY <2>3, <3>4
  <2>4. CASE v >= 128
    <3>1. 128 + (v % 128) \in Byte
      BY DEF Byte
    <3>2. PICK p \in Bytes : p = <<128 + (v % 128)>> /\ Len(p) = 1
      BY <3>1, OneByte
    <3>3. Varint(v) = p \o Varint(u)
      BY <2>1, <2>4, <3>2, VarintStep
    <3>4. Len(p \o Varint(u)) = Len(p) + Len(Varint(u))
      BY <2>2, Appended
    <3> QED BY <2>1, <2>2, <2>4, <3>2, <3>3, <3>4
  <2> QED BY <2>3, <2>4
<1>2. DOMAIN f = Nat /\ \A v \in Nat : f[v] = Len(Varint(v))
  OBVIOUS
<1>3. f = F(f)
  BY <1>1, <1>2
<1> HIDE DEF f
<1>4. size = F(size)
  <2> HIDE DEF F
  <2> QED BY <1>3, Zenon DEF size
<1>5. \A v \in Nat : VarintSize(v) = size[v]
  BY Zenon DEF VarintSize
<1> HIDE DEF size
<1>6. \A v \in Nat : size[v] = IF v < 128 THEN 1 ELSE 1 + size[v \div 128]
  BY <1>4
<1> HIDE DEF F
<1> DEFINE T == {n \in Nat : \A v \in 0..n : size[v] = f[v]}
<1>7. \A v \in Nat : v < 128 \/ size[v \div 128] = f[v \div 128]
                      => size[v] = f[v]
  BY <1>1, <1>6
<1>8. 0 \in T
  BY <1>7
<1>9. ASSUME NEW n \in Nat, n \in T PROVE n + 1 \in T
  <2> SUFFICES ASSUME NEW v \in 0..(n + 1) PROVE size[v] = f[v]
    OBVIOUS
  <2>1. CASE v < 128
    BY <1>7, <2>1
  <2>2. CASE v >= 128
    <3>1. v \div 128 \in 0..n
      BY <2>2
    <3>2. size[v \div 128] = f[v \div 128]
      BY <1>9, <3>1
    <3> QED BY <1>7, <3>2
  <2> QED BY <2>1, <2>2
<1>10. \A v \in Nat : size[v] = f[v]
  <2>1. \A n \in T : size[n] = f[n]
    OBVIOUS
  <2> HIDE DEF T
  <2> QED BY <2>1, <1>8, <1>9, Induct
<1> QED BY <1>1, <1>2, <1>5, <1>10

\* The lengths together are that of the whole.
LEMMA TotalIs ==
  ASSUME NEW n \in Nat, NEW ss \in [1..n -> Bytes],
         NEW sizes \in [1..n -> Nat], \A i \in 1..n : sizes[i] = Len(ss[i])
  PROVE  Total(sizes) = Len(FlattenSeq(ss))
<1>1. PICK f : Grows(f, ss, n) /\ FlattenSeq(ss) = f[n]
  BY Joined
<1>2. PICK g : Counts(g, 1, sizes, n) /\ Number(1, sizes) = g[n]
  <2>1. 1 \in Nat
    OBVIOUS
  <2> QED BY <2>1, Counted
<1> DEFINE T == {i \in Nat : i <= n => f[i] \in Bytes /\ g[i] = Len(f[i])}
<1>3. 0 \in T
  BY <1>1, <1>2, BytesEmpty DEF Grows, Counts
<1>4. ASSUME NEW i \in Nat, i \in T PROVE i + 1 \in T
  <2> SUFFICES ASSUME i + 1 <= n
               PROVE  f[i + 1] \in Bytes /\ g[i + 1] = Len(f[i + 1])
    OBVIOUS
  <2>1. i + 1 \in 1..n /\ (i + 1) - 1 = i /\ i <= n
    OBVIOUS
  <2>2. PICK a, b : a = f[i] /\ b = ss[i + 1]
    OBVIOUS
  <2>3. a \in Bytes /\ b \in Bytes /\ g[i] = Len(a)
    BY <1>4, <2>1, <2>2
  <2>4. f[i + 1] = a \o b
    BY <1>1, <2>1, <2>2 DEF Grows
  <2>5. g[i + 1] = 1 * g[(i + 1) - 1] + sizes[i + 1]
    BY <1>2, <2>1, Zenon DEF Counts
  <2>6. a \o b \in Bytes /\ Len(a \o b) = Len(a) + Len(b)
    BY <2>3, Appended
  <2>7. sizes[i + 1] = Len(b) /\ Len(a) \in Nat /\ Len(b) \in Nat
    BY <2>1, <2>2, <2>3, BytesAreNumbers
  <2>8. g[i + 1] = 1 * Len(a) + Len(b)
    BY <2>1, <2>3, <2>5, <2>7, Zenon
  <2>9. g[i + 1] = Len(a \o b)
    BY <2>6, <2>7, <2>8
  <2> QED BY <2>4, <2>6, <2>9, Zenon
<1>5. n \in T
  <2> HIDE DEF T
  <2> QED BY <1>3, <1>4, Induct
<1> QED BY <1>1, <1>2, <1>5 DEF Total

\* The size of a field's value; `len' is that of a message's bytes.
SizeIn(f, v, len) ==
  CASE f.kind = "uint" -> VarintSize(v)
    [] f.kind = "sint" -> VarintSize(zigzag(v))
    [] OTHER           -> VarintSize(len) + len

FlatLen(f, v) == IF f.kind = "message" THEN 0 ELSE Len(v)

FlatSize(fields, m) ==
  Total([i \in DOMAIN fields |->
           Total([j \in DOMAIN Written(fields[i], m) |->
                    VarintSize(Tag(fields[i]))
                      + SizeIn(fields[i], Written(fields[i], m)[j],
                               FlatLen(fields[i], Written(fields[i], m)[j]))])])

FullLen(f, v) == IF f.kind = "message" THEN FlatSize(f.of, v) ELSE Len(v)

FullSize(fields, m) ==
  Total([i \in DOMAIN fields |->
           Total([j \in DOMAIN Written(fields[i], m) |->
                    VarintSize(Tag(fields[i]))
                      + SizeIn(fields[i], Written(fields[i], m)[j],
                               FullLen(fields[i], Written(fields[i], m)[j]))])])

LEMMA ComputeSizeIs ==
  ASSUME NEW fields, NEW m
  PROVE  compute_size(fields, m) = FullSize(fields, m)
BY Zenon DEF compute_size, SizeOf, FullSize, FullLen, FlatSize, FlatLen, SizeIn

\* The size of a value is that of its bytes.
LEMMA ValueSize ==
  ASSUME NEW f, IsField(f), NEW v, NEW b, Allowed(f, v, b), NEW l,
         f.kind = "bytes" => l = Len(v), f.kind = "message" => l = Len(b)
  PROVE  /\ VarintSize(Tag(f)) + SizeIn(f, v, l) = Len(OnWire(f, v, b))
         /\ VarintSize(Tag(f)) + SizeIn(f, v, l) \in Nat
<1>1. \A x \in Nat : /\ Varint(x) \in Bytes /\ Len(Varint(x)) \in Nat
                     /\ VarintSize(x) = Len(Varint(x))
  BY VarintSizeIs, VarintStep
<1>2. PICK t, s : t = Varint(Tag(f)) /\ s = BodyOf(f, v, b)
  OBVIOUS
<1>3. t \in Bytes /\ Len(t) \in Nat /\ VarintSize(Tag(f)) = Len(t)
  BY <1>1, <1>2, TagIs
<1>4. s \in Bytes /\ Len(s) \in Nat /\ SizeIn(f, v, l) = Len(s)
  <2>1. CASE f.kind = "uint"
    <3>1. v \in Nat /\ s = Varint(v) /\ SizeIn(f, v, l) = VarintSize(v)
      BY <1>2, <2>1 DEF Allowed, BodyOf, SizeIn
    <3> QED BY <1>1, <3>1
  <2>2. CASE f.kind = "sint"
    <3>1. /\ zigzag(v) \in Nat /\ s = Varint(zigzag(v))
          /\ SizeIn(f, v, l) = VarintSize(zigzag(v))
      BY <1>2, <2>2, ZigzagReadsBack DEF Allowed, BodyOf, SizeIn
    <3> QED BY <1>1, <3>1
  <2>3. CASE f.kind \in {"bytes", "message"}
    <3>1. PICK w : w = IF f.kind = "bytes" THEN v ELSE b
      OBVIOUS
    <3>2. w \in Bytes /\ l = Len(w) /\ l \in Nat
      BY <2>3, <3>1, BytesAreNumbers DEF Allowed
    <3>3. s = Varint(l) \o w /\ SizeIn(f, v, l) = VarintSize(l) + l
      BY <1>2, <2>3, <3>1, <3>2 DEF BodyOf, SizeIn
    <3>4. s \in Bytes /\ Len(s) = Len(Varint(l)) + Len(w)
      BY <1>1, <3>2, <3>3, Appended
    <3>5. SizeIn(f, v, l) = Len(s)
      BY <1>1, <3>2, <3>3, <3>4
    <3> QED BY <3>4, <3>5, BytesAreNumbers
  <2> QED BY <2>1, <2>2, <2>3 DEF IsField
<1>5. Len(t \o s) = Len(t) + Len(s)
  BY <1>3, <1>4, Appended
<1>6. OnWire(f, v, b) = t \o s
  BY <1>2 DEF OnWire
<1> QED BY <1>3, <1>4, <1>5, <1>6

\* l are the lengths of what has one in front.
Lengths(fields, m, b, l) ==
  \A i \in DOMAIN fields : \A j \in 1..Len(Written(fields[i], m)) :
    /\ fields[i].kind = "bytes" => l[i][j] = Len(Written(fields[i], m)[j])
    /\ fields[i].kind = "message" => l[i][j] = Len(b[i][j])

SizeWith(fields, m, l) ==
  Total([i \in DOMAIN fields |->
           Total([j \in DOMAIN Written(fields[i], m) |->
                    VarintSize(Tag(fields[i]))
                      + SizeIn(fields[i], Written(fields[i], m)[j], l[i][j])])])

LEMMA MessageSize ==
  ASSUME NEW fields, NEW n, IsTable(fields, n), NEW m, NEW b, FitsTable(fields, m, b),
         NEW l, Lengths(fields, m, b, l)
  PROVE  SizeWith(fields, m, l) = Len(Joins(fields, m, b))
<1>1. PICK w, len, ss, zs :
        /\ w = [i \in 1..n |-> Written(fields[i], m)]
        /\ len = [i \in 1..n |-> Len(w[i])]
        /\ ss = [i \in 1..n |->
                  [j \in 1..len[i] |-> OnWire(fields[i], w[i][j], b[i][j])]]
        /\ zs = [i \in 1..n |->
                  [j \in 1..len[i] |-> VarintSize(Tag(fields[i]))
                                         + SizeIn(fields[i], w[i][j], l[i][j])]]
  OBVIOUS
<1>2. /\ n \in Nat /\ DOMAIN fields = 1..n
      /\ \A i \in 1..n : IsField(fields[i])
  BY DEF IsTable
<1>3. \A i \in 1..n : /\ DOMAIN w[i] = 1..len[i] /\ len[i] \in Nat
                      /\ w[i] = Written(fields[i], m)
                      /\ \A j \in 1..len[i] :
                           /\ Allowed(fields[i], w[i][j], b[i][j])
                           /\ fields[i].kind = "bytes" => l[i][j] = Len(w[i][j])
                           /\ fields[i].kind = "message" => l[i][j] = Len(b[i][j])
  BY <1>1, <1>2 DEF FitsTable, List, Lengths
<1>4. ASSUME NEW i \in 1..n, NEW j \in 1..len[i]
      PROVE  /\ ss[i][j] \in Bytes /\ zs[i][j] \in Nat
             /\ zs[i][j] = Len(ss[i][j])
  <2>1. PICK f, v, c, k : f = fields[i] /\ v = w[i][j] /\ c = b[i][j] /\ k = l[i][j]
    OBVIOUS
  <2>2. /\ IsField(f) /\ Allowed(f, v, c)
        /\ f.kind = "bytes" => k = Len(v)
        /\ f.kind = "message" => k = Len(c)
    BY <1>2, <1>3, <2>1
  <2>3. /\ OnWire(f, v, c) \in Bytes
        /\ VarintSize(Tag(f)) + SizeIn(f, v, k) = Len(OnWire(f, v, c))
        /\ VarintSize(Tag(f)) + SizeIn(f, v, k) \in Nat
    BY <2>2, ValueRead, ValueSize
  <2>4. /\ ss[i][j] = OnWire(f, v, c)
        /\ zs[i][j] = VarintSize(Tag(f)) + SizeIn(f, v, k)
    BY <1>1, <2>1
  <2> QED BY <2>3, <2>4, Zenon
<1>5. ASSUME NEW i \in 1..n
      PROVE  /\ FlattenSeq(ss[i]) \in Bytes
             /\ Total(zs[i]) = Len(FlattenSeq(ss[i]))
  <2>1. PICK k, s, z : k = len[i] /\ s = ss[i] /\ z = zs[i]
    OBVIOUS
  <2>2. /\ k \in Nat /\ s \in [1..k -> Bytes] /\ z \in [1..k -> Nat]
        /\ \A j \in 1..k : z[j] = Len(s[j])
    BY <1>1, <1>3, <1>4, <2>1
  <2>3. Total(z) = Len(FlattenSeq(s))
    BY <2>2, TotalIs
  <2>4. FlattenSeq(s) \in Bytes
    <3>1. PICK g : Grows(g, s, k) /\ FlattenSeq(s) = g[k]
      BY <2>2, Joined
    <3>2. k \in 0..k
      BY <2>2
    <3> QED BY <3>1, <3>2 DEF Grows
  <2> QED BY <2>1, <2>3, <2>4
<1>6. PICK tt, yy : /\ tt = [i \in 1..n |-> FlattenSeq(ss[i])]
                    /\ yy = [i \in 1..n |-> Total(zs[i])]
  OBVIOUS
<1>7. /\ tt \in [1..n -> Bytes] /\ yy \in [1..n -> Nat]
      /\ \A i \in 1..n : yy[i] = Len(tt[i])
  BY <1>5, <1>6, BytesAreNumbers
<1>8. Total(yy) = Len(FlattenSeq(tt))
  BY <1>2, <1>7, TotalIs
<1>9. Joins(fields, m, b) = FlattenSeq(tt)
  <2>1. \A i \in 1..n :
          [j \in DOMAIN Written(fields[i], m) |->
             OnWire(fields[i], Written(fields[i], m)[j], b[i][j])] = ss[i]
    <3> SUFFICES ASSUME NEW i \in 1..n
                 PROVE  [j \in DOMAIN Written(fields[i], m) |->
                           OnWire(fields[i], Written(fields[i], m)[j], b[i][j])]
                          = ss[i]
      OBVIOUS
    <3>1. Written(fields[i], m) = w[i] /\ DOMAIN w[i] = 1..len[i]
      BY <1>3
    <3> QED BY <1>1, <3>1
  <2> QED BY <1>2, <1>6, <2>1, Zenon DEF Joins
<1>10. SizeWith(fields, m, l) = Total(yy)
  <2>1. \A i \in 1..n :
          [j \in DOMAIN Written(fields[i], m) |->
             VarintSize(Tag(fields[i]))
               + SizeIn(fields[i], Written(fields[i], m)[j], l[i][j])] = zs[i]
    <3> SUFFICES ASSUME NEW i \in 1..n
                 PROVE  [j \in DOMAIN Written(fields[i], m) |->
                           VarintSize(Tag(fields[i]))
                             + SizeIn(fields[i], Written(fields[i], m)[j], l[i][j])]
                          = zs[i]
      OBVIOUS
    <3>1. Written(fields[i], m) = w[i] /\ DOMAIN w[i] = 1..len[i]
      BY <1>3
    <3> QED BY <1>1, <3>1
  <2> QED BY <1>2, <1>6, <2>1, Zenon DEF SizeWith
<1> QED BY <1>8, <1>9, <1>10

-----------------------------------------------------------------------------
(* Messages, without others in them and with them.                         *)

IsFlat(fields, n) ==
  IsTable(fields, n) /\ \A i \in 1..n : fields[i].kind # "message"

NoParts(fields, m) ==
  [i \in DOMAIN fields |-> [j \in DOMAIN Written(fields[i], m) |-> <<>>]]

FlatFits(fields, m) == FitsTable(fields, m, NoParts(fields, m))

LEMMA FlatJoins ==
  ASSUME NEW fields, NEW n, IsFlat(fields, n), NEW m, FlatFits(fields, m)
  PROVE  /\ FlatBytes(fields, m) = Joins(fields, m, NoParts(fields, m))
         /\ FlatSize(fields, m) = Len(FlatBytes(fields, m))
<1>1. PICK b : b = NoParts(fields, m)
  OBVIOUS
<1>2. /\ n \in Nat /\ DOMAIN fields = 1..n
      /\ \A i \in 1..n : IsField(fields[i]) /\ fields[i].kind # "message"
  BY DEF IsFlat, IsTable
<1>3. ASSUME NEW i \in 1..n, NEW j \in DOMAIN Written(fields[i], m)
      PROVE  Varint(Tag(fields[i])) \o FlatBody(fields[i], Written(fields[i], m)[j])
               = OnWire(fields[i], Written(fields[i], m)[j], b[i][j])
  <2>1. PICK f, v : f = fields[i] /\ v = Written(fields[i], m)[j]
    OBVIOUS
  <2>2. f.kind \in {"uint", "sint", "bytes"}
    BY <1>2, <2>1 DEF IsField
  <2>3. FlatBody(f, v) = BodyOf(f, v, b[i][j])
    BY <2>2 DEF FlatBody, BodyOf
  <2> QED BY <2>1, <2>3, Zenon DEF OnWire
<1>4. ASSUME NEW i \in 1..n
      PROVE  [j \in DOMAIN Written(fields[i], m) |->
                Varint(Tag(fields[i]))
                  \o FlatBody(fields[i], Written(fields[i], m)[j])]
               = [j \in DOMAIN Written(fields[i], m) |->
                    OnWire(fields[i], Written(fields[i], m)[j], b[i][j])]
  BY <1>3, Zenon
<1>5. FlatBytes(fields, m) = Joins(fields, m, b)
  BY <1>2, <1>4, Zenon DEF FlatBytes, Joins
<1>6. PICK l : l = [i \in 1..n |-> [j \in DOMAIN Written(fields[i], m) |->
                                      FlatLen(fields[i], Written(fields[i], m)[j])]]
  OBVIOUS
<1>7. \A i \in 1..n : \A j \in DOMAIN Written(fields[i], m) :
        l[i][j] = FlatLen(fields[i], Written(fields[i], m)[j])
  BY <1>6
<1>8. \A i \in 1..n : /\ List(Written(fields[i], m))
                      /\ DOMAIN Written(fields[i], m) = 1..Len(Written(fields[i], m))
  BY <1>2 DEF FlatFits, FitsTable, List
<1>9. Lengths(fields, m, b, l)
  BY <1>2, <1>7, <1>8 DEF Lengths, FlatLen
<1>10. FlatSize(fields, m) = SizeWith(fields, m, l)
  <2>1. ASSUME NEW i \in 1..n
        PROVE  [j \in DOMAIN Written(fields[i], m) |->
                  VarintSize(Tag(fields[i]))
                    + SizeIn(fields[i], Written(fields[i], m)[j],
                             FlatLen(fields[i], Written(fields[i], m)[j]))]
                 = [j \in DOMAIN Written(fields[i], m) |->
                      VarintSize(Tag(fields[i]))
                        + SizeIn(fields[i], Written(fields[i], m)[j], l[i][j])]
    BY <1>7, Zenon
  <2> QED BY <1>2, <2>1, Zenon DEF FlatSize, SizeWith
<1>11. IsTable(fields, n) /\ FitsTable(fields, m, b)
  BY <1>1 DEF IsFlat, FlatFits
<1>12. SizeWith(fields, m, l) = Len(Joins(fields, m, b))
  BY <1>9, <1>11, MessageSize
<1> QED BY <1>1, <1>5, <1>10, <1>12, Zenon

LEMMA FlatReadBack ==
  ASSUME NEW fields, NEW n, IsFlat(fields, n), NEW m, FlatFits(fields, m)
  PROVE  /\ FlatBytes(fields, m) \in Bytes
         /\ ReadsAsFlat(fields, FlatBytes(fields, m), m)
<1>1. PICK b, bytes, items :
        /\ b = NoParts(fields, m) /\ bytes = FlatBytes(fields, m)
        /\ items = Items(bytes)
  OBVIOUS
<1>2. /\ IsTable(fields, n) /\ FitsTable(fields, m, b)
      /\ bytes = Joins(fields, m, b)
  BY <1>1, FlatJoins DEF IsFlat, FlatFits
<1>3. /\ n \in Nat /\ DOMAIN fields = 1..n
      /\ \A i \in 1..n : IsField(fields[i]) /\ fields[i].kind # "message"
  BY DEF IsFlat, IsTable
<1>4. /\ bytes \in Bytes
      /\ \A i \in DOMAIN items : \E f \in ToSet(fields) : items[i].tag = Tag(f)
      /\ \A i \in 1..n : \A all \in {ValuesOf(Tag(fields[i]), items)} :
           /\ Got(fields[i], all) = all
           /\ Want(fields[i], m, all) = Written(fields[i], m)
           /\ List(all) /\ Len(all) = Len(Written(fields[i], m))
           /\ \A j \in 1..Len(all) :
                all[j] = WireValue(fields[i], Written(fields[i], m)[j], b[i][j])
  BY <1>1, <1>2, MessageRead
<1>5. ASSUME NEW f \in ToSet(fields), NEW all, all = ValuesOf(Tag(f), items),
             NEW got, got = Got(f, all), NEW want, want = Want(f, m, got)
      PROVE  /\ Len(got) = Len(want)
             /\ \A k \in DOMAIN got :
                  CASE f.kind = "sint"    -> unzigzag(got[k]) = want[k]
                    [] f.kind = "message" -> FALSE
                    [] OTHER              -> got[k] = want[k]
  <2>1. PICK i \in 1..n : f = fields[i]
    BY <1>3 DEF ToSet
  <2>2. /\ got = all /\ want = Written(f, m) /\ List(got)
        /\ Len(got) = Len(want)
        /\ \A j \in 1..Len(got) : got[j] = WireValue(f, want[j], b[i][j])
    BY <1>4, <1>5, <2>1
  <2>3. ASSUME NEW k \in DOMAIN got
        PROVE  CASE f.kind = "sint"    -> unzigzag(got[k]) = want[k]
                 [] f.kind = "message" -> FALSE
                 [] OTHER              -> got[k] = want[k]
    <3>1. k \in 1..Len(got) /\ k \in 1..Len(want)
      BY <2>2 DEF List
    <3>2. PICK x, v, c : x = got[k] /\ v = want[k] /\ c = b[i][k]
      OBVIOUS
    <3>3. x = WireValue(f, v, c) /\ Allowed(f, v, c)
      BY <1>2, <1>3, <2>1, <2>2, <3>1, <3>2 DEF FitsTable
    <3>4. f.kind \in {"uint", "sint", "bytes"}
      BY <1>3, <2>1 DEF IsField
    <3>5. f.kind = "sint" => unzigzag(x) = v
      BY <3>3, ZigzagReadsBack DEF WireValue, Allowed
    <3>6. f.kind \in {"uint", "bytes"} => x = v
      BY <3>3 DEF WireValue
    <3> QED BY <3>2, <3>4, <3>5, <3>6
  <2> QED BY <2>2, <2>3
<1>6. ReadsAsFlat(fields, bytes, m)
  BY <1>1, <1>4, <1>5 DEF ReadsAsFlat
<1> QED BY <1>1, <1>4, <1>6

\* With messages in it, the fields of which have no more in them.
Parts(fields, m) ==
  [i \in DOMAIN fields |->
     [j \in DOMAIN Written(fields[i], m) |->
        FlatBytes(fields[i].of, Written(fields[i], m)[j])]]

Nests(fields, m) ==
  \A i \in DOMAIN fields : \A j \in 1..Len(Written(fields[i], m)) :
    fields[i].kind = "message" =>
      /\ \E k : IsFlat(fields[i].of, k)
      /\ FlatFits(fields[i].of, Written(fields[i], m)[j])

FullFits(fields, m) == FitsTable(fields, m, Parts(fields, m)) /\ Nests(fields, m)

LEMMA FullJoins ==
  ASSUME NEW fields, NEW n, IsTable(fields, n), NEW m, FullFits(fields, m)
  PROVE  /\ FullBytes(fields, m) = Joins(fields, m, Parts(fields, m))
         /\ FullSize(fields, m) = Len(FullBytes(fields, m))
<1>1. PICK b : b = Parts(fields, m)
  OBVIOUS
<1>2. /\ n \in Nat /\ DOMAIN fields = 1..n
      /\ \A i \in 1..n : IsField(fields[i])
      /\ \A i \in 1..n : \A j \in DOMAIN Written(fields[i], m) :
           b[i][j] = FlatBytes(fields[i].of, Written(fields[i], m)[j])
  BY <1>1 DEF IsTable, Parts
<1>3. ASSUME NEW i \in 1..n, NEW j \in DOMAIN Written(fields[i], m)
      PROVE  Varint(Tag(fields[i])) \o FullBody(fields[i], Written(fields[i], m)[j])
               = OnWire(fields[i], Written(fields[i], m)[j], b[i][j])
  <2>1. PICK f, v : f = fields[i] /\ v = Written(fields[i], m)[j]
    OBVIOUS
  <2>2. b[i][j] = FlatBytes(f.of, v)
    BY <1>2, <2>1
  <2>3. FullBody(f, v) = BodyOf(f, v, FlatBytes(f.of, v))
    BY Zenon DEF FullBody, BodyOf
  <2> QED BY <2>1, <2>2, <2>3, Zenon DEF OnWire
<1>4. ASSUME NEW i \in 1..n
      PROVE  [j \in DOMAIN Written(fields[i], m) |->
                Varint(Tag(fields[i]))
                  \o FullBody(fields[i], Written(fields[i], m)[j])]
               = [j \in DOMAIN Written(fields[i], m) |->
                    OnWire(fields[i], Written(fields[i], m)[j], b[i][j])]
  BY <1>3, Zenon
<1>5. FullBytes(fields, m) = Joins(fields, m, b)
  BY <1>2, <1>4, Zenon DEF FullBytes, Joins
<1>6. PICK l : l = [i \in 1..n |-> [j \in DOMAIN Written(fields[i], m) |->
                                      FullLen(fields[i], Written(fields[i], m)[j])]]
  OBVIOUS
<1>7. \A i \in 1..n : \A j \in DOMAIN Written(fields[i], m) :
        l[i][j] = FullLen(fields[i], Written(fields[i], m)[j])
  BY <1>6
<1>8. \A i \in 1..n : DOMAIN Written(fields[i], m) = 1..Len(Written(fields[i], m))
  BY <1>2 DEF FullFits, FitsTable, List
<1>9. Lengths(fields, m, b, l)
  <2>1. ASSUME NEW i \in 1..n, NEW j \in 1..Len(Written(fields[i], m))
        PROVE  /\ fields[i].kind = "bytes" => l[i][j] = Len(Written(fields[i], m)[j])
               /\ fields[i].kind = "message" => l[i][j] = Len(b[i][j])
    <3>1. PICK f, v : f = fields[i] /\ v = Written(fields[i], m)[j]
      OBVIOUS
    <3>2. j \in DOMAIN Written(fields[i], m)
      BY <1>8
    <3>3. l[i][j] = FullLen(f, v) /\ b[i][j] = FlatBytes(f.of, v)
      BY <1>2, <1>7, <3>1, <3>2
    <3>4. f.kind = "bytes" => FullLen(f, v) = Len(v)
      BY DEF FullLen
    <3>5. ASSUME f.kind = "message" PROVE FullLen(f, v) = Len(FlatBytes(f.of, v))
      <4>1. PICK k : IsFlat(f.of, k)
        BY <1>2, <3>1, <3>5 DEF FullFits, Nests
      <4>2. FlatFits(f.of, v)
        BY <1>2, <3>1, <3>5 DEF FullFits, Nests
      <4>3. FlatSize(f.of, v) = Len(FlatBytes(f.of, v))
        BY <4>1, <4>2, FlatJoins
      <4> QED BY <3>5, <4>3 DEF FullLen
    <3> QED BY <3>1, <3>3, <3>4, <3>5, Zenon
  <2> QED BY <1>2, <2>1, Zenon DEF Lengths
<1>10. FullSize(fields, m) = SizeWith(fields, m, l)
  <2>1. ASSUME NEW i \in 1..n
        PROVE  [j \in DOMAIN Written(fields[i], m) |->
                  VarintSize(Tag(fields[i]))
                    + SizeIn(fields[i], Written(fields[i], m)[j],
                             FullLen(fields[i], Written(fields[i], m)[j]))]
                 = [j \in DOMAIN Written(fields[i], m) |->
                      VarintSize(Tag(fields[i]))
                        + SizeIn(fields[i], Written(fields[i], m)[j], l[i][j])]
    BY <1>7, Zenon
  <2> QED BY <1>2, <2>1, Zenon DEF FullSize, SizeWith
<1>11. FitsTable(fields, m, b)
  BY <1>1 DEF FullFits
<1>12. SizeWith(fields, m, l) = Len(Joins(fields, m, b))
  BY <1>9, <1>11, MessageSize
<1> QED BY <1>1, <1>5, <1>10, <1>12, Zenon

LEMMA FullReadBack ==
  ASSUME NEW fields, NEW n, IsTable(fields, n), NEW m, FullFits(fields, m)
  PROVE  /\ FullBytes(fields, m) \in Bytes
         /\ ReadsAs(fields, FullBytes(fields, m), m)
<1>1. PICK b, bytes, items :
        /\ b = Parts(fields, m) /\ bytes = FullBytes(fields, m)
        /\ items = Items(bytes)
  OBVIOUS
<1>2. FitsTable(fields, m, b) /\ bytes = Joins(fields, m, b)
  BY <1>1, FullJoins DEF FullFits
<1>3. /\ n \in Nat /\ DOMAIN fields = 1..n
      /\ \A i \in 1..n : IsField(fields[i])
      /\ \A i \in 1..n : \A j \in DOMAIN Written(fields[i], m) :
           b[i][j] = FlatBytes(fields[i].of, Written(fields[i], m)[j])
  BY <1>1 DEF IsTable, Parts
<1>4. /\ bytes \in Bytes
      /\ \A i \in DOMAIN items : \E f \in ToSet(fields) : items[i].tag = Tag(f)
      /\ \A i \in 1..n : \A all \in {ValuesOf(Tag(fields[i]), items)} :
           /\ Got(fields[i], all) = all
           /\ Want(fields[i], m, all) = Written(fields[i], m)
           /\ List(all) /\ Len(all) = Len(Written(fields[i], m))
           /\ \A j \in 1..Len(all) :
                all[j] = WireValue(fields[i], Written(fields[i], m)[j], b[i][j])
  BY <1>1, <1>2, MessageRead
<1>5. ASSUME NEW f \in ToSet(fields), NEW all, all = ValuesOf(Tag(f), items),
             NEW got, got = Got(f, all), NEW want, want = Want(f, m, got)
      PROVE  /\ Len(got) = Len(want)
             /\ \A k \in DOMAIN got :
                  CASE f.kind = "sint"    -> unzigzag(got[k]) = want[k]
                    [] f.kind = "message" -> ReadsAsFlat(f.of, got[k], want[k])
                    [] OTHER              -> got[k] = want[k]
  <2>1. PICK i \in 1..n : f = fields[i]
    BY <1>3 DEF ToSet
  <2>2. /\ got = all /\ want = Written(f, m) /\ List(got) /\ List(want)
        /\ Len(got) = Len(want)
        /\ \A j \in 1..Len(got) : got[j] = WireValue(f, want[j], b[i][j])
    BY <1>2, <1>3, <1>4, <1>5, <2>1 DEF FitsTable
  <2>3. ASSUME NEW k \in DOMAIN got
        PROVE  CASE f.kind = "sint"    -> unzigzag(got[k]) = want[k]
                 [] f.kind = "message" -> ReadsAsFlat(f.of, got[k], want[k])
                 [] OTHER              -> got[k] = want[k]
    <3>1. k \in 1..Len(got) /\ k \in 1..Len(want) /\ k \in DOMAIN want
      BY <2>2 DEF List
    <3>2. PICK x, v, c : x = got[k] /\ v = want[k] /\ c = b[i][k]
      OBVIOUS
    <3>3. x = WireValue(f, v, c) /\ Allowed(f, v, c)
      BY <1>2, <1>3, <2>1, <2>2, <3>1, <3>2 DEF FitsTable
    <3>4. f.kind \in {"uint", "sint", "bytes", "message"}
      BY <1>3, <2>1 DEF IsField
    <3>5. f.kind = "sint" => unzigzag(x) = v
      BY <3>3, ZigzagReadsBack DEF WireValue, Allowed
    <3>6. f.kind \in {"uint", "bytes"} => x = v
      BY <3>3 DEF WireValue
    <3>7. ASSUME f.kind = "message" PROVE ReadsAsFlat(f.of, x, v)
      <4>1. x = FlatBytes(f.of, v)
        BY <1>3, <2>1, <2>2, <3>1, <3>2, <3>3, <3>7 DEF WireValue
      <4>2. (\E h : IsFlat(f.of, h)) /\ FlatFits(f.of, v)
        BY <1>3, <2>1, <2>2, <3>1, <3>2, <3>7 DEF FullFits, Nests
      <4>3. PICK h : IsFlat(f.of, h)
        BY <4>2
      <4> QED BY <4>1, <4>2, <4>3, FlatReadBack
    <3> QED BY <3>2, <3>4, <3>5, <3>6, <3>7
  <2> QED BY <2>2, <2>3
<1>6. ReadsAs(fields, bytes, m)
  BY <1>1, <1>4, <1>5 DEF ReadsAs
<1> QED BY <1>1, <1>4, <1>6

\* The frame of any message that fits its table is read back.
LEMMA FrameReadsBack ==
  ASSUME NEW type \in Nat, NEW fields, NEW n, IsTable(fields, n),
         NEW m, FullFits(fields, m)
  PROVE  ReadsBack(type, fields, m)
<1>1. PICK bytes, size, frame, t, p :
        /\ bytes = write_to(fields, m) /\ size = compute_size(fields, m)
        /\ t = Varint(type) /\ frame = encode_response(type, fields, m)
        /\ p = Varint(size)
  OBVIOUS
<1>2. /\ bytes \in Bytes /\ size = Len(bytes) /\ size \in Nat
      /\ merge_from(fields, bytes, m)
  <2>1. FullBytes(fields, m) \in Bytes /\ ReadsAs(fields, FullBytes(fields, m), m)
    BY FullReadBack
  <2>2. FullSize(fields, m) = Len(FullBytes(fields, m))
    BY FullJoins
  <2>3. bytes = FullBytes(fields, m) /\ size = FullSize(fields, m)
    BY <1>1, WriteToIs, ComputeSizeIs
  <2>4. merge_from(fields, bytes, m)
    BY <2>1, <2>3, MergeFromIs
  <2> QED BY <2>1, <2>2, <2>3, <2>4, BytesAreNumbers
<1>3. t \in Bytes /\ p \in Bytes
  BY <1>1, <1>2, VarintRead
<1>4. PICK r, q, z : r = t \o bytes /\ q = p \o r /\ z = <<0>>
  OBVIOUS
<1>5. r \in Bytes /\ q \in Bytes /\ z \in Bytes
  <2>1. 0 \in Byte
    BY DEF Byte
  <2> QED BY <1>2, <1>3, <1>4, <2>1, Appended, OneByte
<1>6. frame = z \o q
  <2>1. frame = ((z \o p) \o t) \o bytes
    BY <1>1, <1>4, Zenon DEF encode_response
  <2>2. z \o p \in Bytes
    BY <1>3, <1>5, Appended
  <2>3. ((z \o p) \o t) \o bytes = (z \o p) \o r
    BY <1>2, <1>3, <1>4, <2>2, BytesAssociative
  <2>4. (z \o p) \o r = z \o q
    BY <1>3, <1>4, <1>5, BytesAssociative
  <2> QED BY <2>1, <2>3, <2>4
<1>7. Tail(frame) = q
  <2>1. Len(z) = 1
    BY <1>4
  <2>2. /\ frame \in Bytes /\ Len(frame) = 1 + Len(q) /\ Len(q) \in Nat
        /\ \A i \in 1..Len(q) : frame[1 + i] = q[i]
    <3>1. /\ z \o q \in Bytes /\ Len(z \o q) = Len(z) + Len(q)
          /\ \A i \in 1..Len(q) : (z \o q)[Len(z) + i] = q[i]
      BY <1>5, Appended
    <3> QED BY <1>5, <1>6, <2>1, <3>1, BytesAreNumbers
  <2>3. frame \in Seq(Byte) /\ q \in Seq(Byte) /\ frame # <<>>
    BY <1>5, <2>2 DEF Bytes
  <2>4. /\ Tail(frame) \in Seq(Byte) /\ Len(Tail(frame)) = Len(q)
        /\ \A i \in 1..Len(q) : Tail(frame)[i] = q[i]
    BY <2>2, <2>3
  <2>5. Tail(frame) \in Bytes
    BY <2>4 DEF Bytes
  <2> QED BY <1>5, <2>4, <2>5, SameBytes
<1>8. ReadVarint(q).value = size /\ ReadVarint(q).rest = r
  BY <1>1, <1>2, <1>4, <1>5, VarintRead
<1>9. ReadVarint(r).value = type /\ ReadVarint(r).rest = bytes
  BY <1>1, <1>2, <1>4, VarintRead
<1> QED BY <1>1, <1>2, <1>7, <1>8, <1>9, Zenon DEF ReadsBack

-----------------------------------------------------------------------------
(* The tables, and what fits them.                                         *)

\* A value that a field may have, and a message that has none but such.
Sane(f, v) ==
  /\ f.kind = "uint" => v \in Nat
  /\ f.kind = "sint" => v \in Int
  /\ f.kind = "bytes" => v \in Bytes
  /\ f.kind = "message" => (\E k : IsFlat(f.of, k)) /\ FlatFits(f.of, v)

Fine(f, m) ==
  f.name \in DOMAIN m =>
    IF f.repeated
    THEN /\ List(m[f.name])
         /\ \A j \in 1..Len(m[f.name]) : Sane(f, m[f.name][j])
    ELSE Sane(f, m[f.name])

LEMMA ShortLists ==
  /\ List(<<>>) /\ Len(<<>>) = 0
  /\ \A v : List(<<v>>) /\ Len(<<v>>) = 1 /\ <<v>>[1] = v
<1>1. /\ <<>> = [i \in 1..0 |-> <<>>[i]]
      /\ \A v : <<v>> = [i \in 1..1 |-> <<v>>[i]]
  OBVIOUS
<1> QED BY <1>1 DEF List

LEMMA WrittenFine ==
  ASSUME NEW f, IsField(f), NEW m, Fine(f, m)
  PROVE  /\ List(Written(f, m))
         /\ \A j \in 1..Len(Written(f, m)) : Sane(f, Written(f, m)[j])
<1>1. CASE f.name \notin DOMAIN m
  <2>1. Value(f, m) = Default(f) /\ (f.repeated => Default(f) = <<>>)
    BY <1>1 DEF Value, Default, IsField
  <2>2. Written(f, m) = <<>>
    BY <2>1 DEF Written
  <2> QED BY <2>2, ShortLists
<1>2. CASE f.name \in DOMAIN m /\ f.repeated
  BY <1>2 DEF Fine, Written, Value
<1>3. CASE f.name \in DOMAIN m /\ ~f.repeated
  <2>1. PICK v : v = m[f.name] /\ Sane(f, v) /\ Value(f, m) = v
    BY <1>3 DEF Fine, Value
  <2>2. Written(f, m) = <<>> \/ Written(f, m) = <<v>>
    BY <1>3, <2>1 DEF Written
  <2> QED BY <2>1, <2>2, ShortLists
<1> QED BY <1>1, <1>2, <1>3

LEMMA FineFits ==
  ASSUME NEW fields, NEW n, IsTable(fields, n), NEW m,
         \A i \in 1..n : Fine(fields[i], m)
  PROVE  /\ FullFits(fields, m)
         /\ IsFlat(fields, n) => FlatFits(fields, m)
<1>1. /\ n \in Nat /\ DOMAIN fields = 1..n
      /\ \A i \in 1..n : IsField(fields[i])
  BY DEF IsTable
<1>2. \A i \in 1..n :
        /\ List(Written(fields[i], m))
        /\ \A j \in 1..Len(Written(fields[i], m)) :
             Sane(fields[i], Written(fields[i], m)[j])
  BY <1>1, WrittenFine
<1>3. Nests(fields, m)
  BY <1>1, <1>2 DEF Nests, Sane
<1>4. FitsTable(fields, m, Parts(fields, m))
  <2>1. ASSUME NEW i \in 1..n, NEW j \in 1..Len(Written(fields[i], m))
        PROVE  Allowed(fields[i], Written(fields[i], m)[j],
                       Parts(fields, m)[i][j])
    <3>1. PICK f, v : f = fields[i] /\ v = Written(fields[i], m)[j]
      OBVIOUS
    <3>2. Sane(f, v) /\ j \in DOMAIN Written(fields[i], m)
      BY <1>2, <3>1 DEF List
    <3>3. Parts(fields, m)[i][j] = FlatBytes(f.of, v)
      BY <1>1, <3>1, <3>2 DEF Parts
    <3>4. ASSUME f.kind = "message" PROVE FlatBytes(f.of, v) \in Bytes
      <4>1. PICK k : IsFlat(f.of, k)
        BY <3>2, <3>4 DEF Sane
      <4>2. FlatFits(f.of, v)
        BY <3>2, <3>4 DEF Sane
      <4> QED BY <4>1, <4>2, FlatReadBack
    <3>5. Allowed(f, v, FlatBytes(f.of, v))
      BY <3>2, <3>4 DEF Allowed, Sane
    <3> QED BY <3>1, <3>3, <3>5, Zenon
  <2> QED BY <1>1, <1>2, <2>1 DEF FitsTable
<1>5. ASSUME IsFlat(fields, n) PROVE FlatFits(fields, m)
  <2>1. \A i \in 1..n : fields[i].kind # "message"
    BY <1>5 DEF IsFlat
  <2>2. ASSUME NEW i \in 1..n, NEW j \in 1..Len(Written(fields[i], m)), NEW c
        PROVE  Allowed(fields[i], Written(fields[i], m)[j], c)
    BY <1>2, <2>1 DEF Sane, Allowed
  <2> QED BY <1>1, <1>2, <2>2 DEF FlatFits, FitsTable
<1> QED BY <1>3, <1>4, <1>5 DEF FullFits

\* The frame of a message the fields of which are all fine.
LEMMA FineReadsBack ==
  ASSUME NEW type \in Nat, NEW fields, NEW n, IsTable(fields, n), NEW m,
         \A i \in 1..n : Fine(fields[i], m)
  PROVE  ReadsBack(type, fields, m)
BY FineFits, FrameReadsBack

\* The fields of the tables.
LEMMA UintIs ==
  \A n \in Nat : \A name : IsField(Uint(n, name)) /\ Uint(n, name).n = n
BY DEF IsField, Uint, Field, IsNumber

LEMMA SintIs ==
  \A n \in Nat : \A name : IsField(Sint(n, name)) /\ Sint(n, name).n = n
BY DEF IsField, Sint, Field, IsNumber

LEMMA TextIs ==
  \A n \in Nat : \A name : IsField(Text(n, name)) /\ Text(n, name).n = n
BY DEF IsField, Text, Field, IsNumber

LEMMA TextsAre ==
  \A n \in Nat : \A name : /\ IsField(Repeated(Text(n, name)))
                          /\ Repeated(Text(n, name)).n = n
BY DEF IsField, Text, Repeated, Field, IsNumber

LEMMA NestedIs ==
  \A n \in Nat : \A name, of :
    IsField(Nested(n, name, of)) /\ Nested(n, name, of).n = n
BY DEF IsField, Nested, Field, IsNumber

LEMMA NestedAre ==
  \A n \in Nat : \A name, of : /\ IsField(Repeated(Nested(n, name, of)))
                              /\ Repeated(Nested(n, name, of)).n = n
BY DEF IsField, Nested, Repeated, Field, IsNumber

LEMMA UintFine ==
  \A n, name, m : (name \in DOMAIN m => m[name] \in Nat) => Fine(Uint(n, name), m)
BY DEF Fine, Sane, Uint, Field

LEMMA SintFine ==
  \A n, name, m : (name \in DOMAIN m => m[name] \in Int) => Fine(Sint(n, name), m)
BY DEF Fine, Sane, Sint, Field

LEMMA TextFine ==
  \A n, name, m : (name \in DOMAIN m => m[name] \in Bytes) => Fine(Text(n, name), m)
BY DEF Fine, Sane, Text, Field

LEMMA TextsFine ==
  ASSUME NEW n, NEW name, NEW m, name \in DOMAIN m, List(m[name]),
         \A j \in 1..Len(m[name]) : m[name][j] \in Bytes
  PROVE  Fine(Repeated(Text(n, name)), m)
BY DEF Fine, Sane, Text, Repeated, Field

LEMMA NestedFine ==
  ASSUME NEW n, NEW name, NEW of, NEW m, name \in DOMAIN m, List(m[name]),
         \E k : IsFlat(of, k),
         \A j \in 1..Len(m[name]) : FlatFits(of, m[name][j])
  PROVE  Fine(Repeated(Nested(n, name, of)), m)
BY DEF Fine, Sane, Nested, Repeated, Field

LEMMA AbsentFine ==
  /\ \A f, m : f.name \notin DOMAIN m => Fine(f, m)
  /\ \A n, name, of : Nested(n, name, of).name = name
  /\ \A n, name, of : Repeated(Nested(n, name, of)).name = name
BY DEF Fine, Nested, Repeated, Field

\* A table that numbers its fields in the order they are in.
LEMMA NumberedTable ==
  ASSUME NEW fields, NEW n \in Nat, DOMAIN fields = 1..n,
         \A i \in 1..n : IsField(fields[i]) /\ fields[i].n = i
  PROVE  IsTable(fields, n)
BY DEF IsTable

LEMMA SmallTables ==
  /\ IsTable(NoFields, 0)
  /\ IsTable(HelloRequestFields, 3) /\ IsTable(HelloResponseFields, 4)
  /\ IsTable(ConnectRequestFields, 1) /\ IsTable(ConnectResponseFields, 1)
  /\ IsTable(SubscribeAdvertsFields, 1) /\ IsTable(ConnectionsFreeFields, 3)
  /\ IsTable(LegacyAdvertFields, 7) /\ IsTable(RawAdvertFields, 1)
  /\ IsTable(ServiceDataFields, 3) /\ IsTable(RawAdvertisementFields, 4)
<1>1. IsTable(NoFields, 0)
  <2>1. DOMAIN NoFields = 1..0 /\ 0 \in Nat
    BY DEF NoFields
  <2>2. \A i \in 1..0 : IsField(NoFields[i]) /\ NoFields[i].n = i
    BY DEF NoFields
  <2> QED BY <2>1, <2>2, NumberedTable
<1>2. IsTable(HelloRequestFields, 3)
  <2>1. DOMAIN HelloRequestFields = 1..3 /\ 3 \in Nat
    BY DEF HelloRequestFields
  <2>2. \A i \in 1..3 : IsField(HelloRequestFields[i]) /\ HelloRequestFields[i].n = i
    BY UintIs, TextIs DEF HelloRequestFields
  <2> QED BY <2>1, <2>2, NumberedTable
<1>3. IsTable(HelloResponseFields, 4)
  <2>1. DOMAIN HelloResponseFields = 1..4 /\ 4 \in Nat
    BY DEF HelloResponseFields
  <2>2. \A i \in 1..4 : IsField(HelloResponseFields[i]) /\ HelloResponseFields[i].n = i
    BY UintIs, TextIs DEF HelloResponseFields
  <2> QED BY <2>1, <2>2, NumberedTable
<1>4. IsTable(ConnectRequestFields, 1)
  <2>1. DOMAIN ConnectRequestFields = 1..1 /\ 1 \in Nat
    BY DEF ConnectRequestFields
  <2>2. \A i \in 1..1 :
          IsField(ConnectRequestFields[i]) /\ ConnectRequestFields[i].n = i
    BY TextIs DEF ConnectRequestFields
  <2> QED BY <2>1, <2>2, NumberedTable
<1>5. IsTable(ConnectResponseFields, 1)
  <2>1. DOMAIN ConnectResponseFields = 1..1 /\ 1 \in Nat
    BY DEF ConnectResponseFields
  <2>2. \A i \in 1..1 :
          IsField(ConnectResponseFields[i]) /\ ConnectResponseFields[i].n = i
    BY UintIs DEF ConnectResponseFields
  <2> QED BY <2>1, <2>2, NumberedTable
<1>6. IsTable(SubscribeAdvertsFields, 1)
  <2>1. DOMAIN SubscribeAdvertsFields = 1..1 /\ 1 \in Nat
    BY DEF SubscribeAdvertsFields
  <2>2. \A i \in 1..1 :
          IsField(SubscribeAdvertsFields[i]) /\ SubscribeAdvertsFields[i].n = i
    BY UintIs DEF SubscribeAdvertsFields
  <2> QED BY <2>1, <2>2, NumberedTable
<1>7. IsTable(ConnectionsFreeFields, 3)
  <2>1. DOMAIN ConnectionsFreeFields = 1..3 /\ 3 \in Nat
    BY DEF ConnectionsFreeFields
  <2>2. \A i \in 1..3 :
          IsField(ConnectionsFreeFields[i]) /\ ConnectionsFreeFields[i].n = i
    BY UintIs, TextIs DEF ConnectionsFreeFields
  <2> QED BY <2>1, <2>2, NumberedTable
<1>8. IsTable(LegacyAdvertFields, 7)
  <2>1. DOMAIN LegacyAdvertFields = 1..7 /\ 7 \in Nat
    BY DEF LegacyAdvertFields
  <2>2. \A i \in 1..7 : IsField(LegacyAdvertFields[i]) /\ LegacyAdvertFields[i].n = i
    BY UintIs, SintIs, TextIs, TextsAre, NestedAre DEF LegacyAdvertFields
  <2> QED BY <2>1, <2>2, NumberedTable
<1>9. IsTable(RawAdvertFields, 1)
  <2>1. DOMAIN RawAdvertFields = 1..1 /\ 1 \in Nat
    BY DEF RawAdvertFields
  <2>2. \A i \in 1..1 :
          IsField(RawAdvertFields[i]) /\ RawAdvertFields[i].n = i
    BY NestedAre DEF RawAdvertFields
  <2> QED BY <2>1, <2>2, NumberedTable
<1>10. IsTable(ServiceDataFields, 3)
  <2>1. DOMAIN ServiceDataFields = 1..3 /\ 3 \in Nat
    BY DEF ServiceDataFields
  <2>2. \A i \in 1..3 : IsField(ServiceDataFields[i]) /\ ServiceDataFields[i].n = i
    BY TextIs DEF ServiceDataFields
  <2> QED BY <2>1, <2>2, NumberedTable
<1>11. IsTable(RawAdvertisementFields, 4)
  <2>1. DOMAIN RawAdvertisementFields = 1..4 /\ 4 \in Nat
    BY DEF RawAdvertisementFields
  <2>2. \A i \in 1..4 :
          IsField(RawAdvertisementFields[i]) /\ RawAdvertisementFields[i].n = i
    BY UintIs, SintIs, TextIs DEF RawAdvertisementFields
  <2> QED BY <2>1, <2>2, NumberedTable
<1> QED BY <1>1, <1>2, <1>3, <1>4, <1>5, <1>6, <1>7, <1>8, <1>9, <1>10, <1>11, Zenon

LEMMA FlatTables ==
  IsFlat(ServiceDataFields, 3) /\ IsFlat(RawAdvertisementFields, 4)
<1>1. \A n, name : Uint(n, name).kind # "message" /\ Sint(n, name).kind # "message"
                   /\ Text(n, name).kind # "message"
  BY DEF Uint, Sint, Text, Field
<1>2. \A i \in 1..3 : ServiceDataFields[i].kind # "message"
  BY <1>1 DEF ServiceDataFields
<1>3. \A i \in 1..4 : RawAdvertisementFields[i].kind # "message"
  BY <1>1 DEF RawAdvertisementFields
<1> QED BY <1>2, <1>3, SmallTables DEF IsFlat

\* The reply about the device numbers them in another order.
LEMMA DeviceInfoTable == IsTable(DeviceInfoResponseFields, 22)
<1> DEFINE T     == DeviceInfoResponseFields
           ns    == <<1, 2, 3, 4, 5, 6, 7, 8, 9, 10, 11, 15, 12, 13, 14, 17, 16, 18,
                      19, 20, 21, 22>>
           place == <<1, 2, 3, 4, 5, 6, 7, 8, 9, 10, 11, 13, 14, 15, 12, 17, 16, 18,
                      19, 20, 21, 22>>
<1>1. DOMAIN T = 1..22 /\ 22 \in Nat
  BY DEF DeviceInfoResponseFields
<1>2. \A i \in 1..22 : IsField(T[i]) /\ T[i].n = ns[i]
  BY UintIs, TextIs, NestedIs, NestedAre DEF DeviceInfoResponseFields
<1>3. \A i \in 1..22 : place[ns[i]] = i
  OBVIOUS
<1> HIDE DEF T, ns, place
<1>4. \A i, j \in 1..22 : T[i].n = T[j].n => i = j
  BY <1>2, <1>3
<1>5. IsTable(T, 22)
  BY <1>1, <1>2, <1>4 DEF IsTable
<1> QED BY <1>5 DEF T

-----------------------------------------------------------------------------
(* The frames of a session.                                                *)

LEMMA MessageIds ==
  /\ HelloRequest \in Nat /\ ConnectRequest \in Nat /\ PingRequest \in Nat
  /\ SubscribeAdverts \in Nat /\ LegacyAdvert \in Nat /\ RawAdvert \in Nat
  /\ \A t \in {HelloRequest, ConnectRequest, DeviceInfoRequest, ConnectionsFree} :
       ReplyTo(t) \in Nat
BY DEF HelloRequest, ConnectRequest, PingRequest, SubscribeAdverts, LegacyAdvert,
       RawAdvert, DeviceInfoRequest, ConnectionsFree, ReplyTo, ListEntitiesRequest,
       ListEntitiesDone

LEMMA WordIsBytes == Word \in Bytes
BY DEF Word, Bytes, Byte

LEMMA SessionReadsBack ==
  /\ ReadsBack(HelloRequest, HelloRequestFields, [client_info |-> Word])
  /\ ReadsBack(ReplyTo(HelloRequest), HelloResponseFields, hello_request)
  /\ ReadsBack(ConnectRequest, ConnectRequestFields, [password |-> Word])
  /\ ReadsBack(ReplyTo(ConnectRequest), ConnectResponseFields, NoFields)
  /\ ReadsBack(PingRequest, NoFields, NoFields)
  /\ ReadsBack(ReplyTo(ConnectionsFree), ConnectionsFreeFields,
               subscribe_bluetooth_connections_free_request)
  /\ \A flags \in {0, 1} :
       ReadsBack(SubscribeAdverts, SubscribeAdvertsFields, [flags |-> flags])
<1>1. ReadsBack(HelloRequest, HelloRequestFields, [client_info |-> Word])
  <2>1. PICK m : m = [client_info |-> Word]
    OBVIOUS
  <2>2. \A i \in 1..3 : Fine(HelloRequestFields[i], m)
    BY <2>1, UintFine, TextFine, WordIsBytes DEF HelloRequestFields
  <2> QED BY <2>1, <2>2, SmallTables, MessageIds, FineReadsBack
<1>2. ReadsBack(ReplyTo(HelloRequest), HelloResponseFields, hello_request)
  <2>1. PICK m : m = hello_request
    OBVIOUS
  <2>2. \A i \in 1..4 : Fine(HelloResponseFields[i], m)
    BY <2>1, UintFine, TextFine, WordIsBytes
       DEF HelloResponseFields, hello_request
  <2> QED BY <2>1, <2>2, SmallTables, MessageIds, FineReadsBack
<1>3. ReadsBack(ConnectRequest, ConnectRequestFields, [password |-> Word])
  <2>1. PICK m : m = [password |-> Word]
    OBVIOUS
  <2>2. \A i \in 1..1 : Fine(ConnectRequestFields[i], m)
    BY <2>1, TextFine, WordIsBytes DEF ConnectRequestFields
  <2> QED BY <2>1, <2>2, SmallTables, MessageIds, FineReadsBack
<1>4. ReadsBack(ReplyTo(ConnectRequest), ConnectResponseFields, NoFields)
  <2>1. \A f : Fine(f, NoFields)
    BY AbsentFine DEF NoFields
  <2> QED BY <2>1, SmallTables, MessageIds, FineReadsBack
<1>5. ReadsBack(PingRequest, NoFields, NoFields)
  BY SmallTables, MessageIds, FineReadsBack
<1>6. ReadsBack(ReplyTo(ConnectionsFree), ConnectionsFreeFields,
                subscribe_bluetooth_connections_free_request)
  <2>1. PICK m : m = subscribe_bluetooth_connections_free_request
    OBVIOUS
  <2>2. \A i \in 1..3 : Fine(ConnectionsFreeFields[i], m)
    BY <2>1, UintFine, TextFine
       DEF ConnectionsFreeFields, subscribe_bluetooth_connections_free_request
  <2> QED BY <2>1, <2>2, SmallTables, MessageIds, FineReadsBack
<1>7. ASSUME NEW flags \in {0, 1}
      PROVE  ReadsBack(SubscribeAdverts, SubscribeAdvertsFields, [flags |-> flags])
  <2>1. PICK m : m = [flags |-> flags]
    OBVIOUS
  <2>2. \A i \in 1..1 : Fine(SubscribeAdvertsFields[i], m)
    BY <2>1, UintFine DEF SubscribeAdvertsFields
  <2> QED BY <2>1, <2>2, SmallTables, MessageIds, FineReadsBack
<1> QED BY <1>1, <1>2, <1>3, <1>4, <1>5, <1>6, <1>7, Zenon

LEMMA DeviceInfoReadsBack ==
  ReadsBack(ReplyTo(DeviceInfoRequest), DeviceInfoResponseFields,
            device_info_request)
<1>1. PICK m : m = device_info_request
  OBVIOUS
<1>2. /\ DOMAIN m = {"name", "mac_address", "esphome_version", "compilation_time",
                     "model", "legacy_bluetooth_proxy_version",
                     "bluetooth_proxy_feature_flags", "friendly_name",
                     "bluetooth_mac_address", "api_encryption_supported"}
      /\ m["legacy_bluetooth_proxy_version"] \in Nat
      /\ m["bluetooth_proxy_feature_flags"] \in Nat
      /\ m["api_encryption_supported"] \in Nat
  BY <1>1 DEF device_info_request
<1>3. \A k \in {"name", "mac_address", "esphome_version", "compilation_time",
                "model", "friendly_name", "bluetooth_mac_address"} : m[k] \in Bytes
  BY <1>1, WordIsBytes DEF device_info_request
<1>4. ASSUME NEW i \in 1..19 PROVE Fine(DeviceInfoResponseFields[i], m)
  <2>1. CASE i \in 1..6
    BY <1>2, <1>3, <2>1, UintFine, TextFine DEF DeviceInfoResponseFields
  <2>2. CASE i \in 7..12
    BY <1>2, <1>3, <2>2, UintFine, TextFine DEF DeviceInfoResponseFields
  <2>3. CASE i \in 13..19
    BY <1>2, <1>3, <2>3, UintFine, TextFine DEF DeviceInfoResponseFields
  <2> QED BY <2>1, <2>2, <2>3
<1>5. ASSUME NEW i \in 20..22 PROVE Fine(DeviceInfoResponseFields[i], m)
  <2>1. DeviceInfoResponseFields[i].name \in {"devices", "areas", "area"}
    BY AbsentFine DEF DeviceInfoResponseFields
  <2> QED BY <1>2, <2>1, AbsentFine
<1>6. \A i \in 1..22 : Fine(DeviceInfoResponseFields[i], m)
  BY <1>4, <1>5
<1> QED BY <1>1, <1>6, DeviceInfoTable, MessageIds, FineReadsBack

-----------------------------------------------------------------------------
(* The frames of an advert.                                                *)

\* The digits of a company are bytes.
LEMMA CompanyText ==
  ASSUME NEW k \in UInt16
  PROVE  company_id(k) \in Bytes
<1>1. ASSUME NEW b \in Byte PROVE PartOf(b) \in Bytes
  <2>1. b \div 16 \in Byte /\ b % 16 \in Byte
    BY DEF Byte
  <2>2. PICK x \in Byte, y \in Byte : x = b \div 16 /\ y = b % 16
    BY <2>1
  <2>3. <<x, y>> \in Bytes
    BY DEF Bytes
  <2> QED BY <2>2, <2>3 DEF PartOf
<1>2. k \div 256 \in Byte /\ k % 256 \in Byte
  BY CompanyBytes
<1> QED BY <1>1, <1>2, Appended DEF company_id

LEMMA AddressIsNumber ==
  ASSUME NEW text \in [1..MacLength -> Digit \X Digit]
  PROVE  parse_ble_address(text) \in Nat
<1>1. MacLength \in Nat /\ 256 \in Nat
  BY RawAdvAssumption
<1>2. parse_mac(text) \in [1..MacLength -> Nat]
  <2>1. ASSUME NEW p \in Digit \X Digit PROVE ByteOf(p) \in Nat
    <3>1. p[1] \in Nat /\ p[2] \in Nat
      BY DEF Digit
    <3>2. \A x, y \in Nat : 16 * x + y \in Nat
      OBVIOUS
    <3> QED BY <3>1, <3>2, Zenon DEF ByteOf
  <2> QED BY <2>1 DEF parse_mac
<1>3. PICK d \in [1..MacLength -> Nat] : d = parse_mac(text)
  BY <1>2
<1>4. PICK f : Counts(f, 256, d, MacLength) /\ Number(256, d) = f[MacLength]
  BY <1>1, Counted
<1>5. f[MacLength] \in Nat
  BY <1>1, <1>4 DEF Counts
<1> QED BY <1>3, <1>4, <1>5 DEF parse_ble_address

\* What an advert is made of.
IsLegacy(m) ==
  /\ DOMAIN m = {"address", "address_type", "rssi", "name", "service_uuids",
                 "service_data", "manufacturer_data"}
  /\ m["address"] \in Nat /\ m["address_type"] \in Nat /\ m["rssi"] \in Int
  /\ m["name"] \in Bytes /\ m["service_uuids"] \in Seq(Bytes)
  /\ m["service_data"] \in Seq(Entry(Bytes))
  /\ m["manufacturer_data"] \in Seq(Entry(Bytes))

IsRaw(m) ==
  /\ DOMAIN m = {"address", "address_type", "rssi", "data"}
  /\ m["address"] \in Nat /\ m["address_type"] \in Nat /\ m["rssi"] \in Int
  /\ m["data"] \in Bytes

LEMMA AdvertTyped ==
  ASSUME Known, build_advertisement # NoAdvert
  PROVE  IsLegacy(build_advertisement.legacy) /\ IsRaw(build_advertisement.raw)
<1>1. "Address" \in DOMAIN props
  BY DEF build_advertisement
<1>2. PICK address, type, rssi, name, uuids, service, company, extracted, data :
        /\ address = parse_ble_address(props["Address"])
        /\ type = IF Get("AddressType", "") = "random" THEN 1 ELSE 0
        /\ rssi = Get("RSSI", -127) /\ name = Get("Name", <<>>)
        /\ uuids = Get("UUIDs", <<>>) /\ service = Get("ServiceData", <<>>)
        /\ company = Get("ManufacturerData", <<>>)
        /\ extracted = extract_manufacturer_data(company)
        /\ data = build_raw_advertisement_data
  OBVIOUS
<1>3. build_advertisement =
        [legacy |->
           [address           |-> address,
            address_type      |-> type,
            rssi              |-> rssi,
            name              |-> name,
            service_uuids     |-> uuids,
            service_data      |-> service,
            manufacturer_data |-> extracted],
         raw |->
           [address      |-> address,
            address_type |-> type,
            rssi         |-> rssi,
            data         |-> data]]
  BY <1>1, <1>2, Zenon DEF build_advertisement
<1>4. \A k \in DOMAIN props : props[k] \in Typed[k]
  BY RawAdvAssumption DEF Known
<1>5. address \in Nat
  <2>1. props["Address"] \in [1..MacLength -> Digit \X Digit]
    BY <1>1, <1>4 DEF Typed
  <2> QED BY <1>2, <2>1, AddressIsNumber
<1>6. type \in Nat
  BY <1>2
<1>7. rssi \in Int
  <2>1. "RSSI" \in DOMAIN props => props["RSSI"] \in Int16
    BY <1>4 DEF Typed
  <2>2. Int16 \subseteq Int /\ -127 \in Int
    BY DEF Int16
  <2>3. rssi = IF "RSSI" \in DOMAIN props THEN props["RSSI"] ELSE -127
    BY <1>2, Zenon DEF Get
  <2> QED BY <2>1, <2>2, <2>3
<1>8. /\ name \in Bytes /\ uuids \in Seq(Bytes) /\ service \in Seq(Entry(Bytes))
      /\ company \in Seq(Entry(UInt16))
  BY <1>2, Given, BytesEmpty DEF Get
<1>9. extracted \in Seq(Entry(Bytes))
  <2>1. ASSUME NEW e \in Entry(UInt16)
        PROVE  [key |-> company_id(e.key), data |-> e.data] \in Entry(Bytes)
    BY EntryParts, CompanyText DEF Entry
  <2>2. extracted = [i \in DOMAIN company |->
                       [key |-> company_id(company[i].key),
                        data |-> company[i].data]]
    BY <1>2, Zenon DEF extract_manufacturer_data
  <2> QED BY <1>8, <2>1, <2>2
<1>10. data \in Bytes
  BY <1>2, PacketBytes
<1>11. IsLegacy(build_advertisement.legacy)
  BY <1>3, <1>5, <1>6, <1>7, <1>8, <1>9 DEF IsLegacy
<1>12. IsRaw(build_advertisement.raw)
  BY <1>3, <1>5, <1>6, <1>7, <1>10 DEF IsRaw
<1> QED BY <1>11, <1>12

\* An entry of a dictionary and an advert fit the tables for them.
LEMMA EntryFits ==
  ASSUME NEW e \in Entry(Bytes)
  PROVE  FlatFits(ServiceDataFields, e)
<1>1. DOMAIN e = {"key", "data"} /\ e["key"] \in Bytes /\ e["data"] \in Bytes
  BY DEF Entry
<1>2. \A i \in 1..3 : Fine(ServiceDataFields[i], e)
  BY <1>1, TextFine DEF ServiceDataFields
<1> QED BY <1>2, SmallTables, FlatTables, FineFits

LEMMA RawFits ==
  ASSUME NEW m, IsRaw(m)
  PROVE  FlatFits(RawAdvertisementFields, m)
<1>1. \A i \in 1..4 : Fine(RawAdvertisementFields[i], m)
  BY UintFine, SintFine, TextFine DEF RawAdvertisementFields, IsRaw
<1> QED BY <1>1, SmallTables, FlatTables, FineFits

LEMMA EntriesFit ==
  ASSUME NEW n, NEW name, NEW m, name \in DOMAIN m, m[name] \in Seq(Entry(Bytes))
  PROVE  Fine(Repeated(Nested(n, name, ServiceDataFields)), m)
<1>1. PICK s : s = m[name] /\ s \in Seq(Entry(Bytes))
  OBVIOUS
<1>2. List(s) /\ \A j \in 1..Len(s) : FlatFits(ServiceDataFields, s[j])
  BY <1>1, EntryFits DEF List
<1> QED BY <1>1, <1>2, FlatTables, NestedFine

LEMMA LegacyFine ==
  ASSUME NEW m, IsLegacy(m)
  PROVE  \A i \in 1..7 : Fine(LegacyAdvertFields[i], m)
<1>1. /\ Fine(Uint(1, "address"), m) /\ Fine(Text(2, "name"), m)
      /\ Fine(Sint(3, "rssi"), m) /\ Fine(Uint(7, "address_type"), m)
  BY UintFine, SintFine, TextFine DEF IsLegacy
<1>2. Fine(Repeated(Text(4, "service_uuids")), m)
  <2>1. /\ "service_uuids" \in DOMAIN m /\ List(m["service_uuids"])
        /\ \A j \in 1..Len(m["service_uuids"]) : m["service_uuids"][j] \in Bytes
    BY DEF IsLegacy, List
  <2> QED BY <2>1, TextsFine
<1>3. /\ Fine(Repeated(Nested(5, "service_data", ServiceDataFields)), m)
      /\ Fine(Repeated(Nested(6, "manufacturer_data", ServiceDataFields)), m)
  BY EntriesFit DEF IsLegacy
<1> QED BY <1>1, <1>2, <1>3 DEF LegacyAdvertFields

LEMMA AdvertReadsBack ==
  ASSUME Known, build_advertisement # NoAdvert
  PROVE  /\ ReadsBack(LegacyAdvert, LegacyAdvertFields, build_advertisement.legacy)
         /\ ReadsBack(RawAdvert, RawAdvertFields,
                      [advertisements |-> <<build_advertisement.raw>>])
<1>1. PICK l, r : /\ l = build_advertisement.legacy /\ IsLegacy(l)
                  /\ r = build_advertisement.raw /\ IsRaw(r)
  BY AdvertTyped
<1>2. ReadsBack(LegacyAdvert, LegacyAdvertFields, l)
  BY <1>1, LegacyFine, SmallTables, MessageIds, FineReadsBack
<1>3. PICK m : m = [advertisements |-> <<r>>]
  OBVIOUS
<1>4. /\ "advertisements" \in DOMAIN m /\ List(m["advertisements"])
      /\ \A j \in 1..Len(m["advertisements"]) :
           FlatFits(RawAdvertisementFields, m["advertisements"][j])
  BY <1>1, <1>3, RawFits DEF List
<1>5. Fine(Repeated(Nested(1, "advertisements", RawAdvertisementFields)), m)
  BY <1>4, FlatTables, NestedFine
<1>6. \A i \in 1..1 : Fine(RawAdvertFields[i], m)
  BY <1>5 DEF RawAdvertFields
<1>7. ReadsBack(RawAdvert, RawAdvertFields, m)
  BY <1>6, SmallTables, MessageIds, FineReadsBack
<1> QED BY <1>1, <1>2, <1>3, <1>7, Zenon

\* FramesReadBack: whatever BlueZ says of a device, of any length, both forms of
\* its advert are read as they were written, and so are the messages of the
\* session.
THEOREM FramesAreReadBack == Spec => []FramesReadBack
<1>1. Known => FramesReadBack
  <2> SUFFICES ASSUME Known PROVE FramesReadBack
    OBVIOUS
  <2>1. ASSUME NEW a \in {build_advertisement} \ {NoAdvert}
        PROVE  /\ ReadsBack(LegacyAdvert, LegacyAdvertFields, a.legacy)
               /\ ReadsBack(RawAdvert, RawAdvertFields,
                            [advertisements |-> <<a.raw>>])
    <3>1. a = build_advertisement /\ build_advertisement # NoAdvert
      OBVIOUS
    <3> QED BY <3>1, AdvertReadsBack, Zenon
  <2> QED BY <2>1, SessionReadsBack, DeviceInfoReadsBack, Zenon DEF FramesReadBack
<1> QED BY <1>1, StaysKnown, PTL
=============================================================================
