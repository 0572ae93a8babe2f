------------------------ MODULE TcpBroadcasterProofs ------------------------
(***************************************************************************)
(* Proofs about TcpBroadcaster for any subscribers, workers, line length,  *)
(* window and number of lines.                                             *)
(***************************************************************************)
EXTENDS TcpBroadcaster, FiniteSetTheorems, SequenceTheorems,
        WellFoundedInduction, TLAPS

Byte == Nat \X Nat

(* The length of a line is a positive number. *)
LEMMA LineBytesPositive == LineBytes \in Nat \ {0}
BY TcpAssumption

(* A set of numbers that is not empty has a least one. *)
LEMMA LeastNumber ==
    ASSUME NEW S, S \subseteq Nat, S # {}
    PROVE  \E x \in S : \A y \in S : x <= y
<1>1. PICK x \in S : \A y \in S : ~(<<y, x>> \in OpToRel(<, Nat))
  BY WFMin, NatLessThanWellFounded, Zenon
<1>2. \A y \in S : y < x => <<y, x>> \in OpToRel(<, Nat)
  BY Zenon DEF OpToRel
<1>3. \A y \in S : ~(y < x)
  BY <1>1, <1>2, Zenon
<1> QED
  BY <1>3

-----------------------------------------------------------------------------
(* Multiples of the line length: where lines begin in a stream. *)
IsMultiple(b) == \E q \in Nat : b = q * LineBytes

(* Nothing is a whole number of lines, and one more line keeps it whole. *)
LEMMA MultipleZero == IsMultiple(0)
<1>1. 0 = 0 * LineBytes
  BY LineBytesPositive
<1> QED
  BY <1>1 DEF IsMultiple

LEMMA MultipleAdd ==
    ASSUME NEW b \in Nat, IsMultiple(b) PROVE IsMultiple(b + LineBytes)
<1>1. PICK q \in Nat : b = q * LineBytes
  BY DEF IsMultiple
<1>2. (q + 1) * LineBytes = q * LineBytes + LineBytes
  BY LineBytesPositive
<1> QED
  BY <1>1, <1>2 DEF IsMultiple

(* Two starts of lines less than a line apart are the same. *)
LEMMA MultipleUnique ==
    ASSUME NEW b \in Nat, NEW c \in Nat, IsMultiple(b), IsMultiple(c),
           b <= c, c < b + LineBytes
    PROVE  b = c
<1>1. PICK q \in Nat : b = q * LineBytes
  BY DEF IsMultiple
<1>2. PICK u \in Nat : c = u * LineBytes
  BY DEF IsMultiple
<1>3. ASSUME NEW x \in Nat, NEW y \in Nat, x < y
      PROVE  x * LineBytes + LineBytes <= y * LineBytes
  <2>1. (x + 1) * LineBytes <= y * LineBytes
    BY <1>3, LineBytesPositive
  <2>2. (x + 1) * LineBytes = x * LineBytes + LineBytes
    BY LineBytesPositive
  <2> QED
    BY <2>1, <2>2
<1>4. ~(q < u) /\ ~(u < q)
  <2>1. ASSUME q < u PROVE FALSE
    <3>1. b + LineBytes <= c
      BY <1>1, <1>2, <1>3, <2>1
    <3> QED
      BY <3>1, LineBytesPositive
  <2>2. ASSUME u < q PROVE FALSE
    <3>1. c + LineBytes <= b
      BY <1>1, <1>2, <1>3, <2>2
    <3> QED
      BY <3>1, LineBytesPositive
  <2> QED
    BY <2>1, <2>2
<1>5. q = u
  BY <1>4
<1> QED
  BY <1>1, <1>2, <1>5

(* Division finds the start of a line and the offset in it. *)
LEMMA DivideByLine ==
    ASSUME NEW b \in Nat, IsMultiple(b), NEW i \in Nat, i - b \in 1..LineBytes
    PROVE  ((i - 1) \div LineBytes) * LineBytes = b /\ ((i - 1) % LineBytes) + 1 = i - b
<1> DEFINE q == (i - 1) \div LineBytes
           r == (i - 1) % LineBytes
           c == q * LineBytes
<1>0. i - 1 \in Nat
  BY LineBytesPositive
<1>1. q \in Nat /\ r \in 0..(LineBytes - 1) /\ i - 1 = c + r
  BY <1>0, LineBytesPositive
<1>2. c \in Nat
  BY <1>1, LineBytesPositive
<1>3. IsMultiple(c)
  BY <1>1 DEF IsMultiple
<1> HIDE DEF q, r, c
<1>4. c < b + LineBytes /\ b < c + LineBytes
  BY <1>1, <1>2, LineBytesPositive
<1>5. b = c
  <2>1. CASE b <= c
    BY <1>2, <1>3, <1>4, <2>1, MultipleUnique
  <2>2. CASE c <= b
    BY <1>2, <1>3, <1>4, <2>2, MultipleUnique
  <2> QED
    BY <1>2, <2>1, <2>2
<1>6. r + 1 = i - b
  BY <1>1, <1>2, <1>5
<1> QED
  BY <1>5, <1>6 DEF q, r, c

(* A multiple is divided without remainder. *)
LEMMA DivideWhole ==
    ASSUME NEW n \in Nat, IsMultiple(n) PROVE n = (n \div LineBytes) * LineBytes
<1>1. (((n + 1) - 1) \div LineBytes) * LineBytes = n
  <2>1. (n + 1) - n \in 1..LineBytes /\ n + 1 \in Nat
    BY LineBytesPositive
  <2> QED
    BY <2>1, DivideByLine
<1>2. (n + 1) - 1 = n
  OBVIOUS
<1> QED
  BY <1>1, <1>2

-----------------------------------------------------------------------------
(* The first k steps of FlattenSeq. *)
IsFlat(f, ss, k) ==
    f = [i \in 1..k |-> IF i = 1 THEN ss[i] ELSE f[i - 1] \o ss[i]]

(* There is such a function for every k, by induction on k. *)
LEMMA FlatExists ==
    ASSUME NEW ss PROVE \A k \in Nat : \E f : IsFlat(f, ss, k)
<1> DEFINE Bad == {k \in Nat : ~\E f : IsFlat(f, ss, k)}
<1> SUFFICES ASSUME Bad # {} PROVE FALSE
  OBVIOUS
<1>1. PICK k \in Bad : \A j \in Bad : k <= j
  BY LeastNumber, Zenon
<1>2. k # 0
  <2>1. IsFlat([i \in 1..0 |-> 0], ss, 0)
    BY DEF IsFlat
  <2> QED
    BY <2>1
<1>3. PICK f : IsFlat(f, ss, k - 1)
  <2>1. k - 1 \in Nat /\ ~(k <= k - 1)
    BY <1>2
  <2> QED
    BY <1>1, <2>1
<1> DEFINE g == [i \in 1..k |-> IF i = k THEN (IF k = 1 THEN ss[k] ELSE f[k - 1] \o ss[k])
                                ELSE f[i]]
<1>4. IsFlat(g, ss, k)
  <2> SUFFICES ASSUME NEW i \in 1..k
               PROVE  g[i] = IF i = 1 THEN ss[i] ELSE g[i - 1] \o ss[i]
    BY Zenon DEF IsFlat
  <2>1. CASE i = k
    BY <1>2, <2>1
  <2>2. CASE i # k
    <3>1. i \in 1..(k - 1) /\ (i # 1 => i - 1 \in 1..k /\ i - 1 # k)
      BY <2>2
    <3>2. f[i] = IF i = 1 THEN ss[i] ELSE f[i - 1] \o ss[i]
      BY <1>3, <3>1, Zenon DEF IsFlat
    <3> QED
      BY <2>2, <3>1, <3>2
  <2> QED
    BY <2>1, <2>2
<1> QED
  BY <1>4

(* So FlattenSeq is the last step. *)
LEMMA FlattenIsFlat ==
    ASSUME NEW ss, Len(ss) \in Nat \ {0}
    PROVE  \E f : IsFlat(f, ss, Len(ss)) /\ FlattenSeq(ss) = f[Len(ss)]
<1> DEFINE flat == CHOOSE f : IsFlat(f, ss, Len(ss))
<1>1. IsFlat(flat, ss, Len(ss))
  BY FlatExists
<1>2. FlattenSeq(ss) = flat[Len(ss)]
  BY DEF FlattenSeq, IsFlat
<1> QED
  BY <1>1, <1>2, Zenon

(* Each step is a sequence of bytes. *)
LEMMA FlatType ==
    ASSUME NEW ss \in Seq(Seq(Byte)), NEW k \in Nat, k <= Len(ss),
           NEW f, IsFlat(f, ss, k)
    PROVE  \A i \in 1..k : f[i] \in Seq(Byte)
<1> DEFINE Bad == {i \in Nat : i \in 1..k /\ f[i] \notin Seq(Byte)}
<1> SUFFICES ASSUME Bad # {} PROVE FALSE
  OBVIOUS
<1>1. PICK i \in Bad : \A j \in Bad : i <= j
  BY LeastNumber, Zenon
<1>2. i \in 1..k /\ f[i] \notin Seq(Byte)
  BY <1>1
<1>3. f[i] = IF i = 1 THEN ss[i] ELSE f[i - 1] \o ss[i]
  BY <1>2, Zenon DEF IsFlat
<1>4. ss[i] \in Seq(Byte)
  <2>1. Len(ss) \in Nat /\ i \in 1..Len(ss)
    BY <1>2, LenProperties
  <2> QED
    BY <2>1, ElementOfSeq
<1>5. i # 1
  BY <1>2, <1>3, <1>4
<1>6. f[i - 1] \in Seq(Byte)
  <2>1. i - 1 \in 1..k /\ i - 1 \in Nat /\ ~(i <= i - 1)
    BY <1>2, <1>5
  <2> QED
    BY <1>1, <2>1
<1> QED
  BY <1>2, <1>3, <1>4, <1>5, <1>6, ConcatProperties

(* The steps for a sequence are the first steps for a longer one. *)
Agree(f, g, k) == \A i \in 1..k : f[i] = g[i]

LEMMA FlatAgree ==
    ASSUME NEW ss, NEW tt, NEW k \in Nat, Agree(ss, tt, k),
           NEW f, IsFlat(f, ss, k), NEW g, IsFlat(g, tt, k + 1)
    PROVE  Agree(f, g, k)
<1> USE DEF Agree
<1> DEFINE Bad == {i \in Nat : i \in 1..k /\ f[i] # g[i]}
<1> SUFFICES ASSUME Bad # {} PROVE FALSE
  OBVIOUS
<1>1. PICK i \in Bad : \A j \in Bad : i <= j
  BY LeastNumber, Zenon
<1>2. i \in 1..k /\ i \in 1..(k + 1) /\ f[i] # g[i]
  BY <1>1
<1>3. f[i] = IF i = 1 THEN ss[i] ELSE f[i - 1] \o ss[i]
  BY <1>2, Zenon DEF IsFlat
<1>4. g[i] = IF i = 1 THEN tt[i] ELSE g[i - 1] \o tt[i]
  BY <1>2, Zenon DEF IsFlat
<1>5. i # 1 => f[i - 1] = g[i - 1]
  <2>1. i # 1 => i - 1 \in 1..k /\ i - 1 \in Nat /\ ~(i <= i - 1)
    BY <1>2
  <2> QED
    BY <1>1, <2>1
<1> QED
  BY <1>2, <1>3, <1>4, <1>5

(***************************************************************************)
(* What the rest of the proofs knows of FlattenSeq: a line printed adds    *)
(* its bytes at the end.                                                   *)
(***************************************************************************)
LEMMA FlattenEmpty == FlattenSeq(<<>>) = <<>>
BY DEF FlattenSeq

LEMMA FlattenType ==
    ASSUME NEW ss \in Seq(Seq(Byte)) PROVE FlattenSeq(ss) \in Seq(Byte)
<1>1. Len(ss) \in Nat
  BY LenProperties
<1>2. CASE Len(ss) = 0
  <2>1. ss = <<>>
    BY <1>2, EmptySeq
  <2> QED
    BY <2>1, FlattenEmpty, EmptySeq, Zenon
<1>3. CASE Len(ss) # 0
  <2>1. PICK f : IsFlat(f, ss, Len(ss)) /\ FlattenSeq(ss) = f[Len(ss)]
    BY <1>1, <1>3, FlattenIsFlat
  <2>2. Len(ss) \in 1..Len(ss) /\ Len(ss) <= Len(ss)
    BY <1>1, <1>3
  <2> QED
    BY <1>1, <2>1, <2>2, FlatType, Zenon
<1> QED
  BY <1>2, <1>3

LEMMA FlattenAppend ==
    ASSUME NEW ss \in Seq(Seq(Byte)), NEW x \in Seq(Byte)
    PROVE  FlattenSeq(Append(ss, x)) = FlattenSeq(ss) \o x
<1> DEFINE tt == Append(ss, x)
           n == Len(ss)
<1>1. n \in Nat /\ Len(tt) = n + 1 /\ (\A i \in 1..n : ss[i] = tt[i]) /\ tt[n + 1] = x
  BY LenProperties, AppendProperties
<1> HIDE DEF tt
<1>2. PICK g : IsFlat(g, tt, n + 1) /\ FlattenSeq(tt) = g[n + 1]
  <2>1. Len(tt) \in Nat \ {0}
    BY <1>1
  <2> QED
    BY <1>1, <2>1, FlattenIsFlat
<1>3. g[n + 1] = IF n + 1 = 1 THEN x ELSE g[n] \o x
  <2>1. n + 1 \in 1..(n + 1) /\ (n + 1) - 1 = n
    BY <1>1
  <2>2. g[n + 1] = IF n + 1 = 1 THEN tt[n + 1] ELSE g[(n + 1) - 1] \o tt[n + 1]
    BY <1>2, <2>1, Zenon DEF IsFlat
  <2> QED
    BY <1>1, <2>1, <2>2
<1>4. CASE n = 0
  <2>1. ss = <<>>
    BY <1>4, EmptySeq
  <2>2. FlattenSeq(ss) \o x = x
    BY <2>1, FlattenEmpty, ConcatEmptySeq
  <2> QED
    BY <1>2, <1>3, <1>4, <2>2 DEF tt
<1>5. CASE n # 0
  <2>1. PICK f : IsFlat(f, ss, n) /\ FlattenSeq(ss) = f[n]
    BY <1>1, <1>5, FlattenIsFlat
  <2>2. f[n] = g[n]
    <3> HIDE DEF n
    <3>1. n \in 1..n
      BY <1>1, <1>5
    <3>2. n \in Nat /\ IsFlat(f, ss, n) /\ IsFlat(g, tt, n + 1)
      BY <1>1, <1>2, <2>1
    <3>3. Agree(ss, tt, n)
      BY <1>1 DEF Agree
    <3>4. Agree(f, g, n)
      BY <3>2, <3>3, FlatAgree
    <3> QED
      BY <3>1, <3>4 DEF Agree
  <2> QED
    BY <1>1, <1>2, <1>3, <1>5, <2>1, <2>2 DEF tt
<1> QED
  BY <1>4, <1>5

-----------------------------------------------------------------------------
(***************************************************************************)
(* Streams of bytes.  Every byte stands at its offset in a line that began *)
(* at a multiple of the line length; no byte of line n is in the stream;   *)
(* no later line than n is in it; line n follows line m.                   *)
(***************************************************************************)
IsLines(r) ==
    \A i \in 1..Len(r) : \E b \in Nat :
        IsMultiple(b) /\ i - b \in 1..LineBytes /\ r[i] = <<r[b + 1][1], i - b>>

NoByteOf(r, n) == \A i \in 1..Len(r) : r[i][1] # n

Upto(r, n) == \A i \in 1..Len(r) : r[i][1] <= n

(* After a byte of line n come only bytes of line n. *)
LastLine(r, n) == \A i, j \in 1..Len(r) : i < j /\ r[i][1] = n => r[j][1] = n

Follows(r, m, n) ==
    \E i, j \in 1..Len(r) : i < j /\ r[i] = <<m, 1>> /\ r[j] = <<n, 1>>

NoInversion(r, t) == \A m, n \in Nat : ~(Follows(r, m, n) /\ Follows(t, n, m))

(* A stream to which the first k bytes of line n were sent. *)
Sent(r, n, k) == r \o SubSeq(LineOf(n), 1, k)

(* What a send does to the stream, byte by byte. *)
LEMMA SentBytes ==
    ASSUME NEW r \in Seq(Byte), NEW n \in Nat, NEW k \in 0..LineBytes
    PROVE  /\ Sent(r, n, k) \in Seq(Byte)
           /\ Len(Sent(r, n, k)) = Len(r) + k
           /\ \A i \in 1..Len(r) : Sent(r, n, k)[i] = r[i]
           /\ \A i \in (Len(r) + 1)..(Len(r) + k) : Sent(r, n, k)[i] = <<n, i - Len(r)>>
<1> DEFINE part == SubSeq(LineOf(n), 1, k)
<1>1. \A i \in 1..k : LineOf(n)[i] \in Byte /\ LineOf(n)[i] = <<n, i>>
  BY LineBytesPositive DEF LineOf, Byte
<1>2. part \in Seq(Byte) /\ Len(part) = k /\ \A i \in 1..k : part[i] = <<n, i>>
  <2>1. 1 \in Int /\ k \in Int /\ k - 1 + 1 = k /\ (1 <= k \/ k = 0)
    BY LineBytesPositive
  <2>2. /\ part \in Seq(Byte)
        /\ Len(part) = IF 1 <= k THEN k - 1 + 1 ELSE 0
        /\ \A i \in 1..(k - 1 + 1) : part[i] = LineOf(n)[1 + i - 1]
    BY <1>1, <2>1, SubSeqProperties
  <2>3. \A i \in 1..k : 1 + i - 1 = i
    OBVIOUS
  <2> QED
    BY <1>1, <2>1, <2>2, <2>3
<1> HIDE DEF part
<1>3. /\ r \o part \in Seq(Byte)
      /\ Len(r \o part) = Len(r) + Len(part)
      /\ \A i \in 1..(Len(r) + Len(part)) : (r \o part)[i] =
              IF i <= Len(r) THEN r[i] ELSE part[i - Len(r)]
  BY <1>2, ConcatProperties, Zenon
<1>4. Len(r) \in Nat
  BY LenProperties
<1>5. Sent(r, n, k) = r \o part
  BY DEF Sent, part
<1>6. ASSUME NEW i \in 1..Len(r) PROVE (r \o part)[i] = r[i]
  BY <1>2, <1>3, <1>4, <1>6
<1>7. ASSUME NEW i \in (Len(r) + 1)..(Len(r) + k) PROVE (r \o part)[i] = <<n, i - Len(r)>>
  <2>1. i \in 1..(Len(r) + Len(part)) /\ ~(i <= Len(r)) /\ i - Len(r) \in 1..k
    BY <1>2, <1>4, <1>7
  <2> QED
    BY <1>2, <1>3, <2>1
<1> QED
  BY <1>2, <1>3, <1>5, <1>6, <1>7

(* The position of a byte: in the old stream or in what was sent. *)
LEMMA SentPosition ==
    ASSUME NEW r \in Seq(Byte), NEW n \in Nat, NEW k \in 0..LineBytes,
           NEW i \in 1..Len(Sent(r, n, k))
    PROVE  \/ i \in 1..Len(r) /\ Sent(r, n, k)[i] = r[i]
           \/ /\ i \in (Len(r) + 1)..(Len(r) + k) /\ i > Len(r)
              /\ i - Len(r) \in 1..LineBytes
              /\ Sent(r, n, k)[i] = <<n, i - Len(r)>>
<1>1. Len(r) \in Nat /\ Len(Sent(r, n, k)) = Len(r) + k
  BY SentBytes, LenProperties
<1>2. CASE i \in 1..Len(r)
  BY <1>2, SentBytes, Zenon
<1>3. CASE i \notin 1..Len(r)
  <2>1. i \in (Len(r) + 1)..(Len(r) + k) /\ i > Len(r) /\ i - Len(r) \in 1..LineBytes
    BY <1>1, <1>3, LineBytesPositive
  <2> QED
    BY <2>1, SentBytes, Zenon
<1> QED
  BY <1>2, <1>3

(* Bytes have a line and an offset. *)
LEMMA ByteParts ==
    ASSUME NEW r \in Seq(Byte), NEW i \in 1..Len(r)
    PROVE  r[i] \in Byte /\ r[i][1] \in Nat /\ r[i][2] \in Nat /\ r[i] = <<r[i][1], r[i][2]>>
<1>1. r[i] \in Byte
  BY ElementOfSeq
<1> QED
  BY <1>1 DEF Byte

(* A line sent to a stream of whole lines starts at a multiple. *)
LEMMA SentLines ==
    ASSUME NEW r \in Seq(Byte), NEW n \in Nat, NEW k \in 0..LineBytes,
           IsLines(r), IsMultiple(Len(r))
    PROVE  IsLines(Sent(r, n, k))
<1> DEFINE t == Sent(r, n, k)
<1> SUFFICES ASSUME NEW i \in 1..Len(t)
             PROVE  \E b \in Nat : IsMultiple(b) /\ i - b \in 1..LineBytes
                                   /\ t[i] = <<t[b + 1][1], i - b>>
  BY Zenon DEF IsLines
<1>0. Len(r) \in Nat
  BY LenProperties
<1>1. CASE i \in 1..Len(r) /\ t[i] = r[i]
  <2>1. PICK b \in Nat : IsMultiple(b) /\ i - b \in 1..LineBytes
                         /\ r[i] = <<r[b + 1][1], i - b>>
    BY <1>1 DEF IsLines
  <2>2. b + 1 \in 1..Len(r)
    BY <1>0, <1>1, <2>1, LineBytesPositive
  <2>3. t[b + 1] = r[b + 1]
    BY <2>2, SentBytes, Zenon
  <2> QED
    BY <1>1, <2>1, <2>3
<1>2. CASE /\ i \in (Len(r) + 1)..(Len(r) + k) /\ i - Len(r) \in 1..LineBytes
           /\ t[i] = <<n, i - Len(r)>>
  <2>1. Len(r) + 1 \in (Len(r) + 1)..(Len(r) + k)
    BY <1>0, <1>2
  <2>2. t[Len(r) + 1] = <<n, (Len(r) + 1) - Len(r)>>
    BY <2>1, SentBytes, Zenon
  <2>3. t[Len(r) + 1][1] = n
    BY <2>2
  <2>4. Len(r) \in Nat /\ IsMultiple(Len(r)) /\ t[i] = <<t[Len(r) + 1][1], i - Len(r)>>
    BY <1>0, <1>2, <2>3, Zenon
  <2> QED
    BY <1>2, <2>4, Zenon
<1>3. \/ i \in 1..Len(r) /\ t[i] = r[i]
      \/ /\ i \in (Len(r) + 1)..(Len(r) + k) /\ i - Len(r) \in 1..LineBytes
         /\ t[i] = <<n, i - Len(r)>>
  BY SentPosition
<1> QED
  BY <1>1, <1>2, <1>3, Zenon

(* A line that was not in the stream leaves its bytes distinct. *)
LEMMA SentInjective ==
    ASSUME NEW r \in Seq(Byte), NEW n \in Nat, NEW k \in 0..LineBytes,
           IsInjective(r), NoByteOf(r, n)
    PROVE  IsInjective(Sent(r, n, k))
<1> DEFINE t == Sent(r, n, k)
<1>0. Len(r) \in Nat /\ DOMAIN r = 1..Len(r)
  BY LenProperties
<1>1. DOMAIN t = 1..Len(t)
  BY SentBytes, LenProperties
<1> SUFFICES ASSUME NEW i \in 1..Len(t), NEW j \in 1..Len(t), t[i] = t[j] PROVE i = j
  BY <1>1 DEF IsInjective
<1>2. ASSUME i \in 1..Len(r), t[i] = r[i] PROVE i = j
  <2>1. t[i][1] # n
    BY <1>2 DEF NoByteOf
  <2>2. j \in 1..Len(r) /\ t[j] = r[j]
    <3>1. t[j] = <<n, j - Len(r)>> => t[j][1] = n
      OBVIOUS
    <3> QED
      BY <2>1, <3>1, SentPosition
  <2> QED
    BY <1>0, <1>2, <2>2, Zenon DEF IsInjective
<1>3. ASSUME i > Len(r), t[i] = <<n, i - Len(r)>> PROVE i = j
  <2>1. t[i][1] = n /\ t[i][2] = i - Len(r)
    BY <1>3
  <2>2. ~(j \in 1..Len(r) /\ t[j] = r[j])
    BY <2>1 DEF NoByteOf
  <2>3. t[j] = <<n, j - Len(r)>>
    BY <2>2, SentPosition
  <2>4. t[j][2] = j - Len(r)
    BY <2>3
  <2>5. i - Len(r) = j - Len(r) /\ i \in Int /\ j \in Int
    BY <2>1, <2>4
  <2> QED
    BY <1>0, <2>5
<1> QED
  BY <1>2, <1>3, SentPosition

(* No other line enters the stream, and the line sent is now the last. *)
LEMMA SentOther ==
    ASSUME NEW r \in Seq(Byte), NEW n \in Nat, NEW k \in 0..LineBytes,
           NEW m, m # n, NoByteOf(r, m)
    PROVE  NoByteOf(Sent(r, n, k), m)
<1> SUFFICES ASSUME NEW i \in 1..Len(Sent(r, n, k)) PROVE Sent(r, n, k)[i][1] # m
  BY DEF NoByteOf
<1>1. CASE i \in 1..Len(r) /\ Sent(r, n, k)[i] = r[i]
  BY <1>1 DEF NoByteOf
<1>2. CASE Sent(r, n, k)[i] = <<n, i - Len(r)>>
  BY <1>2
<1> QED
  BY <1>1, <1>2, SentPosition

LEMMA SentUpto ==
    ASSUME NEW r \in Seq(Byte), NEW n \in Nat, NEW k \in 0..LineBytes,
           NEW m \in Nat, n <= m, Upto(r, m)
    PROVE  Upto(Sent(r, n, k), m)
<1> SUFFICES ASSUME NEW i \in 1..Len(Sent(r, n, k)) PROVE Sent(r, n, k)[i][1] <= m
  BY DEF Upto
<1>1. CASE i \in 1..Len(r) /\ Sent(r, n, k)[i] = r[i]
  BY <1>1 DEF Upto
<1>2. CASE Sent(r, n, k)[i] = <<n, i - Len(r)>>
  BY <1>2
<1> QED
  BY <1>1, <1>2, SentPosition

LEMMA SentLast ==
    ASSUME NEW r \in Seq(Byte), NEW n \in Nat, NEW k \in 0..LineBytes, NoByteOf(r, n)
    PROVE  LastLine(Sent(r, n, k), n)
<1> DEFINE t == Sent(r, n, k)
<1>0. Len(r) \in Nat
  BY LenProperties
<1> SUFFICES ASSUME NEW i \in 1..Len(t), NEW j \in 1..Len(t), i < j, t[i][1] = n
             PROVE  t[j][1] = n
  BY DEF LastLine
<1>1. i > Len(r)
  <2>1. ~(i \in 1..Len(r) /\ t[i] = r[i])
    BY DEF NoByteOf
  <2> QED
    BY <2>1, SentPosition
<1>2. j \notin 1..Len(r)
  BY <1>0, <1>1
<1>3. t[j] = <<n, j - Len(r)>>
  BY <1>2, SentPosition
<1> QED
  BY <1>3

(* No stream shows two lines in both orders. *)
LEMMA InversionSelf ==
    ASSUME NEW r \in Seq(Byte), IsInjective(r) PROVE NoInversion(r, r)
<1> SUFFICES ASSUME NEW m \in Nat, NEW n \in Nat, Follows(r, m, n), Follows(r, n, m)
             PROVE  FALSE
  BY DEF NoInversion
<1>1. PICK i \in 1..Len(r), j \in 1..Len(r) : i < j /\ r[i] = <<m, 1>> /\ r[j] = <<n, 1>>
  BY DEF Follows
<1>2. PICK u \in 1..Len(r), v \in 1..Len(r) : u < v /\ r[u] = <<n, 1>> /\ r[v] = <<m, 1>>
  BY DEF Follows
<1>3. DOMAIN r = 1..Len(r)
  BY LenProperties
<1>4. i = v /\ j = u
  BY <1>1, <1>2, <1>3, Zenon DEF IsInjective
<1> QED
  BY <1>1, <1>2, <1>4

LEMMA InversionSymmetric ==
    ASSUME NEW r, NEW t, NoInversion(r, t) PROVE NoInversion(t, r)
BY DEF NoInversion

(* A line sent to one stream is in no other before a line that follows it. *)
LEMMA InversionSent ==
    ASSUME NEW r \in Seq(Byte), NEW n \in Nat, NEW k \in 0..LineBytes,
           NEW t \in Seq(Byte), NoInversion(r, t), LastLine(t, n), IsInjective(t)
    PROVE  NoInversion(Sent(r, n, k), t)
<1> DEFINE q == Sent(r, n, k)
<1> SUFFICES ASSUME NEW m \in Nat, NEW p \in Nat, Follows(q, m, p), Follows(t, p, m)
             PROVE  FALSE
  BY DEF NoInversion
<1>0. Len(r) \in Nat
  BY LenProperties
<1>1. PICK i \in 1..Len(q), j \in 1..Len(q) : i < j /\ q[i] = <<m, 1>> /\ q[j] = <<p, 1>>
  BY Zenon DEF Follows
<1>2. PICK u \in 1..Len(t), v \in 1..Len(t) : u < v /\ t[u] = <<p, 1>> /\ t[v] = <<m, 1>>
  BY Zenon DEF Follows
<1>3. CASE j \in 1..Len(r) /\ q[j] = r[j]
  <2>1. i \in 1..Len(r)
    BY <1>0, <1>1, <1>3
  <2>2. q[i] = r[i]
    BY <2>1, SentBytes
  <2>3. Follows(r, m, p)
    BY <1>1, <1>3, <2>1, <2>2, Zenon DEF Follows
  <2> QED
    BY <2>3 DEF NoInversion
<1>4. CASE q[j] = <<n, j - Len(r)>>
  <2>1. p = n
    BY <1>1, <1>4
  <2>2. t[u][1] = p /\ t[v][1] = m
    BY <1>2
  <2>3. m = n
    BY <1>2, <2>1, <2>2 DEF LastLine
  <2>4. t[u] = t[v]
    BY <1>2, <2>1, <2>3
  <2>5. u = v
    BY <2>4, LenProperties DEF IsInjective
  <2> QED
    BY <1>2, <2>5
<1> QED
  BY <1>3, <1>4, SentPosition, Zenon

(* Distinct bytes are as many as the stream is long. *)
LEMMA InjectiveCount ==
    ASSUME NEW r \in Seq(Byte), IsInjective(r)
    PROVE  Cardinality({r[i] : i \in DOMAIN r}) = Len(r)
<1> DEFINE T == {r[i] : i \in DOMAIN r}
<1>1. Len(r) \in Nat /\ DOMAIN r = 1..Len(r) /\ r \in [1..Len(r) -> Byte]
  BY LenProperties
<1>2. r \in [1..Len(r) -> T]
  BY <1>1
<1>3. r \in Bijection(1..Len(r), T)
  BY <1>1, <1>2 DEF Bijection, Injection, Surjection
<1>4. IsFiniteSet(1..Len(r)) /\ Cardinality(1..Len(r)) = Len(r)
  BY <1>1, FS_Interval
<1> HIDE DEF T
<1>5. Cardinality(T) = Cardinality(1..Len(r))
  BY <1>3, <1>4, FS_Bijection DEF ExistsBijection
<1> QED
  BY <1>4, <1>5 DEF T

-----------------------------------------------------------------------------
(* Moving bytes from the wire to pending, or to a printed line, keeps the  *)
(* stream.                                                                 *)
Associates(r, t, u) == (r \o t) \o u = r \o (t \o u)
ReadMoves(f, p, w, n) ==
    (f \o (p \o SubSeq(w, 1, n))) \o SubSeq(w, n + 1, Len(w)) = (f \o p) \o w
PrintMoves(f, p, w, n) ==
    ((f \o SubSeq(p, 1, n)) \o SubSeq(p, n + 1, Len(p))) \o w = (f \o p) \o w

LEMMA Associative ==
    \A r, t, u \in Seq(Byte) : Associates(r, t, u)
<1> TAKE r \in Seq(Byte), t \in Seq(Byte), u \in Seq(Byte)
<1> QED
  BY ConcatAssociative DEF Associates

LEMMA CutSeq ==
    ASSUME NEW r \in Seq(Byte), NEW n \in 1..Len(r)
    PROVE  /\ SubSeq(r, 1, n) \in Seq(Byte) /\ Len(SubSeq(r, 1, n)) = n
           /\ SubSeq(r, n + 1, Len(r)) \in Seq(Byte)
           /\ SubSeq(r, 1, n) \o SubSeq(r, n + 1, Len(r)) = r
<1>1. Len(r) \in Nat /\ n \in Nat /\ 1 <= n /\ n <= Len(r)
  BY LenProperties
<1>2. \A i \in 1..Len(r) : r[i] \in Byte
  BY ElementOfSeq
<1>3. SubSeq(r, 1, n) \in Seq(Byte) /\ Len(SubSeq(r, 1, n)) = n
  <2>1. \A i \in 1..n : r[i] \in Byte
    BY <1>1, <1>2
  <2> QED
    BY <1>1, <2>1, SubSeqProperties
<1>4. SubSeq(r, n + 1, Len(r)) \in Seq(Byte)
  <2>1. \A i \in (n + 1)..Len(r) : r[i] \in Byte
    BY <1>1, <1>2
  <2> QED
    BY <1>1, <2>1, SubSeqProperties
<1>5. SubSeq(r, 1, n) \o SubSeq(r, n + 1, Len(r)) = SubSeq(r, 1, Len(r))
  <2>1. 1 \in 1..(Len(r) + 1) /\ n \in (1 - 1)..Len(r) /\ Len(r) \in n..Len(r)
    BY <1>1
  <2> QED
    BY <2>1, ConcatAdjacentSubSeq
<1>6. SubSeq(r, 1, Len(r)) = r
  BY SubSeqFull
<1> QED
  BY <1>3, <1>4, <1>5, <1>6, Zenon

LEMMA ReadKeepsStream ==
    ASSUME NEW f \in Seq(Byte), NEW p \in Seq(Byte), NEW w \in Seq(Byte),
           NEW n \in 1..Len(w)
    PROVE  ReadMoves(f, p, w, n)
<1> DEFINE x == SubSeq(w, 1, n)
           y == SubSeq(w, n + 1, Len(w))
<1>1. x \in Seq(Byte) /\ y \in Seq(Byte) /\ x \o y = w
  BY CutSeq
<1> SUFFICES (f \o (p \o x)) \o y = (f \o p) \o w
  BY Zenon DEF ReadMoves
<1> HIDE DEF x, y
<1>2. f \o p \in Seq(Byte)
  BY ConcatProperties
<1>3. Associates(f, p, x) /\ Associates(f \o p, x, y)
  BY <1>1, <1>2, Associative, Zenon
<1>4. ((f \o p) \o x) \o y = (f \o p) \o (x \o y)
  BY <1>3, Zenon DEF Associates
<1>5. (f \o (p \o x)) \o y = ((f \o p) \o x) \o y
  BY <1>3, Zenon DEF Associates
<1>6. (f \o p) \o (x \o y) = (f \o p) \o w
  BY <1>1, Zenon
<1> QED
  BY <1>4, <1>5, <1>6, Zenon

LEMMA PrintKeepsStream ==
    ASSUME NEW f \in Seq(Byte), NEW p \in Seq(Byte), NEW w \in Seq(Byte),
           NEW n \in 1..Len(p)
    PROVE  PrintMoves(f, p, w, n)
<1> DEFINE x == SubSeq(p, 1, n)
           y == SubSeq(p, n + 1, Len(p))
<1>1. x \in Seq(Byte) /\ y \in Seq(Byte) /\ x \o y = p
  BY CutSeq
<1> SUFFICES ((f \o x) \o y) \o w = (f \o p) \o w
  BY Zenon DEF PrintMoves
<1> HIDE DEF x, y
<1>2. Associates(f, x, y)
  BY <1>1, Associative, Zenon
<1>3. f \o (x \o y) = f \o p
  BY <1>1, Zenon
<1>4. (f \o x) \o y = f \o p
  BY <1>2, <1>3, Zenon DEF Associates
<1> QED
  BY <1>4, Zenon

LEMMA SendExtendsStream ==
    ASSUME NEW f \in Seq(Byte), NEW w \in Seq(Byte), NEW n \in Nat,
           NEW k \in 0..LineBytes
    PROVE  /\ w \o SubSeq(LineOf(n), 1, k) \in Seq(Byte)
           /\ f \o (w \o SubSeq(LineOf(n), 1, k)) = Sent(f \o w, n, k)
<1> DEFINE x == SubSeq(LineOf(n), 1, k)
<1>1. x \in Seq(Byte)
  <2>1. \A i \in 1..k : LineOf(n)[i] \in Byte
    BY LineBytesPositive DEF LineOf, Byte
  <2> QED
    BY <2>1, LineBytesPositive, SubSeqProperties
<1> HIDE DEF x
<1>2. Associates(f, w, x)
  BY <1>1, Associative, Zenon
<1>3. f \o (w \o x) = (f \o w) \o x
  BY <1>2, Zenon DEF Associates
<1>4. w \o x \in Seq(Byte)
  BY <1>1, ConcatProperties
<1> QED
  BY <1>3, <1>4 DEF x, Sent

(***************************************************************************)
(* After whole lines, the first newline that is still to be printed stands *)
(* one line further: what the inner loop cuts off is a line.               *)
(***************************************************************************)
LEMMA FirstNewline ==
    ASSUME NEW f \in Seq(Byte), NEW p \in Seq(Byte), NEW w \in Seq(Byte),
           IsLines((f \o p) \o w), IsMultiple(Len(f)),
           NEW pos \in 1..Len(p), IsNewline(p[pos]),
           \A i \in 1..Len(p) : IsNewline(p[i]) => pos <= i
    PROVE  pos = LineBytes
<1> DEFINE r == (f \o p) \o w
<1>1. Len(f) \in Nat /\ Len(p) \in Nat /\ Len(w) \in Nat
  BY LenProperties
<1>2. \A i \in 1..Len(p) : Len(f) + i \in 1..Len(r) /\ r[Len(f) + i] = p[i]
  <2>1. /\ f \o p \in Seq(Byte) /\ Len(f \o p) = Len(f) + Len(p)
        /\ \A i \in 1..(Len(f) + Len(p)) : (f \o p)[i] =
                IF i <= Len(f) THEN f[i] ELSE p[i - Len(f)]
    BY ConcatProperties
  <2>2. /\ Len(r) = Len(f \o p) + Len(w)
        /\ \A i \in 1..(Len(f \o p) + Len(w)) : r[i] =
                IF i <= Len(f \o p) THEN (f \o p)[i] ELSE w[i - Len(f \o p)]
    BY <2>1, ConcatProperties
  <2> HIDE DEF r
  <2> TAKE i \in 1..Len(p)
  <2>3. Len(f) + i \in 1..(Len(f) + Len(p)) /\ ~(Len(f) + i <= Len(f)) /\ (Len(f) + i) - Len(f) = i
    BY <1>1
  <2>4. Len(f) + i \in 1..(Len(f \o p) + Len(w)) /\ Len(f) + i <= Len(f \o p)
    BY <1>1, <2>1, <2>3
  <2>5. (f \o p)[Len(f) + i] = p[i]
    BY <2>1, <2>3
  <2> QED
    BY <2>2, <2>4, <2>5
<1>3. IsLines(r)
  OBVIOUS
<1> HIDE DEF r
<1>4. \A i \in 1..Len(p) : \E b \in Nat :
          IsMultiple(b) /\ (Len(f) + i) - b \in 1..LineBytes /\ p[i][2] = (Len(f) + i) - b
  <2> TAKE i \in 1..Len(p)
  <2>1. PICK b \in Nat : IsMultiple(b) /\ (Len(f) + i) - b \in 1..LineBytes
                         /\ r[Len(f) + i] = <<r[b + 1][1], (Len(f) + i) - b>>
    BY <1>2, <1>3, Zenon DEF IsLines
  <2>2. p[i] = <<r[b + 1][1], (Len(f) + i) - b>>
    BY <1>2, <2>1
  <2>3. p[i][2] = (Len(f) + i) - b
    BY <2>2
  <2> QED
    BY <2>1, <2>3
<1>5. pos >= LineBytes
  <2> SUFFICES ASSUME pos < LineBytes PROVE FALSE
    BY LineBytesPositive
  <2>1. PICK b \in Nat : IsMultiple(b) /\ p[pos][2] = (Len(f) + pos) - b
    BY <1>4
  <2>2. b + LineBytes = Len(f) + pos
    BY <1>1, <2>1, LineBytesPositive DEF IsNewline
  <2>3. IsMultiple(b + LineBytes)
    BY <2>1, MultipleAdd
  <2>4. IsMultiple(Len(f) + pos) /\ Len(f) + pos \in Nat
    BY <1>1, <2>2, <2>3
  <2>5. Len(f) <= Len(f) + pos /\ Len(f) + pos < Len(f) + LineBytes
    BY <1>1, LineBytesPositive
  <2>6. Len(f) = Len(f) + pos
    BY <1>1, <2>4, <2>5, MultipleUnique
  <2> QED
    BY <1>1, <2>6
<1>6. pos <= LineBytes
  <2> SUFFICES ASSUME pos > LineBytes PROVE FALSE
    BY LineBytesPositive
  <2>1. LineBytes \in 1..Len(p)
    BY <1>1, LineBytesPositive
  <2>2. PICK b \in Nat : /\ IsMultiple(b) /\ (Len(f) + LineBytes) - b \in 1..LineBytes
                         /\ p[LineBytes][2] = (Len(f) + LineBytes) - b
    BY <1>4, <2>1
  <2>3. Len(f) <= b /\ b < Len(f) + LineBytes
    BY <1>1, <2>2, LineBytesPositive
  <2>4. Len(f) = b
    BY <1>1, <2>2, <2>3, MultipleUnique, Zenon
  <2>5. IsNewline(p[LineBytes])
    BY <1>1, <2>2, <2>4, LineBytesPositive DEF IsNewline
  <2> QED
    BY <2>1, <2>5, LineBytesPositive
<1> QED
  BY <1>5, <1>6, LineBytesPositive

-----------------------------------------------------------------------------
(* The type of the state. *)
TcpType ==
    /\ backlog \in Seq(Subscribers) /\ clients \in Seq(Subscribers)
    /\ up \in BOOLEAN /\ holder \in Workers \cup {"none"}
    /\ it \in [Workers -> Nat \ {0}] /\ line \in [Workers -> Nat] /\ taken \in Nat
    /\ link \in [Subscribers -> {"none", "open", "closed", "left"}]
    /\ wire \in [Subscribers -> Seq(Byte)]
    /\ pending \in [Subscribers -> Seq(Byte)]
    /\ printed \in [Subscribers -> Seq(Seq(Byte))]
    /\ status \in [Subscribers -> {"running", "ok", "failed"}]
    /\ due \subseteq Subscribers

LEMMA InitType == Init => TcpType
BY EmptySeq, SMT DEF Init, TcpType

(* A client erased leaves the others, those behind it one place earlier. *)
LEMMA RemoveAtProperties ==
    ASSUME NEW c \in Seq(Subscribers), NEW k \in 1..Len(c)
    PROVE  /\ RemoveAt(c, k) \in Seq(Subscribers)
           /\ Len(RemoveAt(c, k)) = Len(c) - 1
           /\ \A i \in 1..(Len(c) - 1) :
                  RemoveAt(c, k)[i] = IF i < k THEN c[i] ELSE c[i + 1]
<1> DEFINE x == SubSeq(c, 1, k - 1)
           y == SubSeq(c, k + 1, Len(c))
<1>1. Len(c) \in Nat /\ k \in Nat /\ 1 <= k /\ k <= Len(c)
  BY LenProperties
<1>2. \A i \in 1..Len(c) : c[i] \in Subscribers
  BY ElementOfSeq
<1>3. x \in Seq(Subscribers) /\ Len(x) = k - 1 /\ \A i \in 1..(k - 1) : x[i] = c[i]
  <2>1. \A i \in 1..(k - 1) : c[i] \in Subscribers
    BY <1>1, <1>2
  <2>2. /\ x \in Seq(Subscribers)
        /\ Len(x) = IF 1 <= k - 1 THEN (k - 1) - 1 + 1 ELSE 0
        /\ \A i \in 1..((k - 1) - 1 + 1) : x[i] = c[1 + i - 1]
    BY <1>1, <2>1, SubSeqProperties
  <2>3. (k - 1) - 1 + 1 = k - 1 /\ (1 <= k - 1 \/ k - 1 = 0)
    BY <1>1
  <2>4. \A i \in 1..(k - 1) : 1 + i - 1 = i
    OBVIOUS
  <2> QED
    BY <2>2, <2>3, <2>4
<1>4. /\ y \in Seq(Subscribers) /\ Len(y) = Len(c) - k
      /\ \A i \in 1..(Len(c) - k) : y[i] = c[k + i]
  <2>1. \A i \in (k + 1)..Len(c) : c[i] \in Subscribers
    BY <1>1, <1>2
  <2>2. /\ y \in Seq(Subscribers)
        /\ Len(y) = IF k + 1 <= Len(c) THEN Len(c) - (k + 1) + 1 ELSE 0
        /\ \A i \in 1..(Len(c) - (k + 1) + 1) : y[i] = c[(k + 1) + i - 1]
    BY <1>1, <2>1, SubSeqProperties
  <2>3. Len(c) - (k + 1) + 1 = Len(c) - k /\ (k + 1 <= Len(c) \/ Len(c) - k = 0)
    BY <1>1
  <2>4. \A i \in 1..(Len(c) - k) : (k + 1) + i - 1 = k + i
    BY <1>1
  <2> QED
    BY <2>2, <2>3, <2>4, Zenon
<1> HIDE DEF x, y
<1>5. /\ x \o y \in Seq(Subscribers) /\ Len(x \o y) = Len(x) + Len(y)
      /\ \A i \in 1..(Len(x) + Len(y)) : (x \o y)[i] =
              IF i <= Len(x) THEN x[i] ELSE y[i - Len(x)]
  BY <1>3, <1>4, ConcatProperties, Zenon
<1>6. RemoveAt(c, k) = x \o y
  BY DEF RemoveAt, x, y
<1>7. Len(x) + Len(y) = Len(c) - 1
  BY <1>1, <1>3, <1>4
<1>8. ASSUME NEW i \in 1..(Len(c) - 1)
      PROVE  (x \o y)[i] = IF i < k THEN c[i] ELSE c[i + 1]
  <2>1. CASE i < k
    <3>1. i \in 1..(k - 1) /\ i <= Len(x)
      BY <1>1, <1>3, <2>1
    <3> QED
      BY <1>3, <1>5, <1>7, <2>1, <3>1
  <2>2. CASE ~(i < k)
    <3>1. ~(i <= Len(x)) /\ i - Len(x) \in 1..(Len(c) - k) /\ k + (i - Len(x)) = i + 1
      BY <1>1, <1>3, <2>2
    <3>2. (x \o y)[i] = y[i - Len(x)]
      BY <1>5, <1>7, <3>1
    <3>3. y[i - Len(x)] = c[k + (i - Len(x))]
      BY <1>4, <3>1
    <3> QED
      BY <2>2, <3>1, <3>2, <3>3
  <2> QED
    BY <2>1, <2>2, Zenon
<1> QED
  BY <1>5, <1>6, <1>7, <1>8

(* Each member of the shorter sequence was one of the longer. *)
LEMMA RemoveAtMember ==
    ASSUME NEW c \in Seq(Subscribers), NEW k \in 1..Len(c),
           NEW i \in 1..Len(RemoveAt(c, k))
    PROVE  \E j \in 1..Len(c) : /\ j = IF i < k THEN i ELSE i + 1
                                /\ j # k /\ RemoveAt(c, k)[i] = c[j]
<1>1. Len(c) \in Nat /\ k \in Nat
  BY LenProperties
<1>2. i \in 1..(Len(c) - 1)
  BY RemoveAtProperties
<1>3. RemoveAt(c, k)[i] = IF i < k THEN c[i] ELSE c[i + 1]
  BY <1>2, RemoveAtProperties
<1>4. i \in 1..Len(c) /\ i + 1 \in 1..Len(c)
  BY <1>1, <1>2
<1>5. CASE i < k
  BY <1>1, <1>3, <1>4, <1>5
<1>6. CASE ~(i < k)
  BY <1>1, <1>3, <1>4, <1>6
<1> QED
  BY <1>5, <1>6

(* What a send changes, as far as the types are concerned. *)
LEMMA SendLineType ==
    ASSUME TcpType, NEW w \in Workers, SendLine(w) PROVE TcpType'
<1> DEFINE s == clients[it[w]]
<1>1. it[w] \in 1..Len(clients) /\ s \in Subscribers
  <2>1. Len(clients) \in Nat /\ it[w] \in Nat \ {0} /\ it[w] <= Len(clients)
    BY LenProperties DEF SendLine, TcpType
  <2>2. it[w] \in 1..Len(clients)
    BY <2>1
  <2> QED
    BY <2>2, ElementOfSeq DEF TcpType
<1>2. PICK n \in 0..LineBytes :
          /\ wire' = [wire EXCEPT ![s] = IF link[s] = "left" THEN @
                                         ELSE @ \o SubSeq(LineOf(line[w]), 1, n)]
          /\ it' = [it EXCEPT ![w] = IF Keeps(s, n) THEN @ + 1 ELSE @]
          /\ due' = due \ {s}
          /\ \/ UNCHANGED <<clients, link>>
             \/ /\ clients' = RemoveAt(clients, it[w])
                /\ link' = [link EXCEPT ![s] = IF @ = "open" THEN "closed" ELSE @]
  BY Zenon DEF SendLine, Advance
<1> HIDE DEF s
<1>3. wire' \in [Subscribers -> Seq(Byte)]
  <2>1. wire[s] \in Seq(Byte) /\ line[w] \in Nat
    BY <1>1 DEF TcpType
  <2>2. wire[s] \o SubSeq(LineOf(line[w]), 1, n) \in Seq(Byte)
    BY <2>1, SendExtendsStream
  <2> QED
    BY <1>2, <2>1, <2>2, Zenon DEF TcpType
<1>4. it' \in [Workers -> Nat \ {0}]
  <2>1. it[w] \in Nat \ {0} /\ it[w] + 1 \in Nat \ {0}
    BY DEF TcpType
  <2>2. (IF Keeps(s, n) THEN it[w] + 1 ELSE it[w]) \in Nat \ {0}
    BY <2>1
  <2> QED
    BY <1>2, <2>2 DEF TcpType
<1>5. clients' \in Seq(Subscribers)
  <2>1. clients \in Seq(Subscribers)
    BY DEF TcpType
  <2>2. RemoveAt(clients, it[w]) \in Seq(Subscribers)
    BY <1>1, <2>1, RemoveAtProperties
  <2> QED
    BY <1>2, <2>1, <2>2
<1>6. link' \in [Subscribers -> {"none", "open", "closed", "left"}]
  BY <1>2, Zenon DEF TcpType
<1>7. due' \subseteq Subscribers
  BY <1>2 DEF TcpType
<1> QED
  BY <1>3, <1>4, <1>5, <1>6, <1>7, Zenon DEF TcpType, SendLine, subVars

(* One read: bytes move from the wire to pending. *)
LEMMA ReadType ==
    ASSUME TcpType, NEW s \in Subscribers, Read(s) PROVE TcpType'
<1>1. PICK n \in 1..Len(wire[s]) :
          /\ pending' = [pending EXCEPT ![s] = @ \o SubSeq(wire[s], 1, n)]
          /\ wire' = [wire EXCEPT ![s] = SubSeq(@, n + 1, Len(@))]
  BY Zenon DEF Read
<1>2. pending[s] \in Seq(Byte) /\ wire[s] \in Seq(Byte)
  BY DEF TcpType
<1>3. SubSeq(wire[s], 1, n) \in Seq(Byte) /\ SubSeq(wire[s], n + 1, Len(wire[s])) \in Seq(Byte)
  BY <1>2, CutSeq
<1>4. pending[s] \o SubSeq(wire[s], 1, n) \in Seq(Byte)
  BY <1>2, <1>3, ConcatProperties
<1>5. pending' \in [Subscribers -> Seq(Byte)]
  BY <1>1, <1>4 DEF TcpType
<1>6. wire' \in [Subscribers -> Seq(Byte)]
  BY <1>1, <1>3 DEF TcpType
<1> QED
  BY <1>5, <1>6, Zenon DEF TcpType, Read, serverVars, castVars

(* One line printed: the first newline of pending ends it. *)
LEMMA FirstOfNewlines ==
    ASSUME TcpType, NEW s \in Subscribers, PrintLine(s)
    PROVE  \E pos \in 1..Len(pending[s]) :
               /\ pos = Min(Newlines(s))
               /\ IsNewline(pending[s][pos])
               /\ \A i \in 1..Len(pending[s]) : IsNewline(pending[s][i]) => pos <= i
<1>1. Len(pending[s]) \in Nat /\ DOMAIN pending[s] = 1..Len(pending[s])
  BY LenProperties DEF TcpType
<1>2. Newlines(s) \subseteq Nat /\ Newlines(s) # {}
  BY <1>1 DEF PrintLine, Newlines
<1>3. \E x \in Newlines(s) : \A y \in Newlines(s) : x <= y
  BY <1>2, LeastNumber
<1>4. Min(Newlines(s)) \in Newlines(s) /\ \A y \in Newlines(s) : Min(Newlines(s)) <= y
  BY <1>3 DEF Min
<1> QED
  BY <1>1, <1>4, Zenon DEF Newlines

LEMMA PrintLineType ==
    ASSUME TcpType, NEW s \in Subscribers, PrintLine(s) PROVE TcpType'
<1>1. PICK pos \in 1..Len(pending[s]) : pos = Min(Newlines(s))
  BY FirstOfNewlines
<1>2. /\ printed' = [printed EXCEPT ![s] = Append(@, SubSeq(pending[s], 1, pos))]
      /\ pending' = [pending EXCEPT ![s] = SubSeq(@, pos + 1, Len(@))]
      /\ \E x \in {"ok", status[s]} : status' = [status EXCEPT ![s] = x]
      /\ \E x \in {"left", link[s]} : link' = [link EXCEPT ![s] = x]
  BY <1>1, Zenon DEF PrintLine
<1>3. pending[s] \in Seq(Byte) /\ printed[s] \in Seq(Seq(Byte))
  BY DEF TcpType
<1>4. /\ SubSeq(pending[s], 1, pos) \in Seq(Byte)
      /\ SubSeq(pending[s], pos + 1, Len(pending[s])) \in Seq(Byte)
  BY <1>3, CutSeq
<1>5. Append(printed[s], SubSeq(pending[s], 1, pos)) \in Seq(Seq(Byte))
  BY <1>3, <1>4, AppendProperties
<1>6. printed' \in [Subscribers -> Seq(Seq(Byte))] /\ pending' \in [Subscribers -> Seq(Byte)]
  BY <1>2, <1>4, <1>5 DEF TcpType
<1>7. status' \in [Subscribers -> {"running", "ok", "failed"}]
  BY <1>2, Zenon DEF TcpType
<1>8. link' \in [Subscribers -> {"none", "open", "closed", "left"}]
  BY <1>2 DEF TcpType
<1> QED
  BY <1>6, <1>7, <1>8, Zenon DEF TcpType, PrintLine, serverVars, castVars

(* Every step keeps the type. *)
LEMMA NextType == TcpType /\ [Next]_tcpVars => TcpType'
<1> SUFFICES ASSUME TcpType, [Next]_tcpVars PROVE TcpType'
  OBVIOUS
<1>1. CASE AcceptReady
  <2>1. Head(backlog) \in Subscribers /\ Tail(backlog) \in Seq(Subscribers)
    BY <1>1, HeadTailProperties DEF AcceptReady, TcpType
  <2>2. Append(clients, Head(backlog)) \in Seq(Subscribers)
    BY <2>1, AppendProperties DEF TcpType
  <2> QED
    BY <1>1, <2>1, <2>2 DEF TcpType, AcceptReady, castVars, subVars
<1>2. CASE AcceptThrows
  <2>1. <<>> \in Seq(Subscribers)
    BY EmptySeq
  <2>2. link' \in [Subscribers -> {"none", "open", "closed", "left"}]
    BY <1>2 DEF TcpType, AcceptThrows
  <2>3. due' \subseteq Subscribers /\ holder' \in Workers \cup {"none"} /\ up' \in BOOLEAN
    BY <1>2, Zenon DEF AcceptThrows
  <2> QED
    BY <1>2, <2>1, <2>2, <2>3 DEF TcpType, AcceptThrows, subVars
<1>3. ASSUME NEW w \in Workers, WorkerTakes(w) PROVE TcpType'
  BY <1>3 DEF TcpType, WorkerTakes, serverVars, subVars
<1>4. ASSUME NEW w \in Workers, Lock(w) PROVE TcpType'
  <2>1. Range(clients) \subseteq Subscribers
    BY RangeOfSeq DEF TcpType
  <2> QED
    BY <1>4, <2>1 DEF TcpType, Lock, serverVars, subVars
<1>5. ASSUME NEW w \in Workers, SendLine(w) PROVE TcpType'
  BY <1>5, SendLineType
<1>6. ASSUME NEW w \in Workers, Unlock(w) PROVE TcpType'
  BY <1>6 DEF TcpType, Unlock, serverVars, subVars
<1>7. ASSUME NEW s \in Subscribers, Connect(s) PROVE TcpType'
  <2>1. Append(backlog, s) \in Seq(Subscribers)
    BY AppendProperties DEF TcpType
  <2> QED
    BY <1>7, <2>1 DEF TcpType, Connect, castVars, subVars
<1>8. ASSUME NEW s \in Subscribers, Read(s) PROVE TcpType'
  BY <1>8, ReadType
<1>9. ASSUME NEW s \in Subscribers, PrintLine(s) PROVE TcpType'
  BY <1>9, PrintLineType
<1>10. ASSUME NEW s \in Subscribers, Fails(s) PROVE TcpType'
  BY <1>10 DEF TcpType, Fails, serverVars, castVars
<1>11. CASE UNCHANGED tcpVars
  BY <1>11 DEF TcpType, tcpVars, serverVars, castVars, subVars
<1> QED
  BY <1>1, <1>2, <1>3, <1>4, <1>5, <1>6, <1>7, <1>8, <1>9, <1>10, <1>11
  DEF Next, Worker, Finished

(* The type is an invariant. *)
LEMMA TypeAlways == Spec => []TcpType
BY InitType, NextType, PTL DEF Spec

-----------------------------------------------------------------------------
(***************************************************************************)
(* Where the workers stand in clients_: a worker without the mutex starts  *)
(* at the first client, and whoever holds it has before it all the clients *)
(* that its broadcast has still to serve.                                  *)
(***************************************************************************)
Turns ==
    /\ up => \A w \in Workers : holder # w => it[w] = 1
    /\ holder = "none" => due = {}
    /\ \A w \in Workers : holder = w =>
           \A s \in due : \E i \in it[w]..Len(clients) : clients[i] = s

LEMMA InitTurns == Init => Turns
BY TcpAssumption DEF Init, Turns

(***************************************************************************)
(* What a send does: whom it reaches, and whether it keeps the client and  *)
(* moves on or erases it and stays where it is.                            *)
(***************************************************************************)
LEMMA SendEffect ==
    ASSUME TcpType, NEW w \in Workers, SendLine(w)
    PROVE  \E s \in Subscribers, n \in 0..LineBytes :
               /\ it[w] \in 1..Len(clients) /\ s = clients[it[w]]
               /\ up /\ up' = up /\ holder = w /\ holder' = w /\ due' = due \ {s}
               /\ UNCHANGED <<backlog, line, taken, pending, printed, status>>
               /\ \A v \in Workers : v # w => it'[v] = it[v]
               /\ wire' = [wire EXCEPT ![s] = IF link[s] = "left" THEN @
                                              ELSE @ \o SubSeq(LineOf(line[w]), 1, n)]
               /\ \/ /\ n \in {0, LineBytes} /\ it'[w] = it[w] + 1
                     /\ clients' = clients /\ link' = link
                  \/ /\ it'[w] = it[w] /\ clients' = RemoveAt(clients, it[w])
                     /\ link' = [link EXCEPT ![s] = IF @ = "open" THEN "closed" ELSE @]
<1>1. it[w] \in 1..Len(clients) /\ clients[it[w]] \in Subscribers
  <2>1. Len(clients) \in Nat /\ it[w] \in Nat \ {0} /\ it[w] <= Len(clients)
    BY LenProperties DEF SendLine, TcpType
  <2>2. it[w] \in 1..Len(clients)
    BY <2>1
  <2> QED
    BY <2>2, ElementOfSeq DEF TcpType
<1>2. PICK s \in Subscribers : s = clients[it[w]]
  BY <1>1
<1>3. PICK n \in 0..LineBytes :
          /\ wire' = [wire EXCEPT ![s] = IF link[s] = "left" THEN @
                                         ELSE @ \o SubSeq(LineOf(line[w]), 1, n)]
          /\ it' = [it EXCEPT ![w] = IF Keeps(s, n) THEN @ + 1 ELSE @]
          /\ due' = due \ {s}
          /\ IF Keeps(s, n) THEN UNCHANGED <<clients, link>>
             ELSE /\ clients' = RemoveAt(clients, it[w])
                  /\ link' = [link EXCEPT ![s] = IF @ = "open" THEN "closed" ELSE @]
  BY <1>2, Zenon DEF SendLine, Advance
<1>4. /\ up /\ up' = up /\ holder = w /\ holder' = w
      /\ UNCHANGED <<backlog, line, taken, pending, printed, status>>
  BY DEF SendLine, HoldsMutex, subVars
<1>5. /\ \A v \in Workers : v # w => it'[v] = it[v]
      /\ it'[w] = IF Keeps(s, n) THEN it[w] + 1 ELSE it[w]
  BY <1>3 DEF TcpType
<1>6. CASE Keeps(s, n)
  <2>1. n \in {0, LineBytes}
    BY <1>6 DEF Keeps
  <2>2. it'[w] = it[w] + 1 /\ clients' = clients /\ link' = link
    BY <1>3, <1>5, <1>6
  <2> QED
    BY <1>1, <1>2, <1>3, <1>4, <1>5, <2>1, <2>2, Zenon
<1>7. CASE ~Keeps(s, n)
  <2>1. /\ it'[w] = it[w] /\ clients' = RemoveAt(clients, it[w])
        /\ link' = [link EXCEPT ![s] = IF @ = "open" THEN "closed" ELSE @]
    BY <1>3, <1>5, <1>7
  <2> QED
    BY <1>1, <1>2, <1>3, <1>4, <1>5, <2>1, Zenon
<1> QED
  BY <1>6, <1>7, Zenon

(* A client behind the one just served is still ahead of the worker. *)
LEMMA StillAhead ==
    ASSUME NEW c \in Seq(Subscribers), NEW k \in 1..Len(c), NEW s \in Subscribers,
           NEW i \in k..Len(c), c[i] = s, s # c[k]
    PROVE  /\ \E j \in (k + 1)..Len(c) : c[j] = s
           /\ \E j \in k..Len(RemoveAt(c, k)) : RemoveAt(c, k)[j] = s
<1>1. Len(c) \in Nat /\ k \in Nat /\ 1 <= k
  BY LenProperties
<1>2. i \in (k + 1)..Len(c)
  BY <1>1
<1>3. Len(RemoveAt(c, k)) = Len(c) - 1
  BY RemoveAtProperties
<1>4. /\ i - 1 \in 1..(Len(c) - 1) /\ ~(i - 1 < k) /\ (i - 1) + 1 = i
      /\ i - 1 \in k..(Len(c) - 1)
  BY <1>1, <1>2
<1>5. RemoveAt(c, k)[i - 1] = c[i]
  BY <1>4, RemoveAtProperties, Zenon
<1> QED
  BY <1>2, <1>3, <1>4, <1>5

(* Every step keeps it. *)
LEMMA NextTurns == TcpType /\ Turns /\ [Next]_tcpVars => Turns'
<1> SUFFICES ASSUME TcpType, Turns, [Next]_tcpVars PROVE Turns'
  OBVIOUS
<1>0. \A w \in Workers : w # "none"
  BY TcpAssumption
<1>1. CASE AcceptReady
  BY <1>0, <1>1 DEF AcceptReady, Turns, castVars
<1>2. CASE AcceptThrows
  BY <1>0, <1>2 DEF AcceptThrows, Turns
<1>3. ASSUME NEW w \in Workers, WorkerTakes(w) PROVE Turns'
  BY <1>3 DEF WorkerTakes, Turns, serverVars
<1>4. ASSUME NEW w \in Workers, Lock(w) PROVE Turns'
  <2>1. holder = "none" /\ holder' = w /\ due' = Range(clients) /\ up' = up /\ up
        /\ it' = it /\ clients' = clients
    BY <1>4 DEF Lock, serverVars
  <2>2. \A v \in Workers : it[v] = 1
    BY <1>0, <2>1 DEF Turns
  <2>3. DOMAIN clients = 1..Len(clients)
    BY LenProperties DEF TcpType
  <2>4. \A s \in due' : \E i \in it'[w]..Len(clients') : clients'[i] = s
    BY <2>1, <2>2, <2>3 DEF Range
  <2> QED
    BY <1>0, <2>1, <2>2, <2>4 DEF Turns
<1>5. ASSUME NEW w \in Workers, SendLine(w) PROVE Turns'
  <2>1. PICK s \in Subscribers :
            /\ it[w] \in 1..Len(clients) /\ s = clients[it[w]]
            /\ up /\ up' = up /\ holder = w /\ holder' = w /\ due' = due \ {s}
            /\ \A v \in Workers : v # w => it'[v] = it[v]
            /\ \/ it'[w] = it[w] + 1 /\ clients' = clients
               \/ it'[w] = it[w] /\ clients' = RemoveAt(clients, it[w])
    BY <1>5, SendEffect
  <2>2. clients \in Seq(Subscribers) /\ due \subseteq Subscribers
    BY DEF TcpType
  <2>3. ASSUME NEW d \in due' PROVE \E i \in it'[w]..Len(clients') : clients'[i] = d
    <3>1. d \in due /\ d # s /\ d \in Subscribers
      BY <2>1, <2>2, <2>3
    <3>2. PICK i \in it[w]..Len(clients) : clients[i] = d
      BY <2>1, <3>1 DEF Turns
    <3>3. /\ \E j \in (it[w] + 1)..Len(clients) : clients[j] = d
          /\ \E j \in it[w]..Len(RemoveAt(clients, it[w])) : RemoveAt(clients, it[w])[j] = d
      BY <2>1, <2>2, <3>1, <3>2, StillAhead
    <3> QED
      BY <2>1, <3>3
  <2>4. \A v \in Workers : holder' # v => it'[v] = 1
    BY <2>1 DEF Turns
  <2> QED
    BY <1>0, <2>1, <2>3, <2>4 DEF Turns
<1>6. ASSUME NEW w \in Workers, Unlock(w) PROVE Turns'
  <2>1. /\ up' = up /\ up /\ holder = w /\ holder' = "none" /\ due' = due
        /\ it[w] > Len(clients) /\ it' = [it EXCEPT ![w] = 1]
    BY <1>6 DEF Unlock, HoldsMutex, serverVars
  <2>2. Len(clients) \in Nat /\ it[w] \in Nat
    BY LenProperties DEF TcpType
  <2>3. it[w]..Len(clients) = {}
    BY <2>1, <2>2
  <2>4. due = {}
    BY <2>1, <2>3 DEF Turns
  <2>5. \A v \in Workers : it'[v] = 1
    BY <2>1 DEF Turns, TcpType
  <2> QED
    BY <1>0, <2>1, <2>4, <2>5 DEF Turns
<1>7. ASSUME NEW s \in Subscribers, Connect(s) \/ Read(s) \/ PrintLine(s) \/ Fails(s)
      PROVE  Turns'
  BY <1>7 DEF Connect, Read, PrintLine, Fails, Turns, serverVars, castVars
<1>8. CASE UNCHANGED tcpVars
  BY <1>8 DEF Turns, tcpVars, serverVars, castVars
<1> QED
  BY <1>1, <1>2, <1>3, <1>4, <1>5, <1>6, <1>7, <1>8 DEF Next, Worker, Finished

(* So it is an invariant. *)
LEMMA TurnsAlways == Spec => []Turns
BY InitTurns, NextTurns, TypeAlways, PTL DEF Spec

(***************************************************************************)
(* A broadcast offers its line to every client it found: the loop neither  *)
(* skips the client after one that it erases, nor ends early.              *)
(***************************************************************************)
THEOREM EveryClientAlwaysServed == Spec => []EveryClientServed
<1>1. Turns => EveryClientServed
  BY DEF Turns, EveryClientServed
<1> QED
  BY <1>1, TurnsAlways, PTL

-----------------------------------------------------------------------------
(***************************************************************************)
(* A connection is at most once in the backlog or in clients_, and only    *)
(* after connect: an erased client does not come back.                     *)
(***************************************************************************)
Queued ==
    /\ IsInjective(clients) /\ IsInjective(backlog)
    /\ \A s \in Subscribers : ~(Contains(backlog, s) /\ Contains(clients, s))
    /\ \A s \in Subscribers : link[s] = "none" => ~Contains(backlog, s) /\ ~Contains(clients, s)

(* Distinct members stay distinct when one is erased, added or taken off. *)
LEMMA RemoveAtDistinct ==
    ASSUME NEW c \in Seq(Subscribers), NEW k \in 1..Len(c), IsInjective(c)
    PROVE  /\ IsInjective(RemoveAt(c, k))
           /\ \A x : Contains(RemoveAt(c, k), x) => Contains(c, x) /\ x # c[k]
<1> DEFINE d == RemoveAt(c, k)
<1>1. Len(c) \in Nat /\ DOMAIN c = 1..Len(c) /\ k \in Nat
  BY LenProperties
<1>2. DOMAIN d = 1..Len(d)
  BY RemoveAtProperties, LenProperties
<1>3. ASSUME NEW i \in 1..Len(d), NEW j \in 1..Len(d), d[i] = d[j] PROVE i = j
  <2>1. PICK u \in 1..Len(c) : u = (IF i < k THEN i ELSE i + 1) /\ d[i] = c[u]
    BY RemoveAtMember
  <2>2. PICK v \in 1..Len(c) : v = (IF j < k THEN j ELSE j + 1) /\ d[j] = c[v]
    BY RemoveAtMember
  <2>3. u = v
    BY <1>1, <1>3, <2>1, <2>2, Zenon DEF IsInjective
  <2> HIDE DEF d
  <2> QED
    BY <1>1, <2>1, <2>2, <2>3
<1>4. ASSUME NEW x, NEW i \in 1..Len(d), d[i] = x PROVE Contains(c, x) /\ x # c[k]
  <2>1. PICK u \in 1..Len(c) : u # k /\ d[i] = c[u]
    BY RemoveAtMember
  <2> QED
    BY <1>1, <1>4, <2>1 DEF IsInjective, Contains
<1> QED
  BY <1>2, <1>3, <1>4 DEF IsInjective, Contains

LEMMA AppendDistinct ==
    ASSUME NEW c \in Seq(Subscribers), NEW x \in Subscribers
    PROVE  /\ IsInjective(c) /\ ~Contains(c, x) => IsInjective(Append(c, x))
           /\ \A y : Contains(Append(c, x), y) <=> Contains(c, y) \/ y = x
<1> DEFINE d == Append(c, x)
<1>1. /\ Len(c) \in Nat /\ DOMAIN c = 1..Len(c) /\ Len(d) = Len(c) + 1
      /\ DOMAIN d = 1..(Len(c) + 1) /\ d[Len(c) + 1] = x
      /\ \A i \in 1..Len(c) : d[i] = c[i]
  BY AppendProperties, LenProperties
<1> HIDE DEF d
<1>2. 1..(Len(c) + 1) = 1..Len(c) \cup {Len(c) + 1} /\ Len(c) + 1 \notin 1..Len(c)
  BY <1>1
<1>3. ASSUME IsInjective(c), ~Contains(c, x) PROVE IsInjective(d)
  BY <1>1, <1>2, <1>3 DEF IsInjective, Contains
<1>4. ASSUME NEW y PROVE Contains(d, y) <=> Contains(c, y) \/ y = x
  BY <1>1, <1>2 DEF Contains
<1> QED
  BY <1>3, <1>4 DEF d

LEMMA TailDistinct ==
    ASSUME NEW b \in Seq(Subscribers), b # <<>>, IsInjective(b)
    PROVE  /\ IsInjective(Tail(b)) /\ Contains(b, Head(b))
           /\ \A y : Contains(Tail(b), y) => Contains(b, y) /\ y # Head(b)
<1>1. /\ Len(b) \in Nat /\ Len(b) # 0 /\ DOMAIN b = 1..Len(b)
      /\ Len(Tail(b)) = Len(b) - 1 /\ DOMAIN Tail(b) = 1..Len(Tail(b))
      /\ \A i \in 1..Len(Tail(b)) : Tail(b)[i] = b[i + 1]
  BY HeadTailProperties, LenProperties, EmptySeq
<1>2. Head(b) = b[1] /\ 1 \in 1..Len(b)
  BY <1>1
<1>3. ASSUME NEW i \in 1..Len(Tail(b)), NEW j \in 1..Len(Tail(b)), Tail(b)[i] = Tail(b)[j]
      PROVE  i = j
  <2>1. i + 1 \in 1..Len(b) /\ j + 1 \in 1..Len(b)
    BY <1>1
  <2>2. i + 1 = j + 1
    BY <1>1, <1>3, <2>1 DEF IsInjective
  <2> QED
    BY <2>2
<1>4. ASSUME NEW y, NEW i \in 1..Len(Tail(b)), Tail(b)[i] = y
      PROVE  Contains(b, y) /\ y # Head(b)
  <2>1. i + 1 \in 1..Len(b) /\ i + 1 # 1
    BY <1>1
  <2> QED
    BY <1>1, <1>2, <1>4, <2>1 DEF IsInjective, Contains
<1> QED
  BY <1>1, <1>2, <1>3, <1>4 DEF IsInjective, Contains

(* An empty sequence has no members. *)
LEMMA EmptyDistinct == IsInjective(<<>>) /\ \A x : ~Contains(<<>>, x)
<1>1. Len(<<>>) = 0 /\ DOMAIN << >> = {} /\ 1..0 = {}
  BY EmptySeq
<1> QED
  BY <1>1 DEF IsInjective, Contains

LEMMA InitQueued == Init => Queued
BY EmptyDistinct DEF Init, Queued

(* Every step keeps it. *)
LEMMA NextQueued == TcpType /\ Queued /\ [Next]_tcpVars => Queued'
<1> SUFFICES ASSUME TcpType, Queued, [Next]_tcpVars PROVE Queued'
  OBVIOUS
<1>0. clients \in Seq(Subscribers) /\ backlog \in Seq(Subscribers)
  BY DEF TcpType
<1>1. CASE AcceptReady
  <2>1. /\ backlog # <<>> /\ link' = link
        /\ clients' = Append(clients, Head(backlog)) /\ backlog' = Tail(backlog)
    BY <1>1 DEF AcceptReady
  <2>2. PICK s \in Subscribers : s = Head(backlog)
    BY <1>0, <2>1, HeadTailProperties
  <2>3. /\ IsInjective(Tail(backlog)) /\ Contains(backlog, s)
        /\ \A y : Contains(Tail(backlog), y) => Contains(backlog, y) /\ y # s
    BY <1>0, <2>1, <2>2, TailDistinct DEF Queued
  <2>4. ~Contains(clients, s)
    BY <2>3 DEF Queued
  <2>5. /\ IsInjective(Append(clients, s))
        /\ \A y : Contains(Append(clients, s), y) <=> Contains(clients, y) \/ y = s
    BY <1>0, <2>4, AppendDistinct DEF Queued
  <2>6. /\ IsInjective(clients') /\ IsInjective(backlog')
        /\ \A y : Contains(backlog', y) => Contains(backlog, y) /\ y # s
        /\ \A y : Contains(clients', y) <=> Contains(clients, y) \/ y = s
    BY <2>1, <2>2, <2>3, <2>5
  <2> QED
    BY <2>1, <2>3, <2>6 DEF Queued
<1>2. CASE AcceptThrows
  <2>1. backlog' = <<>> /\ clients' = <<>>
    BY <1>2 DEF AcceptThrows
  <2> QED
    BY <2>1, EmptyDistinct DEF Queued
<1>3. ASSUME NEW w \in Workers, WorkerTakes(w) \/ Lock(w) \/ Unlock(w) PROVE Queued'
  BY <1>3 DEF WorkerTakes, Lock, Unlock, Queued, serverVars
<1>4. ASSUME NEW w \in Workers, SendLine(w) PROVE Queued'
  <2>1. PICK s \in Subscribers :
            /\ it[w] \in 1..Len(clients) /\ backlog' = backlog
            /\ \/ clients' = clients /\ link' = link
               \/ /\ clients' = RemoveAt(clients, it[w])
                  /\ link' = [link EXCEPT ![s] = IF @ = "open" THEN "closed" ELSE @]
    BY <1>4, SendEffect
  <2>2. /\ IsInjective(RemoveAt(clients, it[w]))
        /\ \A x : Contains(RemoveAt(clients, it[w]), x) => Contains(clients, x)
    BY <1>0, <2>1, RemoveAtDistinct DEF Queued
  <2>3. IsInjective(clients') /\ \A x : Contains(clients', x) => Contains(clients, x)
    BY <2>1, <2>2 DEF Queued
  <2>4. \A x \in Subscribers : link'[x] = "none" => link[x] = "none"
    BY <2>1, Zenon DEF TcpType
  <2> QED
    BY <2>1, <2>3, <2>4 DEF Queued
<1>5. ASSUME NEW s \in Subscribers, Connect(s) PROVE Queued'
  <2>1. /\ link[s] = "none" /\ link' = [link EXCEPT ![s] = "open"]
        /\ backlog' = Append(backlog, s) /\ clients' = clients
    BY <1>5 DEF Connect
  <2>2. ~Contains(backlog, s) /\ ~Contains(clients, s)
    BY <2>1 DEF Queued
  <2>3. /\ IsInjective(backlog')
        /\ \A y : Contains(backlog', y) <=> Contains(backlog, y) \/ y = s
    BY <1>0, <2>1, <2>2, AppendDistinct DEF Queued
  <2>4. \A x \in Subscribers : link'[x] = "none" => link[x] = "none" /\ x # s
    BY <2>1 DEF TcpType
  <2> QED
    BY <2>1, <2>2, <2>3, <2>4 DEF Queued
<1>6. ASSUME NEW s \in Subscribers, Read(s) \/ PrintLine(s) \/ Fails(s) PROVE Queued'
  <2>1. clients' = clients /\ backlog' = backlog
    BY <1>6 DEF Read, PrintLine, Fails, serverVars
  <2>2. \A x \in Subscribers : link'[x] = "none" => link[x] = "none"
    BY <1>6 DEF Read, PrintLine, Fails, TcpType
  <2> QED
    BY <2>1, <2>2 DEF Queued
<1>7. CASE UNCHANGED tcpVars
  BY <1>7 DEF Queued, tcpVars, serverVars
<1> QED
  BY <1>1, <1>2, <1>3, <1>4, <1>5, <1>6, <1>7 DEF Next, Worker, Finished

(* So it is an invariant. *)
LEMMA QueuedAlways == Spec => []Queued
BY InitQueued, NextQueued, TypeAlways, PTL DEF Spec

-----------------------------------------------------------------------------
(***************************************************************************)
(* The streams.  Each is made of lines and has no byte twice; until the    *)
(* daemon drops the connection it ends with a whole line.                  *)
(***************************************************************************)
Whole(s) ==
    link[s] = "none" \/ Contains(backlog, s) \/ Contains(clients, s)

Streams ==
    \A s \in Subscribers :
        /\ IsLines(Received(s)) /\ IsInjective(Received(s))
        /\ Whole(s) => IsMultiple(Len(Received(s)))

(* What was printed is whole lines. *)
Printed ==
    \A s \in Subscribers :
        /\ IsMultiple(Len(FlattenSeq(printed[s])))
        /\ \A i \in 1..Len(printed[s]) : Len(printed[s][i]) = LineBytes

(***************************************************************************)
(* While the daemon runs, no two workers have the same line; a line whose  *)
(* worker waits for the mutex is in no stream; that of the holder is in no *)
(* stream of a client that is still ahead of it, and where it is, it is    *)
(* the last line.                                                          *)
(***************************************************************************)
Fresh ==
    up =>
        /\ \A s \in Subscribers : Upto(Received(s), taken)
        /\ \A w \in Workers : line[w] <= taken
        /\ \A v, w \in Workers : line[v] = line[w] /\ line[v] # 0 => v = w
        /\ \A w \in Workers : holder # w /\ line[w] # 0 =>
               \A s \in Subscribers : NoByteOf(Received(s), line[w])
        /\ \A w \in Workers : holder = w =>
               /\ line[w] # 0
               /\ \A s \in Subscribers : LastLine(Received(s), line[w])
               /\ \A s \in Subscribers :
                      (\E i \in it[w]..Len(clients) : clients[i] = s) =>
                          NoByteOf(Received(s), line[w])

(* No two streams show two lines in different orders. *)
Orders == \A s, t \in Subscribers : NoInversion(Received(s), Received(t))

(* A stream is a sequence of bytes. *)
LEMMA ReceivedType ==
    ASSUME TcpType PROVE \A s \in Subscribers : Received(s) \in Seq(Byte)
<1> TAKE s \in Subscribers
<1>1. FlattenSeq(printed[s]) \in Seq(Byte)
  BY FlattenType DEF TcpType
<1>2. FlattenSeq(printed[s]) \o pending[s] \in Seq(Byte)
  BY <1>1, ConcatProperties DEF TcpType
<1> QED
  BY <1>2, ConcatProperties DEF TcpType, Received

(* Reading and printing move bytes; they do not change the stream. *)
LEMMA ReadStream ==
    ASSUME TcpType, NEW s \in Subscribers, Read(s)
    PROVE  \A t \in Subscribers : Received(t)' = Received(t)
<1>1. PICK n \in 1..Len(wire[s]) :
          /\ pending' = [pending EXCEPT ![s] = @ \o SubSeq(wire[s], 1, n)]
          /\ wire' = [wire EXCEPT ![s] = SubSeq(@, n + 1, Len(@))]
          /\ printed' = printed
  BY Zenon DEF Read
<1>2. FlattenSeq(printed[s]) \in Seq(Byte) /\ pending[s] \in Seq(Byte) /\ wire[s] \in Seq(Byte)
  BY FlattenType DEF TcpType
<1>3. Received(s)' = Received(s)
  <2>1. /\ pending'[s] = pending[s] \o SubSeq(wire[s], 1, n)
        /\ wire'[s] = SubSeq(wire[s], n + 1, Len(wire[s])) /\ printed'[s] = printed[s]
    BY <1>1 DEF TcpType
  <2>2. (FlattenSeq(printed[s]) \o (pending[s] \o SubSeq(wire[s], 1, n)))
            \o SubSeq(wire[s], n + 1, Len(wire[s]))
          = (FlattenSeq(printed[s]) \o pending[s]) \o wire[s]
    <3>1. ReadMoves(FlattenSeq(printed[s]), pending[s], wire[s], n)
      BY <1>2, ReadKeepsStream, Zenon
    <3> QED
      BY <3>1, Zenon DEF ReadMoves
  <2>3. Received(s)' = (FlattenSeq(printed[s]) \o (pending[s] \o SubSeq(wire[s], 1, n)))
                           \o SubSeq(wire[s], n + 1, Len(wire[s]))
    BY <2>1, Zenon DEF Received
  <2>4. Received(s) = (FlattenSeq(printed[s]) \o pending[s]) \o wire[s]
    BY Zenon DEF Received
  <2> QED
    BY <2>2, <2>3, <2>4, Zenon
<1>4. ASSUME NEW t \in Subscribers, t # s PROVE Received(t)' = Received(t)
  BY <1>1, <1>4, Zenon DEF TcpType, Received
<1> QED
  BY <1>3, <1>4

LEMMA PrintStream ==
    ASSUME TcpType, NEW s \in Subscribers, PrintLine(s)
    PROVE  \A t \in Subscribers : Received(t)' = Received(t)
<1>1. PICK pos \in 1..Len(pending[s]) : pos = Min(Newlines(s))
  BY FirstOfNewlines
<1>2. /\ printed' = [printed EXCEPT ![s] = Append(@, SubSeq(pending[s], 1, pos))]
      /\ pending' = [pending EXCEPT ![s] = SubSeq(@, pos + 1, Len(@))]
      /\ wire' = wire
  BY <1>1 DEF PrintLine
<1>3. /\ FlattenSeq(printed[s]) \in Seq(Byte) /\ pending[s] \in Seq(Byte)
      /\ wire[s] \in Seq(Byte) /\ printed[s] \in Seq(Seq(Byte))
  BY FlattenType DEF TcpType
<1>4. Received(s)' = Received(s)
  <2>1. /\ printed'[s] = Append(printed[s], SubSeq(pending[s], 1, pos))
        /\ pending'[s] = SubSeq(pending[s], pos + 1, Len(pending[s])) /\ wire'[s] = wire[s]
    BY <1>2 DEF TcpType
  <2>2. SubSeq(pending[s], 1, pos) \in Seq(Byte)
    BY <1>3, CutSeq
  <2>3. FlattenSeq(printed'[s]) = FlattenSeq(printed[s]) \o SubSeq(pending[s], 1, pos)
    BY <1>3, <2>1, <2>2, FlattenAppend, Zenon
  <2>4. ((FlattenSeq(printed[s]) \o SubSeq(pending[s], 1, pos))
            \o SubSeq(pending[s], pos + 1, Len(pending[s]))) \o wire[s]
          = (FlattenSeq(printed[s]) \o pending[s]) \o wire[s]
    <3>1. PrintMoves(FlattenSeq(printed[s]), pending[s], wire[s], pos)
      BY <1>3, PrintKeepsStream, Zenon
    <3> QED
      BY <3>1, Zenon DEF PrintMoves
  <2> QED
    BY <2>1, <2>3, <2>4, Zenon DEF Received
<1>5. ASSUME NEW t \in Subscribers, t # s PROVE Received(t)' = Received(t)
  BY <1>2, <1>5 DEF TcpType, Received
<1> QED
  BY <1>4, <1>5

(* Only a send changes a stream. *)
LEMMA StreamsAtRest ==
    ASSUME TcpType, [Next]_tcpVars, \A w \in Workers : ~SendLine(w)
    PROVE  \A s \in Subscribers : Received(s)' = Received(s)
<1>1. CASE UNCHANGED <<wire, pending, printed>>
  BY <1>1 DEF Received
<1>2. CASE AcceptReady \/ AcceptThrows \/ UNCHANGED tcpVars
  <2>1. UNCHANGED <<wire, pending, printed>>
    BY <1>2 DEF AcceptReady, AcceptThrows, tcpVars, subVars
  <2> QED
    BY <1>1, <2>1
<1>3. ASSUME NEW w \in Workers, WorkerTakes(w) \/ Lock(w) \/ Unlock(w)
      PROVE  \A s \in Subscribers : Received(s)' = Received(s)
  <2>1. UNCHANGED <<wire, pending, printed>>
    BY <1>3 DEF WorkerTakes, Lock, Unlock, subVars
  <2> QED
    BY <1>1, <2>1
<1>4. ASSUME NEW t \in Subscribers, Connect(t) \/ Fails(t)
      PROVE  \A s \in Subscribers : Received(s)' = Received(s)
  <2>1. UNCHANGED <<wire, pending, printed>>
    BY <1>4 DEF Connect, Fails, subVars
  <2> QED
    BY <1>1, <2>1
<1>5. ASSUME NEW t \in Subscribers, Read(t)
      PROVE  \A s \in Subscribers : Received(s)' = Received(s)
  BY <1>5, ReadStream
<1>6. ASSUME NEW t \in Subscribers, PrintLine(t)
      PROVE  \A s \in Subscribers : Received(s)' = Received(s)
  BY <1>6, PrintStream
<1> QED
  BY <1>2, <1>3, <1>4, <1>5, <1>6 DEF Next, Worker, Finished

(* A send adds the first bytes of the line to the stream of one client. *)
LEMMA SendStream ==
    ASSUME TcpType, NEW w \in Workers, SendLine(w)
    PROVE  \E s \in Subscribers, n \in 0..LineBytes :
               /\ it[w] \in 1..Len(clients) /\ s = clients[it[w]]
               /\ up /\ up' = up /\ holder = w /\ holder' = w
               /\ UNCHANGED <<backlog, line, taken, printed>>
               /\ \A v \in Workers : v # w => it'[v] = it[v]
               /\ \A t \in Subscribers : t # s => Received(t)' = Received(t)
               /\ Received(s)' \in {Received(s), Sent(Received(s), line[w], n)}
               /\ \/ /\ n \in {0, LineBytes} /\ it'[w] = it[w] + 1
                     /\ clients' = clients /\ link' = link
                  \/ /\ it'[w] = it[w] /\ clients' = RemoveAt(clients, it[w])
                     /\ link' = [link EXCEPT ![s] = IF @ = "open" THEN "closed" ELSE @]
<1>1. PICK s \in Subscribers, n \in 0..LineBytes :
          /\ it[w] \in 1..Len(clients) /\ s = clients[it[w]]
          /\ up /\ up' = up /\ holder = w /\ holder' = w /\ due' = due \ {s}
          /\ UNCHANGED <<backlog, line, taken, pending, printed, status>>
          /\ \A v \in Workers : v # w => it'[v] = it[v]
          /\ wire' = [wire EXCEPT ![s] = IF link[s] = "left" THEN @
                                         ELSE @ \o SubSeq(LineOf(line[w]), 1, n)]
          /\ \/ /\ n \in {0, LineBytes} /\ it'[w] = it[w] + 1
                /\ clients' = clients /\ link' = link
             \/ /\ it'[w] = it[w] /\ clients' = RemoveAt(clients, it[w])
                /\ link' = [link EXCEPT ![s] = IF @ = "open" THEN "closed" ELSE @]
  BY SendEffect
<1>2. \A t \in Subscribers : t # s => Received(t)' = Received(t)
  <2> SUFFICES ASSUME NEW t \in Subscribers, t # s PROVE Received(t)' = Received(t)
    OBVIOUS
  <2>1. wire'[t] = wire[t] /\ pending'[t] = pending[t] /\ printed'[t] = printed[t]
    BY <1>1 DEF TcpType
  <2> QED
    BY <2>1 DEF Received
<1>3. Received(s)' \in {Received(s), Sent(Received(s), line[w], n)}
  <2>1. /\ wire[s] \in Seq(Byte) /\ line[w] \in Nat
        /\ FlattenSeq(printed[s]) \o pending[s] \in Seq(Byte)
    <3>1. FlattenSeq(printed[s]) \in Seq(Byte) /\ pending[s] \in Seq(Byte)
      BY FlattenType DEF TcpType
    <3> QED
      BY <3>1, ConcatProperties DEF TcpType
  <2>2. \/ wire'[s] = wire[s]
        \/ wire'[s] = wire[s] \o SubSeq(LineOf(line[w]), 1, n)
    BY <1>1, Zenon DEF TcpType
  <2>3. pending'[s] = pending[s] /\ printed'[s] = printed[s]
    BY <1>1
  <2>4. CASE wire'[s] = wire[s]
    BY <2>3, <2>4 DEF Received
  <2>5. CASE wire'[s] = wire[s] \o SubSeq(LineOf(line[w]), 1, n)
    <3>1. (FlattenSeq(printed[s]) \o pending[s]) \o (wire[s] \o SubSeq(LineOf(line[w]), 1, n))
            = Sent((FlattenSeq(printed[s]) \o pending[s]) \o wire[s], line[w], n)
      BY <2>1, SendExtendsStream, Zenon
    <3> QED
      BY <2>3, <2>5, <3>1, Zenon DEF Received
  <2> QED
    BY <2>2, <2>4, <2>5
<1> QED
  BY <1>1, <1>2, <1>3

(* A connection the daemon has not dropped was not dropped before. *)
LEMMA WholeAtRest ==
    ASSUME TcpType, Queued, [Next]_tcpVars, \A w \in Workers : ~SendLine(w),
           NEW s \in Subscribers, Whole(s)'
    PROVE  Whole(s)
<1>0. clients \in Seq(Subscribers) /\ backlog \in Seq(Subscribers)
  BY DEF TcpType
<1>1. CASE AcceptReady
  <2>1. /\ backlog # <<>> /\ link' = link
        /\ clients' = Append(clients, Head(backlog)) /\ backlog' = Tail(backlog)
    BY <1>1 DEF AcceptReady
  <2>2. /\ Contains(backlog, Head(backlog)) /\ Head(backlog) \in Subscribers
        /\ \A y : Contains(Tail(backlog), y) => Contains(backlog, y)
    BY <1>0, <2>1, TailDistinct, HeadTailProperties DEF Queued
  <2>3. \A y : Contains(Append(clients, Head(backlog)), y) <=>
                   Contains(clients, y) \/ y = Head(backlog)
    BY <1>0, <2>2, AppendDistinct
  <2> QED
    BY <2>1, <2>2, <2>3 DEF Whole
<1>2. CASE AcceptThrows
  <2>1. backlog' = <<>> /\ clients' = <<>> /\ (link'[s] = "none" => link[s] = "none")
    BY <1>2 DEF AcceptThrows
  <2> QED
    BY <2>1, EmptyDistinct DEF Whole
<1>3. ASSUME NEW t \in Subscribers, Connect(t) PROVE Whole(s)
  <2>1. /\ link[t] = "none" /\ link' = [link EXCEPT ![t] = "open"]
        /\ backlog' = Append(backlog, t) /\ clients' = clients
    BY <1>3 DEF Connect
  <2>2. \A y : Contains(backlog', y) <=> Contains(backlog, y) \/ y = t
    BY <1>0, <2>1, AppendDistinct
  <2>3. link'[s] = "none" => link[s] = "none"
    BY <2>1 DEF TcpType
  <2> QED
    BY <2>1, <2>2, <2>3 DEF Whole
<1>4. ASSUME clients' = clients, backlog' = backlog, link'[s] = "none" => link[s] = "none"
      PROVE  Whole(s)
  BY <1>4 DEF Whole
<1>5. ASSUME NEW t \in Subscribers, Read(t) \/ PrintLine(t) \/ Fails(t) PROVE Whole(s)
  <2>1. clients' = clients /\ backlog' = backlog
    BY <1>5 DEF Read, PrintLine, Fails, serverVars
  <2>2. link'[s] = "none" => link[s] = "none"
    BY <1>5 DEF Read, PrintLine, Fails, TcpType
  <2> QED
    BY <1>4, <2>1, <2>2
<1>6. ASSUME NEW w \in Workers, WorkerTakes(w) \/ Lock(w) \/ Unlock(w) PROVE Whole(s)
  <2>1. clients' = clients /\ backlog' = backlog /\ link' = link
    BY <1>6 DEF WorkerTakes, Lock, Unlock, serverVars
  <2> QED
    BY <1>4, <2>1
<1>7. CASE UNCHANGED tcpVars
  <2>1. clients' = clients /\ backlog' = backlog /\ link' = link
    BY <1>7 DEF tcpVars, serverVars
  <2> QED
    BY <1>4, <2>1
<1> QED
  BY <1>1, <1>2, <1>3, <1>5, <1>6, <1>7 DEF Next, Worker, Finished

(* What holds of the client a line is sent to. *)
LEMMA SendTarget ==
    ASSUME TcpType, Streams, Fresh, NEW w \in Workers, NEW s \in Subscribers,
           up, holder = w, it[w] \in 1..Len(clients), s = clients[it[w]]
    PROVE  /\ Received(s) \in Seq(Byte) /\ line[w] \in Nat /\ line[w] <= taken
           /\ Contains(clients, s) /\ IsMultiple(Len(Received(s)))
           /\ NoByteOf(Received(s), line[w])
<1>1. Contains(clients, s)
  BY DEF Contains
<1>2. IsMultiple(Len(Received(s)))
  BY <1>1 DEF Streams, Whole
<1>3. it[w] \in it[w]..Len(clients)
  <2>1. Len(clients) \in Nat
    BY LenProperties DEF TcpType
  <2> QED
    BY <2>1
<1>4. NoByteOf(Received(s), line[w]) /\ line[w] <= taken
  BY <1>3 DEF Fresh
<1> QED
  BY <1>1, <1>2, <1>4, ReceivedType, Zenon DEF TcpType

LEMMA EmptyReceived == Init => \A s \in Subscribers : Received(s) = <<>>
<1> SUFFICES ASSUME Init, NEW s \in Subscribers PROVE Received(s) = <<>>
  OBVIOUS
<1>1. printed[s] = <<>> /\ pending[s] = <<>> /\ wire[s] = <<>>
  BY DEF Init
<1>2. <<>> \in Seq(Byte) /\ <<>> \o <<>> = <<>>
  BY EmptySeq, ConcatEmptySeq
<1> QED
  BY <1>1, <1>2, FlattenEmpty DEF Received

LEMMA InitStreams == Init => Streams
<1> SUFFICES ASSUME Init, NEW s \in Subscribers
             PROVE  /\ IsLines(Received(s)) /\ IsInjective(Received(s))
                    /\ IsMultiple(Len(Received(s)))
  BY DEF Streams
<1>1. Received(s) = <<>> /\ Len(<<>>) = 0 /\ 1..0 = {}
  BY EmptyReceived, EmptySeq
<1> QED
  BY <1>1, EmptyDistinct, MultipleZero DEF IsLines

(* Every step keeps the streams in order. *)
LEMMA NextStreams ==
    TcpType /\ Queued /\ Fresh /\ Streams /\ [Next]_tcpVars => Streams'
<1> SUFFICES ASSUME TcpType, Queued, Fresh, Streams, [Next]_tcpVars PROVE Streams'
  OBVIOUS
<1>1. CASE \A w \in Workers : ~SendLine(w)
  <2> SUFFICES ASSUME NEW s \in Subscribers
               PROVE  /\ IsLines(Received(s)') /\ IsInjective(Received(s)')
                      /\ Whole(s)' => IsMultiple(Len(Received(s)'))
    BY DEF Streams
  <2>1. Received(s)' = Received(s)
    BY <1>1, StreamsAtRest
  <2>2. Whole(s)' => Whole(s)
    BY <1>1, WholeAtRest
  <2> QED
    BY <2>1, <2>2 DEF Streams
<1>2. ASSUME NEW w \in Workers, SendLine(w) PROVE Streams'
  <2>1. PICK s \in Subscribers, n \in 0..LineBytes :
            /\ it[w] \in 1..Len(clients) /\ s = clients[it[w]]
            /\ up /\ holder = w /\ UNCHANGED backlog
            /\ \A t \in Subscribers : t # s => Received(t)' = Received(t)
            /\ Received(s)' \in {Received(s), Sent(Received(s), line[w], n)}
            /\ \/ n \in {0, LineBytes} /\ clients' = clients /\ link' = link
               \/ /\ clients' = RemoveAt(clients, it[w])
                  /\ link' = [link EXCEPT ![s] = IF @ = "open" THEN "closed" ELSE @]
    BY <1>2, SendStream
  <2>2. /\ Received(s) \in Seq(Byte) /\ line[w] \in Nat /\ Contains(clients, s)
        /\ IsMultiple(Len(Received(s))) /\ NoByteOf(Received(s), line[w])
    BY <2>1, SendTarget
  <2>3. IsLines(Received(s)) /\ IsInjective(Received(s)) /\ Len(Received(s)) \in Nat
    BY <2>2, LenProperties DEF Streams
  <2>4. /\ IsLines(Sent(Received(s), line[w], n)) /\ IsInjective(Sent(Received(s), line[w], n))
        /\ Len(Sent(Received(s), line[w], n)) = Len(Received(s)) + n
    BY <2>2, <2>3, SentLines, SentInjective, SentBytes, Zenon
  <2>5. IsLines(Received(s)') /\ IsInjective(Received(s)')
    BY <2>1, <2>3, <2>4
  <2>6. clients \in Seq(Subscribers) /\ link[s] # "none" /\ ~Contains(backlog, s)
    BY <2>2 DEF TcpType, Queued
  <2>7. /\ \A x : Contains(RemoveAt(clients, it[w]), x) => Contains(clients, x) /\ x # s
    BY <2>1, <2>6, RemoveAtDistinct DEF Queued
  <2>8. Whole(s)' => IsMultiple(Len(Received(s)'))
    <3>1. CASE n \in {0, LineBytes}
      <4>1. IsMultiple(Len(Received(s)) + n)
        BY <2>2, <2>3, <3>1, MultipleAdd
      <4> QED
        BY <2>1, <2>2, <2>4, <4>1, Zenon
    <3>2. CASE /\ clients' = RemoveAt(clients, it[w])
               /\ link' = [link EXCEPT ![s] = IF @ = "open" THEN "closed" ELSE @]
      <4>1. link'[s] # "none"
        BY <2>6, <3>2 DEF TcpType
      <4>2. ~Contains(clients', s) /\ ~Contains(backlog', s)
        BY <2>1, <2>6, <2>7, <3>2
      <4> QED
        BY <4>1, <4>2 DEF Whole
    <3> QED
      BY <2>1, <3>1, <3>2
  <2>9. ASSUME NEW t \in Subscribers, t # s, Whole(t)' PROVE Whole(t)
    <3>1. Contains(clients', t) => Contains(clients, t)
      BY <2>1, <2>7
    <3>2. link'[t] = link[t]
      BY <2>1, <2>9, Zenon DEF TcpType
    <3> QED
      BY <2>1, <2>9, <3>1, <3>2 DEF Whole
  <2>10. ASSUME NEW t \in Subscribers
         PROVE  /\ IsLines(Received(t)') /\ IsInjective(Received(t)')
                /\ Whole(t)' => IsMultiple(Len(Received(t)'))
    <3>1. CASE t = s
      BY <2>5, <2>8, <3>1
    <3>2. CASE t # s
      <4>1. Received(t)' = Received(t) /\ (Whole(t)' => Whole(t))
        BY <2>1, <2>9, <3>2
      <4> QED
        BY <4>1 DEF Streams
    <3> QED
      BY <3>1, <3>2
  <2> QED
    BY <2>10 DEF Streams
<1> QED
  BY <1>1, <1>2

LEMMA InitPrinted == Init => Printed
<1> SUFFICES ASSUME Init, NEW s \in Subscribers
             PROVE  /\ IsMultiple(Len(FlattenSeq(printed[s])))
                    /\ \A i \in 1..Len(printed[s]) : Len(printed[s][i]) = LineBytes
  BY DEF Printed
<1>1. printed[s] = <<>> /\ Len(<<>>) = 0 /\ 1..0 = {}
  BY EmptySeq DEF Init
<1> QED
  BY <1>1, FlattenEmpty, MultipleZero

(* Every step keeps what is printed whole. *)
LEMMA NextPrinted == TcpType /\ Streams /\ Printed /\ [Next]_tcpVars => Printed'
<1> SUFFICES ASSUME TcpType, Streams, Printed, [Next]_tcpVars PROVE Printed'
  OBVIOUS
<1>1. CASE printed' = printed
  BY <1>1 DEF Printed
<1>2. ASSUME NEW s \in Subscribers, PrintLine(s) PROVE Printed'
  <2>1. PICK pos \in 1..Len(pending[s]) :
            /\ pos = Min(Newlines(s)) /\ IsNewline(pending[s][pos])
            /\ \A i \in 1..Len(pending[s]) : IsNewline(pending[s][i]) => pos <= i
    BY <1>2, FirstOfNewlines
  <2>2. printed' = [printed EXCEPT ![s] = Append(@, SubSeq(pending[s], 1, pos))]
    BY <1>2, <2>1 DEF PrintLine
  <2>3. /\ FlattenSeq(printed[s]) \in Seq(Byte) /\ pending[s] \in Seq(Byte)
        /\ wire[s] \in Seq(Byte) /\ printed[s] \in Seq(Seq(Byte))
    BY FlattenType DEF TcpType
  <2>4. IsLines((FlattenSeq(printed[s]) \o pending[s]) \o wire[s])
    BY Zenon DEF Streams, Received
  <2>5. IsMultiple(Len(FlattenSeq(printed[s])))
    BY DEF Printed
  <2>6. pos = LineBytes
    BY <2>1, <2>3, <2>4, <2>5, FirstNewline, Zenon
  <2> DEFINE x == SubSeq(pending[s], 1, pos)
  <2>7. x \in Seq(Byte) /\ Len(x) = LineBytes
    BY <2>1, <2>3, <2>6, CutSeq
  <2>8. printed'[s] = Append(printed[s], x)
    BY <2>2 DEF TcpType
  <2> HIDE DEF x
  <2>9. IsMultiple(Len(FlattenSeq(printed'[s])))
    <3>1. FlattenSeq(printed'[s]) = FlattenSeq(printed[s]) \o x
      BY <2>3, <2>7, <2>8, FlattenAppend
    <3>2. Len(FlattenSeq(printed'[s])) = Len(FlattenSeq(printed[s])) + LineBytes
      BY <2>3, <2>7, <3>1, ConcatProperties, Zenon
    <3>3. Len(FlattenSeq(printed[s])) \in Nat
      BY <2>3, LenProperties
    <3> QED
      BY <2>5, <3>2, <3>3, MultipleAdd
  <2>10. \A i \in 1..Len(printed'[s]) : Len(printed'[s][i]) = LineBytes
    <3>1. /\ Len(printed'[s]) = Len(printed[s]) + 1 /\ Len(printed[s]) \in Nat
          /\ \A i \in 1..Len(printed[s]) : printed'[s][i] = printed[s][i]
          /\ printed'[s][Len(printed[s]) + 1] = x
      BY <2>3, <2>7, <2>8, AppendProperties, LenProperties
    <3>2. 1..(Len(printed[s]) + 1) = 1..Len(printed[s]) \cup {Len(printed[s]) + 1}
      BY <3>1
    <3> QED
      BY <2>7, <3>1, <3>2, Zenon DEF Printed
  <2>11. \A t \in Subscribers : t # s => printed'[t] = printed[t]
    BY <2>2 DEF TcpType
  <2>12. ASSUME NEW t \in Subscribers
         PROVE  /\ IsMultiple(Len(FlattenSeq(printed'[t])))
                /\ \A i \in 1..Len(printed'[t]) : Len(printed'[t][i]) = LineBytes
    <3>1. CASE t = s
      BY <2>9, <2>10, <3>1
    <3>2. CASE t # s
      BY <2>11, <3>2 DEF Printed
    <3> QED
      BY <3>1, <3>2
  <2> QED
    BY <2>12 DEF Printed
<1>3. ASSUME NEW w \in Workers, WorkerTakes(w) \/ Lock(w) \/ SendLine(w) \/ Unlock(w)
      PROVE  printed' = printed
  BY <1>3 DEF WorkerTakes, Lock, SendLine, Unlock, subVars
<1>4. ASSUME NEW s \in Subscribers, Connect(s) \/ Read(s) \/ Fails(s)
      PROVE  printed' = printed
  BY <1>4 DEF Connect, Read, Fails, subVars
<1>5. CASE AcceptReady \/ AcceptThrows \/ UNCHANGED tcpVars
  BY <1>1, <1>5 DEF AcceptReady, AcceptThrows, tcpVars, subVars
<1> QED
  BY <1>1, <1>2, <1>3, <1>4, <1>5 DEF Next, Worker, Finished

LEMMA InitFresh == Init => Fresh
<1> SUFFICES ASSUME Init PROVE Fresh
  OBVIOUS
<1>1. \A s \in Subscribers : Received(s) = <<>>
  BY EmptyReceived
<1>2. Len(<<>>) = 0 /\ 1..0 = {}
  BY EmptySeq
<1>3. \A s \in Subscribers : Upto(Received(s), taken)
  BY <1>1, <1>2 DEF Upto
<1>4. holder = "none" /\ taken = 0 /\ \A w \in Workers : line[w] = 0
  BY DEF Init
<1>5. \A w \in Workers : w # "none"
  BY TcpAssumption
<1> QED
  BY <1>3, <1>4, <1>5 DEF Fresh

(* A line that is in no stream is nowhere followed by another. *)
LEMMA AbsentIsLast == ASSUME NEW r, NEW n, NoByteOf(r, n) PROVE LastLine(r, n)
BY DEF NoByteOf, LastLine

LEMMA NewerIsAbsent ==
    ASSUME NEW r \in Seq(Byte), NEW n \in Nat, Upto(r, n)
    PROVE  NoByteOf(r, n + 1) /\ Upto(r, n + 1)
<1>1. ASSUME NEW i \in 1..Len(r) PROVE r[i][1] # n + 1 /\ r[i][1] <= n + 1
  <2>1. r[i][1] \in Nat
    BY ByteParts
  <2>2. r[i][1] <= n
    BY DEF Upto
  <2> QED
    BY <2>1, <2>2
<1> QED
  BY <1>1 DEF NoByteOf, Upto

(* A send, for the lines of the workers. *)
LEMMA SendFresh ==
    ASSUME TcpType, Queued, Streams, Fresh, NEW w \in Workers, SendLine(w)
    PROVE  Fresh'
<1>1. PICK s \in Subscribers, n \in 0..LineBytes :
          /\ it[w] \in 1..Len(clients) /\ s = clients[it[w]]
          /\ up /\ up' = up /\ holder = w /\ holder' = w /\ line' = line /\ taken' = taken
          /\ \A t \in Subscribers : t # s => Received(t)' = Received(t)
          /\ Received(s)' \in {Received(s), Sent(Received(s), line[w], n)}
          /\ \/ it'[w] = it[w] + 1 /\ clients' = clients
             \/ it'[w] = it[w] /\ clients' = RemoveAt(clients, it[w])
  BY SendStream
<1>2. /\ Received(s) \in Seq(Byte) /\ line[w] \in Nat /\ line[w] <= taken
      /\ NoByteOf(Received(s), line[w])
  BY <1>1, SendTarget
<1>3. taken \in Nat /\ clients \in Seq(Subscribers)
  BY DEF TcpType
<1>4. ASSUME NEW t \in Subscribers PROVE Upto(Received(t)', taken)
  <2>1. Upto(Received(t), taken)
    BY <1>1 DEF Fresh
  <2>2. Upto(Received(s), taken)
    BY <1>1, Zenon DEF Fresh
  <2>3. Upto(Sent(Received(s), line[w], n), taken)
    BY <1>2, <1>3, <2>2, SentUpto
  <2> QED
    BY <1>1, <2>1, <2>3
<1>5. ASSUME NEW v \in Workers, v # w, line[v] # 0, NEW t \in Subscribers
      PROVE  NoByteOf(Received(t)', line[v])
  <2>1. line[v] # line[w] /\ NoByteOf(Received(t), line[v]) /\ NoByteOf(Received(s), line[v])
    BY <1>1, <1>5, Zenon DEF Fresh
  <2>2. NoByteOf(Sent(Received(s), line[w], n), line[v])
    BY <1>2, <2>1, SentOther
  <2> QED
    BY <1>1, <2>1, <2>2, Zenon
<1>6. ASSUME NEW t \in Subscribers PROVE LastLine(Received(t)', line[w])
  <2>1. LastLine(Received(t), line[w]) /\ LastLine(Received(s), line[w])
    BY <1>1, Zenon DEF Fresh
  <2>2. LastLine(Sent(Received(s), line[w], n), line[w])
    BY <1>2, SentLast
  <2> QED
    BY <1>1, <2>1, <2>2
<1>7. ASSUME NEW t \in Subscribers, NEW i \in it'[w]..Len(clients'), clients'[i] = t
      PROVE  NoByteOf(Received(t)', line[w])
  <2>0. Len(clients) \in Nat /\ it[w] \in Nat \ {0} /\ DOMAIN clients = 1..Len(clients)
    BY LenProperties DEF TcpType
  <2>1. t # s /\ \E j \in it[w]..Len(clients) : clients[j] = t
    <3>1. CASE it'[w] = it[w] + 1 /\ clients' = clients
      <4>1. i \in it[w]..Len(clients) /\ i \in 1..Len(clients) /\ i # it[w] /\ clients[i] = t
        BY <1>7, <2>0, <3>1
      <4>2. t # s
        BY <1>1, <2>0, <4>1, Zenon DEF Queued, IsInjective
      <4> QED
        BY <4>1, <4>2
    <3>2. CASE it'[w] = it[w] /\ clients' = RemoveAt(clients, it[w])
      <4>1. i \in 1..Len(RemoveAt(clients, it[w])) /\ i >= it[w] /\ RemoveAt(clients, it[w])[i] = t
        BY <1>7, <2>0, <3>2
      <4>2. PICK j \in 1..Len(clients) : /\ j = IF i < it[w] THEN i ELSE i + 1
                                         /\ j # it[w] /\ RemoveAt(clients, it[w])[i] = clients[j]
        BY <1>1, <1>3, <4>1, RemoveAtMember
      <4>3. j \in it[w]..Len(clients)
        BY <2>0, <4>1, <4>2
      <4>4. t # s
        BY <1>1, <2>0, <4>1, <4>2, Zenon DEF Queued, IsInjective
      <4> QED
        BY <4>1, <4>2, <4>3, <4>4
    <3> QED
      BY <1>1, <3>1, <3>2
  <2>2. NoByteOf(Received(t), line[w])
    BY <1>1, <2>1, Zenon DEF Fresh
  <2> QED
    BY <1>1, <2>1, <2>2
<1>8. /\ \A v \in Workers : line[v] <= taken
      /\ \A u, v \in Workers : line[u] = line[v] /\ line[u] # 0 => u = v
      /\ line[w] # 0
  BY <1>1 DEF Fresh
<1>9. \A v \in Workers : holder' = v => v = w
  BY <1>1
<1> QED
  BY <1>1, <1>4, <1>5, <1>6, <1>7, <1>8, <1>9, Zenon DEF Fresh

(* Every step keeps it. *)
LEMMA NextFresh ==
    TcpType /\ Turns /\ Queued /\ Streams /\ Fresh /\ [Next]_tcpVars => Fresh'
<1> SUFFICES ASSUME TcpType, Turns, Queued, Streams, Fresh, [Next]_tcpVars PROVE Fresh'
  OBVIOUS
<1>0. \A w \in Workers : w # "none"
  BY TcpAssumption
<1>1. ASSUME NEW w \in Workers, SendLine(w) PROVE Fresh'
  BY <1>1, SendFresh
<1>2. CASE \A w \in Workers : ~SendLine(w)
  <2>0. \A s \in Subscribers : Received(s)' = Received(s)
    BY <1>2, StreamsAtRest
  <2>1. CASE AcceptReady
    <3>1. holder = "none" /\ UNCHANGED <<up, holder, it, line, taken>>
      BY <2>1 DEF AcceptReady, castVars
    <3> QED
      BY <1>0, <2>0, <3>1 DEF Fresh
  <2>2. CASE AcceptThrows
    BY <2>2 DEF AcceptThrows, Fresh
  <2>3. ASSUME NEW w \in Workers, WorkerTakes(w) PROVE Fresh'
    <3>1. /\ up /\ line[w] = 0 /\ taken' = taken + 1
          /\ line' = [line EXCEPT ![w] = taken + 1]
          /\ UNCHANGED <<up, holder, it, clients>>
      BY <2>3 DEF WorkerTakes, serverVars
    <3>2. taken \in Nat /\ line \in [Workers -> Nat]
      BY DEF TcpType
    <3>3. line'[w] = taken' /\ \A v \in Workers : v # w => line'[v] = line[v]
      BY <3>1, <3>2
    <3>4. holder # w /\ \A v \in Workers : line[v] <= taken
      BY <3>1 DEF Fresh
    <3>5. \A s \in Subscribers : NoByteOf(Received(s)', taken') /\ Upto(Received(s)', taken')
      BY <2>0, <3>1, <3>2, NewerIsAbsent, ReceivedType DEF Fresh
    <3>6. \A v \in Workers : line'[v] <= taken' /\ (v # w => line'[v] # taken')
      BY <3>1, <3>2, <3>3, <3>4
    <3>7. \A u, v \in Workers : line'[u] = line'[v] /\ line'[u] # 0 => u = v
      BY <3>1, <3>3, <3>6 DEF Fresh
    <3>8. \A v \in Workers : holder' # v /\ line'[v] # 0 =>
              \A s \in Subscribers : NoByteOf(Received(s)', line'[v])
      BY <2>0, <3>1, <3>3, <3>5 DEF Fresh
    <3>9. \A v \in Workers : holder' = v =>
              /\ line'[v] # 0
              /\ \A s \in Subscribers : LastLine(Received(s)', line'[v])
              /\ \A s \in Subscribers :
                     (\E i \in it'[v]..Len(clients') : clients'[i] = s) =>
                         NoByteOf(Received(s)', line'[v])
      BY <2>0, <3>1, <3>3, <3>4 DEF Fresh
    <3> QED
      BY <3>5, <3>6, <3>7, <3>8, <3>9, Zenon DEF Fresh
  <2>4. ASSUME NEW w \in Workers, Lock(w) PROVE Fresh'
    <3>1. /\ up /\ line[w] # 0 /\ holder = "none" /\ holder' = w
          /\ UNCHANGED <<up, it, line, taken, clients>>
      BY <2>4 DEF Lock, serverVars
    <3>2. \A v \in Workers : line[v] # 0 => \A s \in Subscribers : NoByteOf(Received(s)', line[v])
      BY <1>0, <2>0, <3>1 DEF Fresh
    <3>3. \A s \in Subscribers : LastLine(Received(s)', line[w]) /\ NoByteOf(Received(s)', line[w])
      BY <3>1, <3>2, AbsentIsLast
    <3>4. \A v \in Workers : holder' = v => v = w
      BY <3>1
    <3> QED
      BY <2>0, <3>1, <3>2, <3>3, <3>4 DEF Fresh
  <2>5. ASSUME NEW w \in Workers, Unlock(w) PROVE Fresh'
    <3>1. /\ up /\ holder = w /\ holder' = "none" /\ line' = [line EXCEPT ![w] = 0]
          /\ UNCHANGED <<up, taken>>
      BY <2>5 DEF Unlock, HoldsMutex, serverVars
    <3>2. line \in [Workers -> Nat] /\ taken \in Nat
      BY DEF TcpType
    <3>3. line'[w] = 0 /\ \A v \in Workers : v # w => line'[v] = line[v]
      BY <3>1, <3>2
    <3>4. \A v \in Workers : line'[v] <= taken'
      BY <3>1, <3>2, <3>3 DEF Fresh
    <3>5. \A v \in Workers : line'[v] # 0 => v # w /\ line'[v] = line[v] /\ holder # v
      BY <3>1, <3>3
    <3>6. \A u, v \in Workers : line'[u] = line'[v] /\ line'[u] # 0 => u = v
      BY <3>1, <3>5 DEF Fresh
    <3>7. \A v \in Workers : line'[v] # 0 => \A s \in Subscribers : NoByteOf(Received(s)', line'[v])
      BY <2>0, <3>1, <3>5 DEF Fresh
    <3>8. \A s \in Subscribers : Upto(Received(s)', taken')
      BY <2>0, <3>1 DEF Fresh
    <3> QED
      BY <1>0, <3>1, <3>4, <3>6, <3>7, <3>8, Zenon DEF Fresh
  <2>6. ASSUME UNCHANGED <<up, holder, it, line, taken, clients>> PROVE Fresh'
    BY <2>0, <2>6 DEF Fresh
  <2>7. ASSUME NEW s \in Subscribers, Connect(s) \/ Read(s) \/ PrintLine(s) \/ Fails(s)
        PROVE  Fresh'
    BY <2>6, <2>7 DEF Connect, Read, PrintLine, Fails, serverVars, castVars
  <2>8. CASE UNCHANGED tcpVars
    BY <2>6, <2>8 DEF tcpVars, serverVars, castVars
  <2> QED
    BY <1>2, <2>1, <2>2, <2>3, <2>4, <2>5, <2>7, <2>8 DEF Next, Worker, Finished
<1> QED
  BY <1>1, <1>2

LEMMA InitOrders == Init => Orders
<1> SUFFICES ASSUME Init, NEW s \in Subscribers, NEW t \in Subscribers
             PROVE  NoInversion(Received(s), Received(t))
  BY DEF Orders
<1>1. Received(s) = <<>> /\ Len(<<>>) = 0 /\ 1..0 = {}
  BY EmptyReceived, EmptySeq
<1> QED
  BY <1>1 DEF NoInversion, Follows

(* Every step keeps the orders of the streams compatible. *)
LEMMA NextOrders ==
    TcpType /\ Streams /\ Streams' /\ Fresh /\ Orders /\ [Next]_tcpVars => Orders'
<1> SUFFICES ASSUME TcpType, Streams, Streams', Fresh, Orders, [Next]_tcpVars PROVE Orders'
  OBVIOUS
<1>1. CASE \A w \in Workers : ~SendLine(w)
  <2>1. \A s \in Subscribers : Received(s)' = Received(s)
    BY <1>1, StreamsAtRest
  <2> QED
    BY <2>1 DEF Orders
<1>2. ASSUME NEW w \in Workers, SendLine(w) PROVE Orders'
  <2>1. PICK s \in Subscribers, n \in 0..LineBytes :
            /\ it[w] \in 1..Len(clients) /\ s = clients[it[w]] /\ up /\ holder = w
            /\ \A t \in Subscribers : t # s => Received(t)' = Received(t)
            /\ Received(s)' \in {Received(s), Sent(Received(s), line[w], n)}
    BY <1>2, SendStream
  <2>2. Received(s) \in Seq(Byte) /\ line[w] \in Nat
    BY <2>1, SendTarget
  <2>3. ASSUME NEW t \in Subscribers, t # s PROVE NoInversion(Received(s)', Received(t)')
    <3>1. /\ Received(t) \in Seq(Byte) /\ IsInjective(Received(t))
          /\ NoInversion(Received(s), Received(t)) /\ LastLine(Received(t), line[w])
      BY <2>1, ReceivedType, Zenon DEF Streams, Orders, Fresh
    <3>2. NoInversion(Sent(Received(s), line[w], n), Received(t))
      BY <2>2, <3>1, InversionSent
    <3> QED
      BY <2>1, <2>3, <3>1, <3>2
  <2>4. NoInversion(Received(s)', Received(s)')
    <3>1. IsInjective(Received(s)')
      BY DEF Streams
    <3>2. Received(s)' \in Seq(Byte)
      <4>1. Sent(Received(s), line[w], n) \in Seq(Byte)
        BY <2>2, SentBytes
      <4> QED
        BY <2>1, <2>2, <4>1
    <3> QED
      BY <3>1, <3>2, InversionSelf
  <2>5. ASSUME NEW t \in Subscribers, NEW u \in Subscribers
        PROVE  NoInversion(Received(t)', Received(u)')
    <3>1. CASE t # s /\ u # s
      BY <2>1, <3>1 DEF Orders
    <3>2. CASE t = s /\ u # s
      BY <2>3, <3>2
    <3>3. CASE t # s /\ u = s
      <4>1. NoInversion(Received(u)', Received(t)')
        BY <2>3, <3>3
      <4> QED
        BY <4>1, InversionSymmetric
    <3>4. CASE t = s /\ u = s
      BY <2>4, <3>4
    <3> QED
      BY <3>1, <3>2, <3>3, <3>4
  <2> QED
    BY <2>5 DEF Orders
<1> QED
  BY <1>1, <1>2

(* All of it is an invariant. *)
LEMMA StreamsAlways == Spec => [](Streams /\ Printed /\ Fresh /\ Orders)
<1>1. Init => Streams /\ Printed /\ Fresh /\ Orders
  BY InitStreams, InitPrinted, InitFresh, InitOrders
<1>2. /\ TcpType /\ Turns /\ Queued /\ Streams /\ Printed /\ Fresh /\ Orders
      /\ [Next]_tcpVars
      => (Streams /\ Printed /\ Fresh /\ Orders)'
  BY NextStreams, NextPrinted, NextFresh, NextOrders
<1> QED
  BY <1>1, <1>2, TypeAlways, TurnsAlways, QueuedAlways, PTL DEF Spec

(***************************************************************************)
(* A subscriber's stream consists of whole lines, each at most once, and   *)
(* sensor_subscribe prints nothing but lines that were sent: the short     *)
(* write of broadcast_line is always followed by the end of the client.    *)
(***************************************************************************)
THEOREM StreamAlwaysWholeLines == Spec => []StreamOfWholeLines
<1>1. TcpType /\ Streams /\ Printed => StreamOfWholeLines
  <2> SUFFICES ASSUME TcpType, Streams, Printed, NEW s \in Subscribers
               PROVE  /\ \A i \in DOMAIN Received(s) : Received(s)[i] =
                             <<Received(s)[((i - 1) \div LineBytes) * LineBytes + 1][1],
                               ((i - 1) % LineBytes) + 1>>
                      /\ Cardinality({Received(s)[i] : i \in DOMAIN Received(s)})
                             = Len(Received(s))
                      /\ Contains(clients, s) =>
                             Len(Received(s)) = (Len(Received(s)) \div LineBytes) * LineBytes
                      /\ \A i \in DOMAIN printed[s] : Len(printed[s][i]) = LineBytes
    BY Zenon DEF StreamOfWholeLines
  <2>1. PICK r \in Seq(Byte) : r = Received(s)
    BY ReceivedType
  <2>2. IsLines(r) /\ IsInjective(r) /\ (Contains(clients, s) => IsMultiple(Len(r)))
    BY <2>1 DEF Streams, Whole
  <2>3. Len(r) \in Nat /\ DOMAIN r = 1..Len(r)
    BY LenProperties
  <2>4. ASSUME NEW i \in DOMAIN r
        PROVE  r[i] = <<r[((i - 1) \div LineBytes) * LineBytes + 1][1],
                        ((i - 1) % LineBytes) + 1>>
    <3>1. i \in Nat /\ i \in 1..Len(r)
      BY <2>3
    <3>2. PICK b \in Nat : IsMultiple(b) /\ i - b \in 1..LineBytes
                           /\ r[i] = <<r[b + 1][1], i - b>>
      BY <2>2, <3>1, Zenon DEF IsLines
    <3>3. ((i - 1) \div LineBytes) * LineBytes = b /\ ((i - 1) % LineBytes) + 1 = i - b
      BY <3>1, <3>2, DivideByLine
    <3> QED
      BY <3>2, <3>3
  <2>5. Cardinality({r[i] : i \in DOMAIN r}) = Len(r)
    BY <2>2, InjectiveCount
  <2>6. Contains(clients, s) => Len(r) = (Len(r) \div LineBytes) * LineBytes
    BY <2>2, <2>3, DivideWhole
  <2>7. \A i \in DOMAIN printed[s] : Len(printed[s][i]) = LineBytes
    <3>1. DOMAIN printed[s] = 1..Len(printed[s])
      BY LenProperties DEF TcpType
    <3> QED
      BY <3>1 DEF Printed
  <2> QED
    BY <2>1, <2>4, <2>5, <2>6, <2>7
<1> QED
  BY <1>1, TypeAlways, StreamsAlways, PTL

(***************************************************************************)
(* However many workers broadcast, no two subscribers see two lines in     *)
(* different orders: mutex_ is held for a whole broadcast.                 *)
(***************************************************************************)
THEOREM SameOrderAlwaysEverywhere == Spec => []SameOrderEverywhere
<1>1. TcpType /\ Orders => SameOrderEverywhere
  <2> SUFFICES ASSUME TcpType, Orders, NEW s \in Subscribers, NEW t \in Subscribers,
                      NEW m \in 1..taken, NEW n \in 1..taken,
                      Before(s, m, n), Before(t, n, m)
               PROVE  FALSE
    BY DEF SameOrderEverywhere
  <2>1. m \in Nat /\ n \in Nat
    BY DEF TcpType
  <2>2. \A u \in Subscribers : DOMAIN Received(u) = 1..Len(Received(u))
    BY ReceivedType, LenProperties
  <2>3. Follows(Received(s), m, n) /\ Follows(Received(t), n, m)
    BY <2>2, Zenon DEF Before, Follows
  <2> QED
    BY <2>1, <2>3 DEF Orders, NoInversion
<1> QED
  BY <1>1, TypeAlways, StreamsAlways, PTL
=============================================================================
