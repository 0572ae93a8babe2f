--------------------------- MODULE LogWriterProofs ---------------------------
(***************************************************************************)
(* Proofs about LogWriter for every log_rotate_bytes and all lengths and   *)
(* numbers of lines: the files stay bounded, and without a failed rename   *)
(* or write they hold the most recent lines, wherever the process ends.    *)
(*                                                                         *)
(* Bytes is recursive.  What it computes is proved by induction in the     *)
(* form of a least counterexample.                                         *)
(***************************************************************************)
EXTENDS LogWriter, FiniteSetTheorems, SequenceTheorems, WellFoundedInduction, TLAPS

(* A piece of a line, as long as it may be. *)
Piece == [line : Nat, bytes : Nat]

(* A set of numbers that is not empty has a least one. *)
LEMMA LeastNumber ==
    ASSUME NEW S, S \subseteq Nat, S # {}
    PROVE  \E x \in S : \A y \in S : x <= y
<1>1. PICK x \in S : \A y \in S : ~(<<y, x>> \in OpToRel(<, Nat))
  BY WFMin, NatLessThanWellFounded, Zenon
<1>2. \A y \in S : y < x => <<y, x>> \in OpToRel(<, Nat)
  BY Zenon DEF OpToRel
<1>3. \A y \in S : ~(y < x)
  BY <1>1, <1>2, Zenon
<1> QED
  BY <1>3

(* The running sums of the first k pieces of a file. *)
IsSum(f, file, k) ==
    f = [n \in 0..k |-> IF n = 0 THEN 0 ELSE f[n - 1] + file[n].bytes]

(* They exist for every k: by induction, as a least counterexample. *)
LEMMA SumExists ==
    ASSUME NEW file PROVE \A k \in Nat : \E f : IsSum(f, file, k)
<1> DEFINE Bad == {k \in Nat : ~\E f : IsSum(f, file, k)}
<1> SUFFICES ASSUME Bad # {} PROVE FALSE
  OBVIOUS
<1>1. PICK k \in Bad : \A j \in Bad : k <= j
  BY LeastNumber, Zenon
<1>2. k # 0
  <2>1. IsSum([n \in 0..0 |-> 0], file, 0)
    BY DEF IsSum
  <2> QED
    BY <2>1
<1>3. PICK f : IsSum(f, file, k - 1)
  <2>1. k - 1 \in Nat /\ ~(k <= k - 1)
    BY <1>2
  <2> QED
    BY <1>1, <2>1
<1> DEFINE g == [n \in 0..k |-> IF n = k THEN f[k - 1] + file[k].bytes ELSE f[n]]
<1>4. IsSum(g, file, k)
  <2> SUFFICES ASSUME NEW n \in 0..k
               PROVE  g[n] = IF n = 0 THEN 0 ELSE g[n - 1] + file[n].bytes
    BY DEF IsSum
  <2>1. CASE n = k
    BY <1>2, <2>1
  <2>2. CASE n # k
    <3>1. n \in 0..(k - 1) /\ (n # 0 => n - 1 \in 0..k /\ n - 1 # k)
      BY <2>2
    <3>2. f[n] = IF n = 0 THEN 0 ELSE f[n - 1] + file[n].bytes
      BY <1>3, <3>1 DEF IsSum
    <3> QED
      BY <2>2, <3>1, <3>2
  <2> QED
    BY <2>1, <2>2
<1> QED
  BY <1>4

(* So Bytes is the last of them. *)
LEMMA BytesIsSum ==
    ASSUME NEW file, Len(file) \in Nat
    PROVE  \E f : IsSum(f, file, Len(file)) /\ Bytes(file) = f[Len(file)]
<1> DEFINE sum == CHOOSE f : IsSum(f, file, Len(file))
<1>1. IsSum(sum, file, Len(file))
  BY SumExists
<1>2. Bytes(file) = sum[Len(file)]
  BY DEF Bytes, IsSum
<1> QED
  BY <1>1, <1>2, Zenon

(* The running sums are numbers. *)
LEMMA SumsAreNumbers ==
    ASSUME NEW file \in Seq(Piece), NEW f, IsSum(f, file, Len(file))
    PROVE  \A n \in 0..Len(file) : f[n] \in Nat
<1> DEFINE Bad == {n \in Nat : n \in 0..Len(file) /\ f[n] \notin Nat}
<1>0. Len(file) \in Nat
  BY LenProperties
<1> SUFFICES ASSUME Bad # {} PROVE FALSE
  BY <1>0
<1>1. PICK n \in Bad : \A j \in Bad : n <= j
  BY LeastNumber, Zenon
<1>2. n \in 0..Len(file) /\ f[n] \notin Nat
  BY <1>1
<1>3. f[n] = IF n = 0 THEN 0 ELSE f[n - 1] + file[n].bytes
  BY <1>2 DEF IsSum
<1>4. n # 0
  BY <1>2, <1>3
<1>5. n - 1 \in 0..Len(file) /\ n \in 1..Len(file) /\ ~(n <= n - 1)
  BY <1>0, <1>2, <1>4
<1>6. f[n - 1] \in Nat
  BY <1>1, <1>5
<1>7. file[n].bytes \in Nat
  <2>1. file[n] \in Piece
    BY <1>5, ElementOfSeq
  <2> QED
    BY <2>1 DEF Piece
<1> QED
  BY <1>2, <1>3, <1>4, <1>6, <1>7

(***************************************************************************)
(* What the rest of the proofs knows of Bytes: an empty file has none, and *)
(* a piece appended adds its own.                                          *)
(***************************************************************************)
LEMMA BytesEmpty == Bytes(<<>>) = 0
<1>1. Len(<<>>) = 0
  OBVIOUS
<1>2. PICK f : IsSum(f, <<>>, 0) /\ Bytes(<<>>) = f[0]
  BY <1>1, BytesIsSum
<1>3. f[0] = 0
  <2>1. 0 \in 0..0
    OBVIOUS
  <2> QED
    BY <1>2, <2>1 DEF IsSum
<1> QED
  BY <1>2, <1>3

(* A file has a size. *)
LEMMA BytesNat == ASSUME NEW file \in Seq(Piece) PROVE Bytes(file) \in Nat
<1>1. Len(file) \in Nat /\ Len(file) \in 0..Len(file)
  BY LenProperties
<1>2. PICK f : IsSum(f, file, Len(file)) /\ Bytes(file) = f[Len(file)]
  BY <1>1, BytesIsSum
<1> QED
  BY <1>1, <1>2, SumsAreNumbers

(* A line written adds its length: the sums before it do not change. *)
LEMMA BytesAppend ==
    ASSUME NEW file \in Seq(Piece), NEW p \in Piece
    PROVE  Bytes(Append(file, p)) = Bytes(file) + p.bytes
<1> DEFINE k == Len(file)
           longer == Append(file, p)
<1>1. /\ k \in Nat /\ Len(longer) = k + 1 /\ longer[k + 1] = p
      /\ \A i \in 1..k : longer[i] = file[i]
  BY LenProperties, AppendProperties
<1>2. PICK f : IsSum(f, file, k) /\ Bytes(file) = f[k]
  BY <1>1, BytesIsSum
<1>3. PICK g : IsSum(g, longer, k + 1) /\ Bytes(longer) = g[k + 1]
  <2>1. \E g : IsSum(g, longer, Len(longer)) /\ Bytes(longer) = g[Len(longer)]
    <3> HIDE DEF longer
    <3> QED
      BY <1>1, BytesIsSum
  <2> QED
    BY <1>1, <2>1
<1> HIDE DEF k, longer
<1>4. g[k + 1] = g[k] + p.bytes
  <2>1. k + 1 \in 0..(k + 1) /\ k + 1 # 0 /\ (k + 1) - 1 = k
    BY <1>1
  <2>2. g[k + 1] = g[(k + 1) - 1] + longer[k + 1].bytes
    BY <1>3, <2>1 DEF IsSum
  <2> QED
    BY <1>1, <2>1, <2>2
<1>5. f[k] = g[k]
  <2> DEFINE Bad == {n \in Nat : n \in 0..k /\ f[n] # g[n]}
  <2> SUFFICES ASSUME Bad # {} PROVE FALSE
    <3>1. k \in 0..k
      BY <1>1
    <3> QED
      BY <1>1, <3>1
  <2>1. PICK n \in Bad : \A j \in Bad : n <= j
    BY LeastNumber, Zenon
  <2>2. n \in 0..k /\ n \in 0..(k + 1) /\ f[n] # g[n]
    BY <1>1, <2>1
  <2>3. /\ f[n] = IF n = 0 THEN 0 ELSE f[n - 1] + file[n].bytes
        /\ g[n] = IF n = 0 THEN 0 ELSE g[n - 1] + longer[n].bytes
    BY <1>2, <1>3, <2>2, Zenon DEF IsSum
  <2>4. n # 0
    BY <2>2, <2>3
  <2>5. n - 1 \in 0..k /\ n \in 1..k /\ ~(n <= n - 1)
    BY <1>1, <2>2, <2>4
  <2>6. f[n - 1] = g[n - 1] /\ longer[n] = file[n]
    BY <1>1, <2>1, <2>5
  <2> QED
    BY <2>2, <2>3, <2>4, <2>6
<1> QED
  BY <1>2, <1>3, <1>4, <1>5 DEF longer

(* The longest line there is. *)
LEMMA LongestLine ==
    /\ Max(Sizes) \in Nat /\ Max(Sizes) \in Sizes
    /\ \A size \in Sizes : size \in Nat /\ size >= 1 /\ size <= Max(Sizes)
<1>1. Sizes \subseteq Nat /\ \A size \in Sizes : size >= 1
  BY LogAssumption
<1>2. PICK n \in Sizes : \A size \in Sizes : size <= n
  BY LogAssumption
<1>3. \A size \in Sizes : n >= size
  BY <1>1, <1>2
<1>4. Max(Sizes) \in Sizes /\ \A size \in Sizes : Max(Sizes) >= size
  BY <1>2, <1>3 DEF Max
<1> QED
  BY <1>1, <1>4, Zenon

(* Some lengths are products with the longest line. *)
LEMMA Times ==
    ASSUME NEW m \in Nat, m >= 1, NEW x \in Nat, NEW y \in Nat
    PROVE  /\ m * x \in Nat /\ x <= m * x
           /\ y >= 1 => m * x + m <= m * (x + y)
           /\ x < y => m * x + m <= m * y
           /\ (y + 1) * m = m * y + m
<1>1. m * x \in Nat /\ m * y \in Nat
  OBVIOUS
<1>2. x <= m * x
  <2>1. (m - 1) * x >= 0 /\ m * x = (m - 1) * x + x
    OBVIOUS
  <2> QED
    BY <1>1, <2>1
<1>3. ASSUME NEW z \in Nat, NEW w \in Nat, z < w PROVE m * z + m <= m * w
  <2>1. m * ((w - z) - 1) >= 0 /\ m * w = m * z + m + m * ((w - z) - 1)
    BY <1>3
  <2> QED
    BY <2>1
<1>4. y >= 1 => m * x + m <= m * (x + y)
  <2>1. x + y \in Nat /\ (y >= 1 => x < x + y)
    OBVIOUS
  <2> QED
    BY <1>3, <2>1
<1>5. (y + 1) * m = m * y + m
  OBVIOUS
<1> QED
  BY <1>1, <1>2, <1>3, <1>4, <1>5

-----------------------------------------------------------------------------
(* The type of the writer's state. *)
LogType ==
    /\ log \in Seq(Piece) /\ rotated \in Seq(Piece)
    /\ current_bytes \in Nat
    /\ stream \in {"closed", "good", "bad"}
    /\ put \in Piece /\ resyncs \in BOOLEAN
    /\ step \in {"idle", "check", "remove", "rename", "reopen", "write"}
    /\ given \in Seq(Nat)
    /\ failed \in BOOLEAN

(* The pieces of a file are of lines given, or are even whole ones. *)
OfLines(file, g) == \A i \in DOMAIN file : file[i].line \in DOMAIN g
WholeIn(file, g) == \A i \in DOMAIN file : file[i].bytes = g[file[i].line]

(* What is in the put area is a whole line of those given. *)
Numbered ==
    /\ OfLines(log, given) /\ OfLines(rotated, given)
    /\ put.bytes > 0 => /\ stream = "bad" /\ put.bytes \in Sizes
                        /\ put.line \in DOMAIN given
                        /\ given[put.line] = put.bytes

(* The bounds of FilesBounded, for one file. *)
Bounded(file, g) ==
    RotateBytes > 0 =>
        /\ WholeIn(file, g) => Bytes(file) < RotateBytes + Max(Sizes)
        /\ ~resyncs => Bytes(file) < RotateBytes + 2 * Max(Sizes) - 1
        /\ Bytes(file) < (RotateBytes + 1) * Max(Sizes)

(***************************************************************************)
(* The strengthening of FilesBounded: while the stream is good its counter *)
(* is not behind the file; where a line is written the counter is below    *)
(* the limit; and a line in the put area is one the file has room for, as  *)
(* it was counted and not stored.                                          *)
(***************************************************************************)
Accounting ==
    /\ stream = "good" => Bytes(log) <= current_bytes
    /\ stream # "closed" => Bytes(log) <= Max(Sizes) * current_bytes
    /\ step \in {"check", "write"} => stream # "closed"
    /\ step \in {"remove", "rename", "reopen"} => stream = "closed"
    /\ step = "reopen" => current_bytes = 0
    /\ step = "write" /\ RotateBytes > 0 => current_bytes < RotateBytes
    /\ RotateBytes > 0 /\ put.bytes > 0 =>
        /\ WholeIn(log, given) => Bytes(log) < RotateBytes
        /\ ~resyncs => Bytes(log) + 1 < RotateBytes + put.bytes
        /\ Bytes(log) < Max(Sizes) * RotateBytes
    /\ Bounded(log, given) /\ Bounded(rotated, given)

(* IsSuffix without the reversals. *)
IsTail(s, t) ==
    /\ Len(s) <= Len(t)
    /\ \A i \in 1..Len(s) : s[i] = t[(Len(t) - Len(s)) + i]

(***************************************************************************)
(* The strengthening of RecentLinesKept: while nothing has failed the      *)
(* counter is exact, so that what a rotation gives up is less recent than  *)
(* log_rotate_bytes, and the log is empty when it is truncated.            *)
(***************************************************************************)
Recent ==
    ~failed =>
        /\ IsTail(OnDisk, Lines)
        /\ OnDisk # Lines => RotateBytes > 0 /\ Bytes(OnDisk) >= RotateBytes
        /\ stream # "bad"
        /\ stream = "good" => current_bytes = Bytes(log)
        /\ step \in {"remove", "rename"} => RotateBytes > 0 /\ Bytes(log) >= RotateBytes
        /\ step = "reopen" => log = <<>>

-----------------------------------------------------------------------------
(* What a write has stored of a line is a piece, and it counts. *)
LEMMA StoredPiece ==
    ASSUME NEW file \in Seq(Piece), NEW piece \in Piece, NEW stored \in Nat
    PROVE  /\ Stored(file, piece, stored) \in Seq(Piece)
           /\ Bytes(Stored(file, piece, stored)) = Bytes(file) + stored
<1> DEFINE part == [piece EXCEPT !.bytes = stored]
<1>1. part \in Piece /\ part.bytes = stored
  BY DEF Piece
<1> HIDE DEF part
<1>2. CASE stored = 0
  BY <1>2, BytesNat DEF Stored
<1>3. CASE stored # 0
  <2>1. Stored(file, piece, stored) = Append(file, part)
    BY <1>3 DEF Stored, part
  <2> QED
    BY <1>1, <2>1, AppendProperties, BytesAppend
<1> QED
  BY <1>2, <1>3

(* Only a whole line makes a file of whole lines longer. *)
LEMMA StoredWhole ==
    ASSUME NEW file \in Seq(Piece), NEW piece \in Piece, NEW stored \in Nat, NEW g
    PROVE  LET longer == Stored(file, piece, stored) IN
           /\ WholeIn(longer, g) =>
                WholeIn(file, g) /\ (stored # 0 => stored = g[piece.line])
           /\ OfLines(file, g) /\ piece.line \in DOMAIN g => OfLines(longer, g)
<1> DEFINE part == [piece EXCEPT !.bytes = stored]
           longer == Append(file, part)
           k == Len(file)
<1>1. CASE stored = 0
  BY <1>1 DEF Stored
<1>2. CASE stored # 0
  <2>1. part \in Piece /\ part.bytes = stored /\ part.line = piece.line
    BY DEF Piece
  <2>2. Stored(file, piece, stored) = longer
    BY <1>2 DEF Stored
  <2> HIDE DEF part
  <2>3. /\ k \in Nat /\ DOMAIN file = 1..k /\ DOMAIN longer = 1..(k + 1)
        /\ longer[k + 1] = part /\ \A i \in 1..k : longer[i] = file[i]
    BY <2>1, LenProperties, AppendProperties
  <2> HIDE DEF longer, k
  <2>4. /\ \A i \in 1..(k + 1) : i \in 1..k \/ i = k + 1
        /\ \A i \in 1..k : i \in 1..(k + 1)
        /\ k + 1 \in 1..(k + 1)
    BY <2>3
  <2>5. ASSUME WholeIn(longer, g) PROVE WholeIn(file, g) /\ stored = g[piece.line]
    BY <2>1, <2>3, <2>4, <2>5, Zenon DEF WholeIn
  <2>6. ASSUME OfLines(file, g), piece.line \in DOMAIN g PROVE OfLines(longer, g)
    <3>1. ASSUME NEW i \in 1..(k + 1) PROVE longer[i].line \in DOMAIN g
      <4>1. CASE i = k + 1
        BY <2>1, <2>3, <2>6, <4>1
      <4>2. CASE i \in 1..k
        BY <2>3, <2>6, <4>2 DEF OfLines
      <4> QED
        BY <2>4, <4>1, <4>2
    <3> QED
      BY <2>3, <3>1 DEF OfLines
  <2> QED
    BY <2>2, <2>5, <2>6
<1> QED
  BY <1>1, <1>2

(* A line more leaves those before it as they are. *)
LEMMA GivenGrows ==
    ASSUME NEW g \in Seq(Nat), NEW size \in Nat
    PROVE  LET h == Append(g, size) IN
           /\ h \in Seq(Nat) /\ Len(g) + 1 \in DOMAIN h /\ h[Len(g) + 1] = size
           /\ \A n \in DOMAIN g : n \in DOMAIN h /\ h[n] = g[n]
           /\ \A file : OfLines(file, g) =>
                OfLines(file, h) /\ (WholeIn(file, h) <=> WholeIn(file, g))
<1> DEFINE h == Append(g, size)
<1>1. /\ h \in Seq(Nat) /\ Len(g) + 1 \in DOMAIN h /\ h[Len(g) + 1] = size
      /\ \A n \in DOMAIN g : n \in DOMAIN h /\ h[n] = g[n]
  <2>1. /\ h \in Seq(Nat) /\ Len(g) \in Nat /\ Len(h) = Len(g) + 1
        /\ h[Len(g) + 1] = size /\ \A n \in 1..Len(g) : h[n] = g[n]
        /\ DOMAIN g = 1..Len(g) /\ DOMAIN h = 1..(Len(g) + 1)
    BY LenProperties, AppendProperties
  <2> QED
    BY <2>1
<1> HIDE DEF h
<1>2. ASSUME NEW file, OfLines(file, g)
      PROVE  OfLines(file, h) /\ (WholeIn(file, h) <=> WholeIn(file, g))
  BY <1>1, <1>2, Zenon DEF OfLines, WholeIn
<1> QED
  BY <1>1, <1>2, Zenon DEF h

(* What close does to the file. *)
LEMMA CloseEffect ==
    ASSUME LogType, CloseStream
    PROVE  /\ put' = NoLine /\ stream' = "closed"
           /\ \E stored \in Nat :
                /\ stored <= put.bytes
                /\ log' = Stored(log, put, stored)
                /\ log' \in Seq(Piece)
                /\ Bytes(log') = Bytes(log) + stored
<1>1. put \in Piece /\ put.bytes \in Nat /\ log \in Seq(Piece)
  BY DEF LogType, Piece
<1>2. PICK stored \in 0..put.bytes : log' = Stored(log, put, stored)
  BY DEF CloseStream
<1>3. stored \in Nat /\ stored <= put.bytes
  BY <1>1
<1>4. log' \in Seq(Piece) /\ Bytes(log') = Bytes(log) + stored
  BY <1>1, <1>2, <1>3, StoredPiece
<1> QED
  BY <1>2, <1>3, <1>4 DEF CloseStream

(* What the put area holds when flush writes it. *)
Area(size) ==
    IF stream = "good" THEN [line |-> Len(given) + 1, bytes |-> size] ELSE put

(* What stream_ << line and flush do to the file and to the counter. *)
LEMMA WriteEffect ==
    ASSUME LogType, WriteLine
    PROVE  \E size \in Sizes, stored \in Nat :
            /\ size \in Nat /\ size >= 1 /\ size <= Max(Sizes)
            /\ Area(size) \in Piece
            /\ stored <= Area(size).bytes
            /\ stream = "good" \/ resyncs \/ stored = 0
            /\ log' = Stored(log, Area(size), stored)
            /\ put' = IF stored < Area(size).bytes THEN Area(size) ELSE NoLine
            /\ stream' = IF stored < Area(size).bytes THEN "bad" ELSE stream
            /\ failed' = (failed \/ stored < Area(size).bytes)
            /\ log' \in Seq(Piece)
            /\ Bytes(log') = Bytes(log) + stored
            /\ current_bytes' = current_bytes + size
            /\ given' = Append(given, size)
            /\ given' \in Seq(Nat)
<1>1. PICK size \in Sizes :
        /\ \E stored \in 0..Area(size).bytes :
            /\ stream = "good" \/ resyncs \/ stored = 0
            /\ log' = Stored(log, Area(size), stored)
            /\ put' = IF stored < Area(size).bytes THEN Area(size) ELSE NoLine
            /\ stream' = IF stored < Area(size).bytes THEN "bad" ELSE stream
            /\ failed' = (failed \/ stored < Area(size).bytes)
        /\ current_bytes' = current_bytes + size
        /\ given' = Append(given, size)
  BY Zenon DEF WriteLine, Area
<1>2. size \in Nat /\ size >= 1 /\ size <= Max(Sizes)
  BY LongestLine
<1>3. Area(size) \in Piece /\ Area(size).bytes \in Nat
  <2>1. Len(given) + 1 \in Nat
    BY LenProperties DEF LogType
  <2> QED
    BY <1>2, <2>1 DEF Area, Piece, LogType
<1>4. PICK stored \in 0..Area(size).bytes :
        /\ stream = "good" \/ resyncs \/ stored = 0
        /\ log' = Stored(log, Area(size), stored)
        /\ put' = IF stored < Area(size).bytes THEN Area(size) ELSE NoLine
        /\ stream' = IF stored < Area(size).bytes THEN "bad" ELSE stream
        /\ failed' = (failed \/ stored < Area(size).bytes)
  BY <1>1, Zenon
<1>5. stored \in Nat /\ stored <= Area(size).bytes
  BY <1>3
<1>6. log' \in Seq(Piece) /\ Bytes(log') = Bytes(log) + stored
  BY <1>3, <1>4, <1>5, StoredPiece DEF LogType
<1>7. given' \in Seq(Nat)
  BY <1>1, <1>2, AppendProperties DEF LogType
<1> QED
  BY <1>1, <1>2, <1>3, <1>4, <1>5, <1>6, <1>7, Zenon

(* Every step keeps the type. *)
LEMMA NextLogType == LogType /\ [Next]_logVars => LogType'
<1> SUFFICES ASSUME LogType, [Next]_logVars PROVE LogType'
  OBVIOUS
<1>0. NoLine \in Piece
  BY DEF NoLine, Piece
<1>a. CloseStream => log' \in Seq(Piece) /\ put' \in Piece /\ stream' = "closed"
  BY <1>0, CloseEffect, Zenon
<1>1. CASE OpenIfNeeded
  BY <1>1, BytesNat DEF OpenIfNeeded, LogType, files
<1>2. CASE RotateCheck
  BY <1>2, <1>a DEF RotateCheck, LogType
<1>3. CASE RemoveRotated
  BY <1>3, EmptySeq, Zenon DEF RemoveRotated, LogType
<1>4. CASE RenameLog
  BY <1>4, EmptySeq, Zenon DEF RenameLog, LogType, files
<1>5. CASE ReopenTruncated
  BY <1>5, EmptySeq DEF ReopenTruncated, LogType
<1>6. CASE WriteLine
  <2>1. PICK size \in Sizes, stored \in Nat :
            /\ size \in Nat /\ Area(size) \in Piece
            /\ put' = IF stored < Area(size).bytes THEN Area(size) ELSE NoLine
            /\ stream' = IF stored < Area(size).bytes THEN "bad" ELSE stream
            /\ failed' = (failed \/ stored < Area(size).bytes)
            /\ log' \in Seq(Piece) /\ given' \in Seq(Nat)
            /\ current_bytes' = current_bytes + size
    BY <1>6, WriteEffect, Zenon
  <2>2. put' \in Piece /\ stream' \in {"closed", "good", "bad"} /\ failed' \in BOOLEAN
    BY <1>0, <2>1, Zenon DEF LogType
  <2>3. current_bytes' \in Nat
    BY <2>1 DEF LogType
  <2> QED
    BY <1>6, <2>1, <2>2, <2>3 DEF WriteLine, LogType
<1>7. CASE ProcessKilled
  BY <1>0, <1>7 DEF ProcessKilled, LogType, files
<1>8. CASE WriterDestroyed
  BY <1>8, <1>a DEF WriterDestroyed, LogType
<1>9. CASE UNCHANGED logVars
  BY <1>9 DEF logVars, files, LogType
<1> QED
  BY <1>1, <1>2, <1>3, <1>4, <1>5, <1>6, <1>7, <1>8, <1>9 DEF Next, WriteSample

(* An empty file has no lines, whole or not. *)
LEMMA EmptyBounded ==
    ASSUME NEW g PROVE Bounded(<<>>, g) /\ OfLines(<<>>, g)
<1>1. Max(Sizes) \in Nat /\ Max(Sizes) >= 1 /\ RotateBytes \in Nat
  BY LongestLine, LogAssumption
<1>2. (RotateBytes + 1) * Max(Sizes) = Max(Sizes) * RotateBytes + Max(Sizes)
  BY <1>1, Times
<1>3. Max(Sizes) * RotateBytes \in Nat
  BY <1>1, Times
<1>4. Bounded(<<>>, g)
  BY <1>1, <1>2, <1>3, BytesEmpty DEF Bounded
<1> QED
  BY <1>4 DEF OfLines

(* Every step keeps to lines that were given. *)
LEMMA NextNumbered ==
    LogType /\ Numbered /\ Accounting /\ [Next]_logVars => Numbered'
<1> SUFFICES ASSUME LogType, Numbered, Accounting, [Next]_logVars PROVE Numbered'
  OBVIOUS
<1>0. /\ OfLines(log, given) /\ OfLines(rotated, given)
      /\ put \in Piece /\ put.bytes \in Nat /\ log \in Seq(Piece) /\ given \in Seq(Nat)
      /\ NoLine.bytes = 0
  BY DEF Numbered, LogType, Piece, NoLine
<1>a. ASSUME CloseStream, given' = given PROVE OfLines(log', given')
  <2>1. PICK stored \in Nat : stored <= put.bytes /\ log' = Stored(log, put, stored)
    BY <1>a, CloseEffect, Zenon
  <2>2. CASE stored = 0
    BY <1>0, <1>a, <2>1, <2>2 DEF Stored
  <2>3. CASE stored # 0
    <3>1. put.line \in DOMAIN given
      BY <1>0, <2>1, <2>3 DEF Numbered
    <3> QED
      BY <1>0, <1>a, <2>1, <3>1, StoredWhole
  <2> QED
    BY <2>2, <2>3
<1>b. ASSUME CloseStream, given' = given, rotated' = rotated PROVE Numbered'
  <2>1. put' = NoLine
    BY <1>b DEF CloseStream
  <2> QED
    BY <1>0, <1>a, <1>b, <2>1 DEF Numbered
<1>1. CASE OpenIfNeeded
  BY <1>1 DEF OpenIfNeeded, Numbered, files
<1>2. CASE RotateCheck
  <2>1. CASE Rotates
    BY <1>2, <1>b, <2>1 DEF RotateCheck
  <2>2. CASE ~Rotates
    BY <1>2, <2>2 DEF RotateCheck, Numbered
  <2> QED
    BY <2>1, <2>2
<1>3. CASE RemoveRotated
  <2>1. OfLines(rotated', given')
    BY <1>0, <1>3, EmptyBounded DEF RemoveRotated
  <2> QED
    BY <1>3, <2>1 DEF RemoveRotated, Numbered
<1>4. CASE RenameLog
  <2>1. OfLines(log', given') /\ OfLines(rotated', given')
    BY <1>0, <1>4, EmptyBounded DEF RenameLog, files
  <2> QED
    BY <1>4, <2>1 DEF RenameLog, Numbered
<1>5. CASE ReopenTruncated
  <2>1. OfLines(log', given')
    BY <1>5, EmptyBounded DEF ReopenTruncated
  <2>2. put.bytes = 0
    BY <1>0, <1>5 DEF ReopenTruncated, Numbered, Accounting
  <2> QED
    BY <1>5, <2>1, <2>2 DEF ReopenTruncated, Numbered
<1>6. CASE WriteLine
  <2>1. PICK size \in Sizes, stored \in Nat :
            /\ size \in Nat /\ size >= 1 /\ Area(size) \in Piece
            /\ stored <= Area(size).bytes
            /\ log' = Stored(log, Area(size), stored)
            /\ put' = IF stored < Area(size).bytes THEN Area(size) ELSE NoLine
            /\ stream' = IF stored < Area(size).bytes THEN "bad" ELSE stream
            /\ given' = Append(given, size)
    BY <1>6, WriteEffect, Zenon
  <2>2. /\ Len(given) + 1 \in DOMAIN given' /\ given'[Len(given) + 1] = size
        /\ \A n \in DOMAIN given : n \in DOMAIN given' /\ given'[n] = given[n]
        /\ OfLines(log, given') /\ OfLines(rotated, given')
    BY <1>0, <2>1, GivenGrows
  <2>3. Area(size).bytes > 0 => /\ Area(size).bytes \in Sizes
                                /\ Area(size).line \in DOMAIN given'
                                /\ given'[Area(size).line] = Area(size).bytes
    BY <2>1, <2>2 DEF Area, Numbered
  <2>4. OfLines(log', given')
    <3>1. CASE stored = 0
      BY <2>1, <2>2, <3>1 DEF Stored
    <3>2. CASE stored # 0
      <4>1. Area(size).line \in DOMAIN given'
        BY <2>1, <2>3, <3>2 DEF Piece
      <4> QED
        BY <1>0, <2>1, <2>2, <4>1, StoredWhole, Zenon
    <3> QED
      BY <3>1, <3>2
  <2>5. rotated' = rotated
    BY <1>6 DEF WriteLine
  <2> QED
    BY <1>0, <2>1, <2>2, <2>3, <2>4, <2>5 DEF Numbered
<1>7. CASE ProcessKilled
  BY <1>0, <1>7 DEF ProcessKilled, Numbered, files
<1>8. CASE WriterDestroyed
  BY <1>8, <1>b DEF WriterDestroyed
<1>9. CASE UNCHANGED logVars
  BY <1>9 DEF logVars, files, Numbered
<1> QED
  BY <1>1, <1>2, <1>3, <1>4, <1>5, <1>6, <1>7, <1>8, <1>9 DEF Next, WriteSample

(* Every step keeps the counter up with the file, and the file bounded. *)
LEMMA NextAccounting ==
    LogType /\ Numbered /\ Accounting /\ [Next]_logVars => Accounting'
<1> SUFFICES ASSUME LogType, Numbered, Accounting, [Next]_logVars PROVE Accounting'
  OBVIOUS
<1> DEFINE M == Max(Sizes)
           MR == M * RotateBytes
           MC == M * current_bytes
<1>0. /\ Bounded(log, given) /\ Bounded(rotated, given) /\ Bytes(log) \in Nat
      /\ log \in Seq(Piece) /\ given \in Seq(Nat) /\ put \in Piece /\ put.bytes \in Nat
      /\ current_bytes \in Nat /\ RotateBytes \in Nat
      /\ M \in Nat /\ M >= 1 /\ NoLine.bytes = 0
  BY BytesNat, LongestLine, LogAssumption DEF Accounting, LogType, Piece, NoLine
<1>i. put.bytes > 0 => /\ stream = "bad" /\ put.bytes <= M /\ put.line \in DOMAIN given
                       /\ given[put.line] = put.bytes
  BY LongestLine DEF Numbered
<1>j. MR \in Nat /\ MC \in Nat /\ (RotateBytes + 1) * M = MR + M
  BY <1>0, Times
<1> HIDE DEF M, MR, MC
<1>k. resyncs' = resyncs
  BY DEF Next, WriteSample, OpenIfNeeded, RotateCheck, RemoveRotated, RenameLog,
         ReopenTruncated, WriteLine, ProcessKilled, WriterDestroyed, logVars
(* A file that stays as it is stays bounded. *)
<1>l. /\ given' = given /\ log' = log => Bounded(log, given)'
      /\ given' = given /\ rotated' = rotated => Bounded(rotated, given)'
  BY <1>0, <1>k DEF Bounded
(* The close adds what is left in the put area. *)
<1>m. ASSUME CloseStream, given' = given PROVE Bounded(log, given)'
  <2>1. PICK stored \in Nat :
            /\ stored <= put.bytes /\ log' = Stored(log, put, stored)
            /\ Bytes(log') = Bytes(log) + stored
    BY <1>m, CloseEffect, Zenon
  <2>2. CASE stored = 0
    BY <1>l, <1>m, <2>1, <2>2 DEF Stored
  <2>3. CASE stored # 0
    <3>1. put.bytes > 0
      BY <1>0, <2>1, <2>3
    <3>2. WholeIn(log', given') => WholeIn(log, given)
      BY <1>0, <1>m, <2>1, StoredWhole
    <3>3. RotateBytes > 0 => /\ WholeIn(log, given) => Bytes(log) < RotateBytes
                             /\ ~resyncs => Bytes(log) + 1 < RotateBytes + put.bytes
                             /\ Bytes(log) < MR
      BY <3>1 DEF Accounting, M, MR
    <3>4. put.bytes <= M
      BY <1>i, <3>1
    <3>5. RotateBytes > 0 =>
            /\ WholeIn(log', given') => Bytes(log') < RotateBytes + M
            /\ ~resyncs => Bytes(log') < RotateBytes + 2 * M - 1
            /\ Bytes(log') < MR + M
      BY <1>0, <1>j, <2>1, <3>2, <3>3, <3>4
    <3> QED
      BY <1>j, <1>k, <3>5 DEF Bounded, M
  <2> QED
    BY <2>2, <2>3
<1>1. CASE OpenIfNeeded
  <2>1. UNCHANGED files /\ step' = "check" /\ given' = given /\ put' = put
    BY <1>1 DEF OpenIfNeeded
  <2>2. Bounded(log, given)' /\ Bounded(rotated, given)'
    BY <1>l, <2>1 DEF files
  <2>3. stream' # "closed" /\ stream' \in {stream, "good"}
    BY <1>1 DEF OpenIfNeeded
  <2>4. /\ stream' = "good" => Bytes(log) <= current_bytes'
        /\ Bytes(log) <= M * current_bytes'
    <3>1. Bytes(log) <= M * Bytes(log)
      BY <1>0, Times
    <3> QED
      BY <1>0, <1>1, <3>1 DEF OpenIfNeeded, Accounting, M
  <2> QED
    BY <1>k, <2>1, <2>2, <2>3, <2>4 DEF Accounting, files, M
<1>2. CASE RotateCheck
  <2>1. CASE Rotates
    <3>1. CloseStream /\ given' = given /\ rotated' = rotated /\ step' = "remove"
      BY <1>2, <2>1 DEF RotateCheck
    <3>2. put' = NoLine /\ stream' = "closed"
      BY <3>1 DEF CloseStream
    <3> QED
      BY <1>0, <1>l, <1>m, <3>1, <3>2 DEF Accounting
  <2>2. CASE ~Rotates
    <3>1. /\ UNCHANGED <<log, rotated, put, stream, given, current_bytes>>
          /\ step = "check" /\ step' = "write"
          /\ RotateBytes > 0 => current_bytes < RotateBytes
      BY <1>0, <1>2, <2>2 DEF RotateCheck, Rotates
    <3>2. Bounded(log, given)' /\ Bounded(rotated, given)'
      BY <1>l, <3>1
    <3> QED
      BY <1>k, <3>1, <3>2 DEF Accounting
  <2> QED
    BY <2>1, <2>2
<1>3. CASE RemoveRotated
  <2>1. /\ log' = log /\ rotated' \in {<<>>, rotated} /\ step' = "rename"
        /\ UNCHANGED <<stream, current_bytes, put, given>> /\ stream = "closed"
    BY <1>3 DEF RemoveRotated, Accounting
  <2>2. Bounded(log, given)' /\ Bounded(rotated, given)'
    BY <1>k, <1>l, <2>1, EmptyBounded DEF Bounded
  <2> QED
    BY <1>i, <2>1, <2>2 DEF Accounting
<1>4. CASE RenameLog
  <2>1. /\ (rotated' = log /\ log' = <<>>) \/ UNCHANGED files
        /\ step' = "reopen" /\ current_bytes' = 0 /\ UNCHANGED <<stream, put, given>>
        /\ stream = "closed"
    BY <1>4 DEF RenameLog, Accounting
  <2>2. Bounded(log, given)' /\ Bounded(rotated, given)'
    BY <1>0, <1>k, <2>1, EmptyBounded DEF Bounded, files
  <2> QED
    BY <1>i, <2>1, <2>2 DEF Accounting
<1>5. CASE ReopenTruncated
  <2>1. /\ log' = <<>> /\ rotated' = rotated /\ step' = "write" /\ stream = "closed"
        /\ current_bytes' = 0 /\ stream' = "good" /\ UNCHANGED <<put, given>>
    BY <1>5 DEF ReopenTruncated, Accounting
  <2>2. Bounded(log, given)' /\ Bounded(rotated, given)'
    BY <1>k, <1>l, <2>1, EmptyBounded DEF Bounded
  <2>3. M * 0 = 0
    BY <1>0
  <2> QED
    BY <1>0, <1>i, <2>1, <2>2, <2>3, BytesEmpty DEF Accounting, M
<1>6. CASE WriteLine
  <2>1. PICK size \in Sizes, stored \in Nat :
            /\ size \in Nat /\ size >= 1 /\ size <= M /\ Area(size) \in Piece
            /\ stored <= Area(size).bytes
            /\ stream = "good" \/ resyncs \/ stored = 0
            /\ log' = Stored(log, Area(size), stored)
            /\ put' = IF stored < Area(size).bytes THEN Area(size) ELSE NoLine
            /\ stream' = IF stored < Area(size).bytes THEN "bad" ELSE stream
            /\ Bytes(log') = Bytes(log) + stored
            /\ current_bytes' = current_bytes + size
            /\ given' = Append(given, size)
    BY <1>6, WriteEffect, Zenon DEF M
  <2> DEFINE area == Area(size)
             MD == M * current_bytes'
  <2>2. /\ step = "write" /\ step' = "idle" /\ rotated' = rotated /\ stream # "closed"
        /\ RotateBytes > 0 => current_bytes < RotateBytes
    BY <1>6 DEF WriteLine, Accounting
  <2>3. /\ WholeIn(log, given') <=> WholeIn(log, given)
        /\ WholeIn(rotated, given') <=> WholeIn(rotated, given)
        /\ given'[Len(given) + 1] = size
        /\ \A n \in DOMAIN given : given'[n] = given[n]
    BY <1>0, <2>1, GivenGrows DEF Numbered
  <2>4. /\ area \in Piece /\ area.bytes \in Nat /\ area.bytes <= M
        /\ area.bytes > 0 => given'[area.line] = area.bytes
        /\ stream = "good" => area.bytes = size
        /\ stream # "good" => area = put
    <3>1. CASE stream = "good"
      <4>1. area = [line |-> Len(given) + 1, bytes |-> size]
        BY <3>1 DEF Area
      <4>2. area.line = Len(given) + 1 /\ area.bytes = size /\ area \in Piece
        BY <2>1, <4>1
      <4> QED
        BY <2>1, <2>3, <3>1, <4>2
    <3>2. CASE stream # "good"
      <4>1. area = put
        BY <3>2 DEF Area
      <4>2. put.bytes > 0 => given'[put.line] = put.bytes /\ put.bytes <= M
        BY <1>i, <2>3
      <4> QED
        BY <1>0, <3>2, <4>1, <4>2
    <3> QED
      BY <3>1, <3>2
  <2>5. /\ stored <= area.bytes
        /\ log' = Stored(log, area, stored)
        /\ put' = IF stored < area.bytes THEN area ELSE NoLine
        /\ stream' = IF stored < area.bytes THEN "bad" ELSE stream
        /\ stream = "good" \/ resyncs \/ stored = 0
    BY <2>1, Zenon
  <2> HIDE DEF area
  <2>6. WholeIn(log', given') =>
            WholeIn(log, given) /\ (stored # 0 => stored = area.bytes)
    <3>1. WholeIn(log', given') =>
            WholeIn(log, given') /\ (stored # 0 => stored = given'[area.line])
      BY <1>0, <2>4, <2>5, StoredWhole
    <3>2. stored # 0 => area.bytes > 0
      BY <2>4, <2>5
    <3> QED
      BY <2>3, <2>4, <3>1, <3>2
  <2>7. MD \in Nat /\ MC + M <= MD /\ (RotateBytes > 0 => MC + M <= MR)
    <3>1. current_bytes' \in Nat
      BY <1>0, <2>1
    <3>2. MD \in Nat /\ MC + M <= MD
      BY <1>0, <2>1, <3>1, Times DEF MC
    <3>3. RotateBytes > 0 => MC + M <= MR
      BY <1>0, <2>2, Times DEF MC, MR
    <3> QED
      BY <3>2, <3>3
  <2> HIDE DEF MD
  <2>8. /\ Bytes(log) <= MC /\ (stream = "good" => Bytes(log) <= current_bytes)
        /\ Bytes(log') = Bytes(log) + stored
        /\ current_bytes' = current_bytes + size
        /\ size \in Nat /\ size <= M
    BY <2>1, <2>2 DEF Accounting, M, MC
  <2>9. (stream' = "good" => Bytes(log') <= current_bytes') /\ Bytes(log') <= MD
    <3>1. stream' = "good" => stream = "good"
      BY <2>5
    <3>2. stream = "good" => Bytes(log') <= current_bytes'
      BY <1>0, <2>4, <2>5, <2>8
    <3>3. Bytes(log') <= MD
      BY <1>0, <1>j, <2>4, <2>5, <2>7, <2>8
    <3> QED
      BY <3>1, <3>2, <3>3
(* What the put area may still add, before the write. *)
  <2>10. ASSUME RotateBytes > 0, area.bytes > 0
         PROVE  /\ WholeIn(log, given) => Bytes(log) < RotateBytes
                /\ ~resyncs /\ stream = "good" => Bytes(log) < RotateBytes
                /\ ~resyncs /\ stream # "good" => Bytes(log) + 1 < RotateBytes + area.bytes
    <3>1. CASE stream = "good"
      BY <1>0, <2>2, <2>8, <2>10, <3>1
    <3>2. CASE stream # "good"
      BY <2>4, <2>10, <3>2 DEF Accounting
    <3> QED
      BY <3>1, <3>2
  <2>11. RotateBytes > 0 /\ put'.bytes > 0 =>
            /\ WholeIn(log', given') => Bytes(log') < RotateBytes
            /\ ~resyncs => Bytes(log') + 1 < RotateBytes + put'.bytes
            /\ Bytes(log') < MR
    <3> SUFFICES ASSUME RotateBytes > 0, put'.bytes > 0
                 PROVE  /\ WholeIn(log', given') => Bytes(log') < RotateBytes
                        /\ ~resyncs => Bytes(log') + 1 < RotateBytes + put'.bytes
                        /\ Bytes(log') < MR
      OBVIOUS
    <3>1. stored < area.bytes /\ put' = area
      BY <1>0, <2>5
    <3>2. area.bytes > 0
      BY <3>1, <2>4
    <3>3. WholeIn(log', given') => Bytes(log') < RotateBytes
      <4>1. WholeIn(log', given') => stored = 0 /\ WholeIn(log, given)
        BY <2>4, <2>6, <3>1
      <4> QED
        BY <1>0, <2>8, <2>10, <3>2, <4>1
    <3>4. ~resyncs => Bytes(log') + 1 < RotateBytes + put'.bytes
      <4>1. CASE stream = "good"
        BY <1>0, <2>4, <2>8, <2>10, <3>1, <3>2, <4>1
      <4>2. CASE stream # "good"
        <5>1. ~resyncs => stored = 0
          BY <2>5, <4>2
        <5> QED
          BY <1>0, <2>4, <2>8, <2>10, <3>1, <3>2, <4>2, <5>1
      <4> QED
        BY <4>1, <4>2
    <3>5. Bytes(log') < MR
      BY <1>0, <1>j, <2>4, <2>7, <2>8, <3>1
    <3> QED
      BY <3>3, <3>4, <3>5
  <2>12. Bounded(log, given)'
    <3>1. CASE stored = 0
      <4>1. log' = log
        BY <2>5, <3>1 DEF Stored
      <4> QED
        BY <1>0, <1>k, <2>3, <4>1 DEF Bounded
    <3>2. CASE stored # 0
      <4> SUFFICES ASSUME RotateBytes > 0
                   PROVE  /\ WholeIn(log', given') => Bytes(log') < RotateBytes + M
                          /\ ~resyncs => Bytes(log') < RotateBytes + 2 * M - 1
                          /\ Bytes(log') < MR + M
        BY <1>j, <1>k DEF Bounded, M
      <4>1. area.bytes > 0
        BY <2>4, <2>5, <3>2
      <4>2. WholeIn(log', given') => Bytes(log') < RotateBytes + M
        BY <1>0, <2>4, <2>5, <2>6, <2>8, <2>10, <4>1
      <4>3. ~resyncs => Bytes(log') < RotateBytes + 2 * M - 1
        <5>1. ~resyncs => stream = "good"
          BY <2>5, <3>2
        <5> QED
          BY <1>0, <2>4, <2>5, <2>8, <2>10, <4>1, <5>1
      <4>4. Bytes(log') < MR + M
        BY <1>0, <1>j, <2>4, <2>5, <2>7, <2>8
      <4> QED
        BY <4>2, <4>3, <4>4
    <3> QED
      BY <3>1, <3>2
  <2>13. Bounded(rotated, given)'
    BY <1>0, <1>k, <2>2, <2>3 DEF Bounded
  <2> QED
    BY <1>k, <2>2, <2>9, <2>11, <2>12, <2>13 DEF Accounting, M, MR, MD
<1>7. CASE ProcessKilled
  <2>1. /\ UNCHANGED <<log, rotated, given>> /\ put' = NoLine
        /\ stream' = "closed" /\ step' = "idle"
    BY <1>7 DEF ProcessKilled, files
  <2> QED
    BY <1>0, <1>l, <2>1 DEF Accounting
<1>8. CASE WriterDestroyed
  <2>1. /\ CloseStream /\ UNCHANGED <<rotated, given>> /\ put' = NoLine
        /\ stream' = "closed" /\ step' = "idle"
    BY <1>8 DEF WriterDestroyed, CloseStream
  <2> QED
    BY <1>0, <1>l, <1>m, <2>1 DEF Accounting
<1>9. CASE UNCHANGED logVars
  <2>1. /\ UNCHANGED <<log, rotated, put, stream, given, current_bytes, step>>
    BY <1>9 DEF logVars, files
  <2> QED
    BY <1>k, <1>l, <2>1 DEF Accounting
<1> QED
  BY <1>1, <1>2, <1>3, <1>4, <1>5, <1>6, <1>7, <1>8, <1>9 DEF Next, WriteSample

-----------------------------------------------------------------------------
(* What write_sample was given, as whole pieces numbered as they came. *)
LinesOf(g) == [n \in DOMAIN g |-> [line |-> n, bytes |-> g[n]]]

(* The lines given are pieces. *)
LEMMA LinesArePieces ==
    ASSUME NEW g \in Seq(Nat)
    PROVE  /\ LinesOf(g) \in Seq(Piece) /\ Len(LinesOf(g)) = Len(g) /\ Len(g) \in Nat
           /\ \A n \in 1..Len(g) : LinesOf(g)[n] = [line |-> n, bytes |-> g[n]]
<1>1. Len(g) \in Nat /\ DOMAIN g = 1..Len(g)
  BY LenProperties
<1>2. \A n \in 1..Len(g) : [line |-> n, bytes |-> g[n]] \in Piece
  <2>1. \A n \in 1..Len(g) : g[n] \in Nat
    BY <1>1, ElementOfSeq
  <2> QED
    BY <1>1, <2>1 DEF Piece
<1>3. LinesOf(g) = [n \in 1..Len(g) |-> [line |-> n, bytes |-> g[n]]]
  BY <1>1 DEF LinesOf
<1>4. LinesOf(g) \in [1..Len(g) -> Piece]
  BY <1>2, <1>3
<1>5. LinesOf(g) \in Seq(Piece) /\ Len(LinesOf(g)) = Len(g)
  BY <1>1, <1>3, <1>4
<1> QED
  BY <1>1, <1>3, <1>5

(* So are those of a state. *)
LEMMA LinesGiven ==
    ASSUME LogType
    PROVE  /\ Lines = LinesOf(given) /\ Lines \in Seq(Piece)
           /\ Len(Lines) = Len(given) /\ Len(given) \in Nat
<1>1. Lines = LinesOf(given) /\ given \in Seq(Nat)
  BY DEF Lines, LinesOf, LogType
<1> QED
  BY <1>1, LinesArePieces

(* The last piece of two files can be the same. *)
LEMMA TailAppend ==
    ASSUME NEW s \in Seq(Piece), NEW t \in Seq(Piece), IsTail(s, t), NEW p \in Piece
    PROVE  IsTail(Append(s, p), Append(t, p))
<1>1. /\ Len(s) \in Nat /\ Len(t) \in Nat
      /\ Len(Append(s, p)) = Len(s) + 1 /\ Len(Append(t, p)) = Len(t) + 1
      /\ \A i \in 1..Len(s) : Append(s, p)[i] = s[i]
      /\ \A i \in 1..Len(t) : Append(t, p)[i] = t[i]
      /\ Append(s, p)[Len(s) + 1] = p /\ Append(t, p)[Len(t) + 1] = p
  BY LenProperties, AppendProperties
<1> DEFINE u == Append(s, p)
           v == Append(t, p)
<1>2. ASSUME NEW i \in 1..(Len(s) + 1)
      PROVE  u[i] = v[((Len(t) + 1) - (Len(s) + 1)) + i]
  <2> HIDE DEF u, v
  <2>1. CASE i = Len(s) + 1
    <3>1. ((Len(t) + 1) - (Len(s) + 1)) + i = Len(t) + 1
      BY <1>1, <2>1
    <3> QED
      BY <1>1, <2>1, <3>1 DEF u, v
  <2>2. CASE i \in 1..Len(s)
    <3>1. /\ ((Len(t) + 1) - (Len(s) + 1)) + i = (Len(t) - Len(s)) + i
          /\ (Len(t) - Len(s)) + i \in 1..Len(t)
      BY <1>1, <2>2 DEF IsTail
    <3>2. s[i] = t[(Len(t) - Len(s)) + i]
      BY <2>2 DEF IsTail
    <3> QED
      BY <1>1, <2>2, <3>1, <3>2 DEF u, v
  <2> QED
    BY <1>1, <2>1, <2>2
<1>3. Len(s) + 1 <= Len(t) + 1
  BY <1>1 DEF IsTail
<1> QED
  BY <1>1, <1>2, <1>3, Zenon DEF IsTail

(* The second of two files is a tail of what the two are a tail of. *)
LEMMA TailOfConcat ==
    ASSUME NEW r \in Seq(Piece), NEW s \in Seq(Piece), NEW t \in Seq(Piece),
           IsTail(r \o s, t)
    PROVE  IsTail(s, t)
<1>1. /\ Len(r) \in Nat /\ Len(s) \in Nat /\ Len(t) \in Nat
      /\ Len(r \o s) = Len(r) + Len(s)
      /\ \A i \in 1..Len(r) + Len(s) :
            (r \o s)[i] = IF i <= Len(r) THEN r[i] ELSE s[i - Len(r)]
  BY LenProperties, ConcatProperties
<1>2. Len(s) <= Len(t)
  BY <1>1 DEF IsTail
<1>3. ASSUME NEW i \in 1..Len(s) PROVE s[i] = t[(Len(t) - Len(s)) + i]
  <2>1. /\ Len(r) + i \in 1..Len(r) + Len(s) /\ ~(Len(r) + i <= Len(r))
        /\ (Len(r) + i) - Len(r) = i
        /\ (Len(t) - (Len(r) + Len(s))) + (Len(r) + i) = (Len(t) - Len(s)) + i
    BY <1>1
  <2>2. (r \o s)[Len(r) + i] = s[i]
    BY <1>1, <2>1
  <2>3. (r \o s)[Len(r) + i] = t[(Len(t) - (Len(r) + Len(s))) + (Len(r) + i)]
    BY <1>1, <2>1 DEF IsTail
  <2> QED
    BY <2>1, <2>2, <2>3
<1> QED
  BY <1>2, <1>3 DEF IsTail

(* A tail is what SequencesExt calls a suffix. *)
LEMMA TailIsSuffix ==
    ASSUME NEW s \in Seq(Piece), NEW t \in Seq(Piece), IsTail(s, t)
    PROVE  IsSuffix(s, t)
<1> DEFINE u == Reverse(s)
           v == Reverse(t)
           k == Len(s)
           m == Len(t)
<1>0. k \in Nat /\ m \in Nat /\ k <= m
  BY LenProperties DEF IsTail
<1>1. /\ u = [i \in 1..k |-> s[(k - i) + 1]] /\ v = [i \in 1..m |-> t[(m - i) + 1]]
  BY DEF Reverse
<1>2. \A i \in 1..k : s[i] \in Piece
  BY ElementOfSeq
<1>3. \A i \in 1..m : t[i] \in Piece
  BY ElementOfSeq
<1>4. \A i \in 1..k : s[i] = t[(m - k) + i]
  BY DEF IsTail
<1> HIDE DEF u, v, k, m
<1>5. u \in Seq(Piece) /\ Len(u) = k
  <2>1. \A i \in 1..k : (k - i) + 1 \in 1..k
    BY <1>0
  <2>2. u \in [1..k -> Piece]
    BY <1>1, <1>2, <2>1
  <2> QED
    BY <1>0, <2>2
<1>6. v \in Seq(Piece) /\ Len(v) = m
  <2>1. \A i \in 1..m : (m - i) + 1 \in 1..m
    BY <1>0
  <2>2. v \in [1..m -> Piece]
    BY <1>1, <1>3, <2>1
  <2> QED
    BY <1>0, <2>2
<1>7. ASSUME NEW i \in 1..k PROVE u[i] = v[i]
  <2>1. /\ (k - i) + 1 \in 1..k /\ i \in 1..m
        /\ (m - k) + ((k - i) + 1) = (m - i) + 1
    BY <1>0
  <2> QED
    BY <1>1, <1>4, <2>1
<1>8. SubSeq(u, 1, k) = SubSeq(v, 1, k)
  <2>1. SubSeq(u, 1, k) = [i \in 1..k |-> u[i]]
    BY <1>0, <1>5
  <2>2. SubSeq(v, 1, k) = [i \in 1..k |-> v[i]]
    BY <1>0, <1>6
  <2> QED
    BY <1>7, <2>1, <2>2, Zenon
<1>9. IsPrefix(u, v)
  BY <1>0, <1>5, <1>6, <1>8 DEF IsPrefix
<1> QED
  BY <1>9 DEF IsSuffix, u, v

(* The first of two files is empty: what is on disk is the other. *)
LEMMA OneFile ==
    ASSUME NEW s \in Seq(Piece)
    PROVE  <<>> \o s = s /\ s \o <<>> = s
BY ConcatEmptySeq

(* A piece written to the log is the last one on disk. *)
LEMMA WrittenLast ==
    ASSUME NEW r \in Seq(Piece), NEW s \in Seq(Piece), NEW p \in Piece
    PROVE  /\ r \o Append(s, p) = Append(r \o s, p)
           /\ r \o s \in Seq(Piece)
           /\ Bytes(Append(r \o s, p)) = Bytes(r \o s) + p.bytes
<1>1. <<p>> \in Seq(Piece) /\ r \o s \in Seq(Piece)
  BY ConcatProperties
<1>2. Append(s, p) = s \o <<p>> /\ Append(r \o s, p) = (r \o s) \o <<p>>
  BY <1>1, AppendIsConcat
<1>3. (r \o s) \o <<p>> = r \o (s \o <<p>>)
  BY <1>1, ConcatAssociative
<1> QED
  BY <1>1, <1>2, <1>3, BytesAppend, Zenon

(* A line handed over is the last of the lines. *)
LEMMA GivenLast ==
    ASSUME NEW g \in Seq(Nat), NEW size \in Nat
    PROVE  LinesOf(Append(g, size)) =
               Append(LinesOf(g), [line |-> Len(g) + 1, bytes |-> size])
<1> DEFINE p == [line |-> Len(g) + 1, bytes |-> size]
           k == Len(g)
           h == Append(g, size)
           L == LinesOf(g)
           M == LinesOf(h)
<1>1. /\ L \in Seq(Piece) /\ Len(L) = k /\ k \in Nat
      /\ \A n \in 1..k : L[n] = [line |-> n, bytes |-> g[n]]
  BY LinesArePieces
<1>2. /\ h \in Seq(Nat) /\ Len(h) = k + 1 /\ h[k + 1] = size
      /\ \A n \in 1..k : h[n] = g[n]
  BY AppendProperties
<1>3. p \in Piece
  BY <1>1 DEF Piece
<1>4. p = [line |-> k + 1, bytes |-> size]
  OBVIOUS
<1> HIDE DEF p, k, L, h
<1>5. /\ M \in Seq(Piece) /\ Len(M) = Len(h)
      /\ \A n \in 1..Len(h) : M[n] = [line |-> n, bytes |-> h[n]]
  BY <1>2, LinesArePieces
<1> HIDE DEF M
<1>6. /\ Append(L, p) \in Seq(Piece) /\ Len(Append(L, p)) = k + 1
      /\ Append(L, p)[k + 1] = p /\ \A n \in 1..k : Append(L, p)[n] = L[n]
  BY <1>1, <1>3, AppendProperties
<1>7. ASSUME NEW n \in 1..(k + 1) PROVE M[n] = Append(L, p)[n]
  <2>1. n \in 1..Len(h) /\ M[n] = [line |-> n, bytes |-> h[n]]
    BY <1>2, <1>5
  <2>2. CASE n = k + 1
    BY <1>2, <1>4, <1>6, <2>1, <2>2
  <2>3. CASE n \in 1..k
    BY <1>1, <1>2, <1>6, <2>1, <2>3
  <2> QED
    BY <1>1, <2>2, <2>3
<1>8. M = Append(L, p)
  BY <1>2, <1>5, <1>6, <1>7, SeqEqual
<1> QED
  BY <1>8 DEF M, L, p, h

(* Every step keeps the most recent lines, unless it fails. *)
LEMMA NextRecent ==
    LogType /\ LogType' /\ Numbered /\ Accounting /\ Recent /\ [Next]_logVars
        => Recent'
<1> SUFFICES ASSUME LogType, LogType', Numbered, Accounting, Recent, [Next]_logVars,
                    ~failed'
             PROVE  Recent'
  BY DEF Recent
<1>0. /\ log \in Seq(Piece) /\ rotated \in Seq(Piece) /\ Lines \in Seq(Piece)
      /\ Bytes(log) \in Nat /\ current_bytes \in Nat /\ RotateBytes \in Nat
      /\ rotated \o log \in Seq(Piece) /\ Bytes(rotated \o log) \in Nat
  <2>1. rotated \o log \in Seq(Piece)
    BY ConcatProperties DEF LogType
  <2> QED
    BY <2>1, BytesNat, LinesGiven, LogAssumption, Zenon DEF LogType
<1>a. ~failed
  <2>1. Next => (~failed' => ~failed)
    BY Zenon DEF Next, WriteSample, OpenIfNeeded, RotateCheck, RemoveRotated, RenameLog,
           ReopenTruncated, WriteLine, ProcessKilled, WriterDestroyed, LogType
  <2> QED
    BY <2>1 DEF logVars
<1>b. /\ IsTail(rotated \o log, Lines)
      /\ rotated \o log # Lines =>
            RotateBytes > 0 /\ Bytes(rotated \o log) >= RotateBytes
      /\ stream # "bad"
      /\ stream = "good" => current_bytes = Bytes(log)
      /\ step \in {"remove", "rename"} => RotateBytes > 0 /\ Bytes(log) >= RotateBytes
      /\ step = "reopen" => log = <<>>
  BY <1>a DEF Recent, OnDisk
(* Steps that move no line. *)
<1>c. ASSUME UNCHANGED <<files, given>>
      PROVE  /\ IsTail(OnDisk', Lines')
             /\ OnDisk' # Lines' => RotateBytes > 0 /\ Bytes(OnDisk') >= RotateBytes
  BY <1>b, <1>c DEF files, OnDisk, Lines
(* A close that finds nothing in the put area. *)
<1>e. CloseStream => log' = log /\ stream' = "closed"
  <2>1. put.bytes \in Nat /\ ~(put.bytes > 0)
    BY <1>b DEF Numbered, LogType, Piece
  <2> QED
    BY <2>1 DEF CloseStream, Stored
(* Steps that leave the log as all there is on disk. *)
<1>d. ASSUME given' = given, OnDisk' = log, RotateBytes > 0, Bytes(log) >= RotateBytes
      PROVE  /\ IsTail(OnDisk', Lines')
             /\ OnDisk' # Lines' => RotateBytes > 0 /\ Bytes(OnDisk') >= RotateBytes
  <2>1. Lines' = Lines
    BY <1>d DEF Lines
  <2>2. IsTail(log, Lines)
    BY <1>0, <1>b, TailOfConcat
  <2> QED
    BY <1>d, <2>1, <2>2
<1>1. CASE OpenIfNeeded
  <2>1. /\ UNCHANGED <<files, given>> /\ log' = log /\ step' = "check"
        /\ stream' # "bad" /\ current_bytes' = Bytes(log)
    BY <1>1, <1>b DEF OpenIfNeeded, files, LogType
  <2> QED
    BY <1>c, <2>1 DEF Recent
<1>2. CASE RotateCheck
  <2>1. /\ UNCHANGED <<files, given>> /\ log' = log /\ step' \in {"remove", "write"}
        /\ stream' # "bad"
        /\ stream' = "good" => current_bytes' = Bytes(log)
    BY <1>2, <1>b, <1>e DEF RotateCheck, files
  <2>2. step' = "remove" => RotateBytes > 0 /\ Bytes(log) >= RotateBytes
    <3>1. stream = "good"
      BY <1>2, <1>b DEF RotateCheck, Accounting, LogType
    <3> QED
      BY <1>0, <1>2, <1>b, <3>1 DEF RotateCheck, Rotates
  <2> QED
    BY <1>c, <2>1, <2>2 DEF Recent
<1>3. CASE RemoveRotated
  <2>1. /\ log' = log /\ given' = given /\ step' = "rename" /\ stream' = "closed"
        /\ rotated' \in {<<>>, rotated} /\ RotateBytes > 0 /\ Bytes(log) >= RotateBytes
    BY <1>3, <1>b DEF RemoveRotated, Accounting
  <2>2. CASE rotated' = rotated
    BY <1>c, <2>1, <2>2 DEF Recent, files
  <2>3. CASE rotated' = <<>>
    <3>1. OnDisk' = log
      BY <1>0, <2>1, <2>3, OneFile DEF OnDisk
    <3> QED
      BY <1>d, <2>1, <3>1 DEF Recent
  <2> QED
    BY <2>1, <2>2, <2>3
<1>4. CASE RenameLog
  <2>1. /\ rotated' = log /\ log' = <<>> /\ given' = given /\ step' = "reopen"
        /\ stream' = "closed" /\ RotateBytes > 0 /\ Bytes(log) >= RotateBytes
    BY <1>4, <1>b DEF RenameLog, Accounting
  <2>2. OnDisk' = log
    BY <1>0, <2>1, OneFile DEF OnDisk
  <2> QED
    BY <1>d, <2>1, <2>2 DEF Recent
<1>5. CASE ReopenTruncated
  <2>1. /\ UNCHANGED <<files, given>> /\ log' = <<>> /\ step' = "write"
        /\ stream' = "good" /\ current_bytes' = 0
    BY <1>5, <1>b DEF ReopenTruncated, Accounting, files
  <2> QED
    BY <1>c, <2>1, BytesEmpty DEF Recent
<1>6. CASE WriteLine
  <2> DEFINE p(size) == [line |-> Len(given) + 1, bytes |-> size]
  <2>1. step = "write" /\ stream = "good" /\ step' = "idle" /\ rotated' = rotated
    BY <1>6, <1>b DEF WriteLine, Accounting, LogType
  <2>2. \A size : Area(size) = p(size) /\ Area(size).bytes = size
    BY <2>1 DEF Area
  <2>3. PICK size \in Sizes, stored \in Nat :
            /\ size \in Nat /\ size >= 1 /\ stored <= size
            /\ log' = Stored(log, p(size), stored)
            /\ stream' = IF stored < size THEN "bad" ELSE stream
            /\ failed' = (failed \/ stored < size)
            /\ current_bytes' = current_bytes + size
            /\ given' = Append(given, size)
    BY <1>6, <2>2, WriteEffect, Zenon
  <2>4. /\ stored = size /\ size > 0
        /\ log' = Append(log, p(size)) /\ stream' = "good"
    <3>1. ~(stored < size)
      BY <2>3, Zenon
    <3>2. stored = size /\ size > 0
      BY <2>3, <3>1
    <3> QED
      BY <2>1, <2>3, <3>1, <3>2 DEF Stored
  <2>5. p(size) \in Piece /\ p(size).bytes = size
    BY <2>3, LinesGiven DEF Piece
  <2>6. current_bytes' = current_bytes + size
    BY <2>3
  <2>7. Lines' = Append(Lines, p(size))
    <3>1. Lines = LinesOf(given) /\ Lines' = LinesOf(given') /\ given \in Seq(Nat)
      BY DEF Lines, LinesOf, LogType
    <3> QED
      BY <2>3, <3>1, GivenLast
  <2> HIDE DEF p
  <2>8. /\ rotated \o Append(log, p(size)) = Append(rotated \o log, p(size))
        /\ Bytes(Append(rotated \o log, p(size))) = Bytes(rotated \o log) + p(size).bytes
    BY <1>0, <2>5, WrittenLast
  <2>9. OnDisk' = Append(rotated \o log, p(size))
    BY <2>1, <2>4, <2>8 DEF OnDisk
  <2>10. IsTail(OnDisk', Lines')
    BY <1>0, <1>b, <2>5, <2>7, <2>9, TailAppend, Zenon
  <2>11. OnDisk' # Lines' => RotateBytes > 0 /\ Bytes(OnDisk') >= RotateBytes
    <3>1. OnDisk' # Lines' => rotated \o log # Lines
      BY <2>7, <2>9
    <3>2. Bytes(OnDisk') = Bytes(rotated \o log) + size
      BY <2>5, <2>8, <2>9
    <3> QED
      BY <1>0, <1>b, <2>3, <3>1, <3>2
  <2>12. current_bytes' = Bytes(log')
    <3>1. Bytes(Append(log, p(size))) = Bytes(log) + p(size).bytes
      BY <1>0, <2>5, BytesAppend
    <3> QED
      BY <1>b, <2>1, <2>4, <2>5, <2>6, <3>1
  <2> QED
    BY <2>1, <2>4, <2>10, <2>11, <2>12 DEF Recent
<1>7. CASE ProcessKilled
  <2>1. UNCHANGED <<files, given>> /\ stream' = "closed" /\ step' = "idle"
    BY <1>7 DEF ProcessKilled
  <2> QED
    BY <1>c, <2>1 DEF Recent
<1>8. CASE WriterDestroyed
  <2>1. UNCHANGED <<files, given>> /\ stream' = "closed" /\ step' = "idle"
    BY <1>8, <1>e DEF WriterDestroyed, files
  <2> QED
    BY <1>c, <2>1 DEF Recent
<1>9. CASE UNCHANGED logVars
  <2>1. UNCHANGED <<files, given>> /\ UNCHANGED <<log, stream, step, current_bytes>>
    BY <1>9 DEF logVars, files
  <2> QED
    BY <1>b, <1>c, <2>1 DEF Recent
<1> QED
  BY <1>1, <1>2, <1>3, <1>4, <1>5, <1>6, <1>7, <1>8, <1>9 DEF Next, WriteSample

-----------------------------------------------------------------------------
(* Before the first start there is no file and no line. *)
LEMMA LogInit == Init => LogType /\ Numbered /\ Accounting /\ Recent
<1> SUFFICES ASSUME Init PROVE LogType /\ Numbered /\ Accounting /\ Recent
  OBVIOUS
<1>1. LogType
  <2>1. NoLine \in Piece
    BY DEF NoLine, Piece
  <2> QED
    BY <2>1, EmptySeq, Zenon DEF Init, LogType
<1>2. put.bytes = 0 /\ log = <<>> /\ rotated = <<>>
  BY DEF Init, NoLine
<1>3. Numbered
  BY <1>2 DEF Numbered, OfLines
<1>4. Accounting
  BY <1>2, EmptyBounded DEF Init, Accounting
<1>5. Lines = <<>> /\ OnDisk = <<>>
  <2>1. Lines \in Seq(Piece) /\ Len(Lines) = 0
    BY <1>1, LinesGiven DEF Init
  <2>2. Lines = <<>>
    BY <2>1, EmptySeq
  <2>3. OnDisk = <<>>
    BY OneFile, EmptySeq DEF OnDisk, Init
  <2> QED
    BY <2>2, <2>3
<1>6. Recent
  BY <1>5 DEF Init, Recent, IsTail
<1> QED
  BY <1>1, <1>3, <1>4, <1>6

(* The invariant holds throughout. *)
LEMMA LogInvariant == Spec => [](LogType /\ Numbered /\ Accounting /\ Recent)
<1>1. Init => LogType /\ Numbered /\ Accounting /\ Recent
  BY LogInit
<1>2. LogType /\ Numbered /\ Accounting /\ Recent /\ [Next]_logVars =>
        (LogType /\ Numbered /\ Accounting /\ Recent)'
  BY NextLogType, NextNumbered, NextAccounting, NextRecent
<1> QED
  BY <1>1, <1>2, PTL DEF Spec

(***************************************************************************)
(* For every log_rotate_bytes and every length of the lines, wherever the  *)
(* process ends between the steps of LogWriter::write_sample and whatever  *)
(* remove, rename and write fail: a file of whole lines stays less than a  *)
(* line above log_rotate_bytes, a file with a torn line less than two, if  *)
(* flush leaves a bad stream alone, and otherwise below a longest line for *)
(* each byte of log_rotate_bytes and one more, as close writes what the    *)
(* failed flush has left in the put area.                                  *)
(***************************************************************************)
THEOREM FilesAlwaysBounded == Spec => []FilesBounded
<1>1. Accounting => FilesBounded
  BY DEF Accounting, Bounded, FilesBounded, Whole, WholeIn
<1> QED
  BY <1>1, LogInvariant, PTL

(***************************************************************************)
(* For every log_rotate_bytes and every length of the lines, as long as no *)
(* rename and no write fails the two files hold the most recent lines,     *)
(* whole and in order, and log_rotate_bytes of them at least when any was  *)
(* given up, wherever the process ends during a rotation.                  *)
(***************************************************************************)
THEOREM RecentLinesAlwaysKept == Spec => []RecentLinesKept
<1>1. LogType /\ Recent => RecentLinesKept
  <2> SUFFICES ASSUME LogType, Recent, ~failed PROVE RecentLinesKept
    BY DEF RecentLinesKept
  <2>1. OnDisk \in Seq(Piece) /\ Lines \in Seq(Piece)
    BY LinesGiven, ConcatProperties DEF LogType, OnDisk
  <2>2. IsSuffix(OnDisk, Lines)
    BY <2>1, TailIsSuffix DEF Recent
  <2> QED
    BY <2>2 DEF Recent, RecentLinesKept
<1> QED
  BY <1>1, LogInvariant, PTL
=============================================================================
