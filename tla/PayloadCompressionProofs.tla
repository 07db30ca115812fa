----------------------- MODULE PayloadCompressionProofs -----------------------
(***************************************************************************)
(* Theorems about PayloadCompression, for bytes of any width and data of   *)
(* any length.  What a coder's loop puts out is defined by recursion over  *)
(* positions in the data; that it exists, and what it is, is proved by     *)
(* induction from the last position down.                                  *)
(***************************************************************************)
EXTENDS PayloadCompression, SequenceTheorems, WellFoundedInduction, TLAPS

LEMMA Least ==
  ASSUME NEW T \in SUBSET Nat, T # {}
  PROVE  \E x \in T : \A y \in T : x <= y
<1> DEFINE Less == {ss \in Nat \X Nat : ss[1] < ss[2]}
<1>1. IsWellFoundedOn(Less, Nat)
  BY NatLessThanWellFounded DEF OpToRel
<1>2. PICK x \in T : \A y \in T : ~ (<<y, x>> \in Less)
  <2> HIDE DEF Less
  <2> QED BY <1>1, WFMin, Zenon
<1>3. ASSUME NEW y \in T PROVE x <= y
  <2>1. ~ (<<y, x>> \in Less)
    BY <1>2
  <2> QED BY <2>1
<1> QED BY <1>3

\* Induction from m down to 1.
LEMMA Downward ==
  ASSUME NEW m \in Nat, NEW P,
         \A i \in 1 .. m : i + 1 .. m \subseteq P => i \in P
  PROVE  1 .. m \subseteq P
<1> SUFFICES ASSUME NEW j \in 1 .. m, j \notin P PROVE FALSE
  OBVIOUS
<1> DEFINE T == {k \in Nat : k < m /\ m - k \notin P}
<1>1. m - j \in T
  OBVIOUS
<1>2. PICK k \in T : \A l \in T : k <= l
  <2>1. T \in SUBSET Nat /\ T # {}
    BY <1>1
  <2> HIDE DEF T
  <2> QED BY <2>1, Least
<1>3. m - k \in 1 .. m /\ m - k \notin P
  BY <1>2
<1>4. m - k + 1 .. m \subseteq P
  <2> SUFFICES ASSUME NEW i \in m - k + 1 .. m, i \notin P PROVE FALSE
    OBVIOUS
  <2>1. m - i \in T /\ m - i < k
    BY <1>2
  <2> QED BY <1>2, <2>1
<1> QED BY <1>3, <1>4
-----------------------------------------------------------------------------
(* The loop of a coder. *)

\* Tokens that a loop over n positions can be made of.
Tokens(n, S, tokens) ==
  \A i \in 1 .. n : tokens[i].bytes \in Seq(S) /\ tokens[i].length \in 1 .. n + 1 - i

\* f says what is put out from each position on.
PutsOut(n, tokens, f, i) ==
  f[i] = IF i > n THEN <<>>
         ELSE LET token == tokens[i] IN token.bytes \o f[i + token.length]
Describes(n, tokens, f) == \A i \in 1 .. n + 1 : PutsOut(n, tokens, f, i)

\* What is put out from every position on, and that it is unique.
LEMMA PutOutExists ==
  ASSUME NEW n \in Nat, NEW S, NEW tokens, Tokens(n, S, tokens)
  PROVE  \E f \in [1 .. n + 1 -> Seq(S)] : Describes(n, tokens, f)
<1> DEFINE Defined(i, f) == /\ f \in [i .. n + 1 -> Seq(S)]
                            /\ \A j \in i .. n + 1 : PutsOut(n, tokens, f, j)
           P == {i \in 1 .. n + 1 : \E f : Defined(i, f)}
<1>1. n + 1 \in P
  <2> DEFINE f == [j \in n + 1 .. n + 1 |-> <<>>]
  <2>1. f \in [n + 1 .. n + 1 -> Seq(S)]
    OBVIOUS
  <2>2. \A j \in n + 1 .. n + 1 : j > n /\ f[j] = <<>>
    OBVIOUS
  <2>3. Defined(n + 1, f)
    <3> HIDE DEF f
    <3> QED BY <2>1, <2>2 DEF PutsOut
  <2>4. n + 1 \in 1 .. n + 1
    OBVIOUS
  <2> HIDE DEF Defined
  <2> QED BY <2>3, <2>4
<1>2. ASSUME NEW i \in 1 .. n, i + 1 \in P PROVE i \in P
  <2>1. PICK f : Defined(i + 1, f)
    BY <1>2
  <2> DEFINE length == tokens[i].length
             g == [j \in i .. n + 1 |-> IF j = i THEN tokens[i].bytes \o f[i + length] ELSE f[j]]
  <2>2. length \in 1 .. n + 1 - i /\ tokens[i].bytes \in Seq(S)
    BY DEF Tokens
  <2> HIDE DEF length
  <2>3. i + length \in i + 1 .. n + 1 /\ f[i + length] \in Seq(S)
    BY <2>1, <2>2
  <2>4. tokens[i].bytes \o f[i + length] \in Seq(S)
    BY <2>2, <2>3
  <2>5. g \in [i .. n + 1 -> Seq(S)]
    <3>1. \A j \in i .. n + 1 : j # i => f[j] \in Seq(S)
      BY <2>1
    <3> QED BY <2>4, <3>1
  <2>6. PutsOut(n, tokens, g, i)
    <3>1. i \in i .. n + 1 /\ i + length \in i .. n + 1 /\ i + length # i /\ ~ (i > n)
      BY <2>2, <2>3
    <3>2. g[i] = tokens[i].bytes \o f[i + length]
      BY <3>1
    <3>3. g[i + length] = f[i + length]
      BY <3>1
    <3>4. g[i] = tokens[i].bytes \o g[i + tokens[i].length]
      BY <3>2, <3>3 DEF length
    <3> HIDE DEF g
    <3> QED BY <3>1, <3>4, Zenon DEF PutsOut
  <2>7. ASSUME NEW j \in i + 1 .. n + 1 PROVE PutsOut(n, tokens, g, j)
    <3>1. PutsOut(n, tokens, f, j)
      BY <2>1
    <3>2. j \in i .. n + 1 /\ j # i
      OBVIOUS
    <3>3. g[j] = f[j]
      BY <3>2
    <3>4. CASE j > n
      <4> HIDE DEF g
      <4> QED BY <3>1, <3>3, <3>4 DEF PutsOut
    <3>5. CASE j <= n
      <4> DEFINE k == j + tokens[j].length
      <4>1. k \in i .. n + 1 /\ k # i
        BY <3>5 DEF Tokens
      <4>2. g[k] = f[k]
        <5> HIDE DEF k
        <5> QED BY <4>1
      <4> HIDE DEF g
      <4> QED BY <3>1, <3>3, <4>2 DEF PutsOut
    <3> QED BY <3>4, <3>5
  <2>8. Defined(i, g)
    <3>1. \A j \in i .. n + 1 : j = i \/ j \in i + 1 .. n + 1
      OBVIOUS
    <3> HIDE DEF g
    <3> QED BY <2>5, <2>6, <2>7, <3>1
  <2> HIDE DEF Defined
  <2> QED BY <2>8
<1>3. ASSUME NEW i \in 1 .. n + 1, i + 1 .. n + 1 \subseteq P PROVE i \in P
  <2> HIDE DEF P
  <2> QED BY <1>1, <1>2, <1>3
<1>4. 1 .. n + 1 \subseteq P
  <2>1. n + 1 \in Nat
    OBVIOUS
  <2> HIDE DEF P
  <2>2. \A i \in 1 .. n + 1 : i + 1 .. n + 1 \subseteq P => i \in P
    BY <1>3
  <2> QED BY <2>1, <2>2, Downward, Zenon
<1>5. PICK f : Defined(1, f)
  BY <1>4
<1> QED BY <1>5 DEF Describes

LEMMA PutOutUnique ==
  ASSUME NEW n \in Nat, NEW S, NEW tokens, Tokens(n, S, tokens),
         NEW f, Describes(n, tokens, f), NEW g, Describes(n, tokens, g)
  PROVE  \A i \in 1 .. n + 1 : f[i] = g[i]
<1> DEFINE P == {i \in 1 .. n + 1 : f[i] = g[i]}
<1>1. ASSUME NEW i \in 1 .. n + 1, i + 1 .. n + 1 \subseteq P PROVE i \in P
  <2>1. CASE i > n
    BY <2>1 DEF Describes, PutsOut
  <2>2. CASE i <= n
    <3>1. i + tokens[i].length \in i + 1 .. n + 1
      BY <2>2 DEF Tokens
    <3>2. f[i + tokens[i].length] = g[i + tokens[i].length]
      BY <1>1, <3>1
    <3> QED BY <3>2 DEF Describes, PutsOut
  <2> QED BY <2>1, <2>2
<1>2. 1 .. n + 1 \subseteq P
  <2>1. n + 1 \in Nat
    OBVIOUS
  <2>2. \A i \in 1 .. n + 1 : i + 1 .. n + 1 \subseteq P => i \in P
    BY <1>1
  <2> HIDE DEF P
  <2> QED BY <2>1, <2>2, Downward, Zenon
<1> QED BY <1>2

LEMMA PutOutIs ==
  ASSUME NEW n \in Nat, NEW S, NEW tokens, Tokens(n, S, tokens),
         NEW f, Describes(n, tokens, f)
  PROVE  PutOut(n, tokens) = f[1]
<1> DEFINE Body(g) == [i \in 1 .. n + 1 |->
                         IF i > n THEN <<>>
                         ELSE LET token == tokens[i] IN token.bytes \o g[i + token.length]]
           from == CHOOSE g : g = Body(g)
<1>1. PICK h \in [1 .. n + 1 -> Seq(S)] : Describes(n, tokens, h)
  BY PutOutExists
<1>2. h = Body(h)
  BY <1>1 DEF Describes, PutsOut
<1>3. from = Body(from)
  <2> HIDE DEF Body
  <2> QED BY <1>2
<1>4. Describes(n, tokens, from)
  <2> HIDE DEF from
  <2> QED BY <1>3 DEF Describes, PutsOut
<1>5. from[1] = f[1]
  <2> HIDE DEF from
  <2> QED BY <1>4, PutOutUnique
<1>6. PutOut(n, tokens) = from[1]
  BY DEF PutOut
<1> QED BY <1>5, <1>6

\* Other data goes on as this does behind its first k positions.
GoesOn(rest, tokens, n, k) == \A i \in 1 .. n - k : rest[i] = tokens[i + k]

\* What is put out is the first token's bytes and what the tokens behind it put
\* out, which may be those of other data that goes on in the same way.
LEMMA PutOutRest ==
  ASSUME NEW n \in Nat, NEW S, NEW tokens, Tokens(n, S, tokens),
         NEW f, Describes(n, tokens, f), NEW k \in 0 .. n,
         NEW rest, GoesOn(rest, tokens, n, k)
  PROVE  PutOut(n - k, rest) = f[k + 1]
<1> DEFINE g == [i \in 1 .. n - k + 1 |-> f[i + k]]
<1>1. n - k \in Nat /\ Tokens(n - k, S, rest)
  <2>1. n - k \in Nat
    OBVIOUS
  <2>2. ASSUME NEW i \in 1 .. n - k
        PROVE  rest[i].bytes \in Seq(S) /\ rest[i].length \in 1 .. n - k + 1 - i
    <3>1. i + k \in 1 .. n /\ n + 1 - (i + k) = n - k + 1 - i
      OBVIOUS
    <3>2. tokens[i + k].bytes \in Seq(S) /\ tokens[i + k].length \in 1 .. n + 1 - (i + k)
      BY <3>1 DEF Tokens
    <3>3. rest[i] = tokens[i + k]
      BY DEF GoesOn
    <3> QED BY <3>1, <3>2, <3>3
  <2> QED BY <2>1, <2>2 DEF Tokens
<1>2. ASSUME NEW i \in 1 .. n - k + 1 PROVE PutsOut(n - k, rest, g, i)
  <2>1. PutsOut(n, tokens, f, i + k) /\ g[i] = f[i + k]
    BY DEF Describes
  <2>2. CASE i > n - k
    <3> HIDE DEF g
    <3> QED BY <2>1, <2>2 DEF PutsOut
  <2>3. CASE i <= n - k
    <3> DEFINE j == i + rest[i].length
    <3>1. j \in 1 .. n - k + 1 /\ rest[i] = tokens[i + k] /\ ~ (i > n - k) /\ ~ (i + k > n)
      BY <1>1, <2>3 DEF Tokens, GoesOn
    <3>2. i + k + tokens[i + k].length = j + k
      BY <1>1, <2>3 DEF Tokens, GoesOn
    <3>3. g[j] = f[j + k]
      <4> HIDE DEF j
      <4> QED BY <3>1
    <3> HIDE DEF g
    <3> QED BY <2>1, <3>1, <3>2, <3>3 DEF PutsOut
  <2> QED BY <2>2, <2>3
<1>3. Describes(n - k, rest, g)
  <2> HIDE DEF g
  <2> QED BY <1>2 DEF Describes
<1>4. g[1] = f[k + 1]
  OBVIOUS
<1> HIDE DEF g
<1> QED BY <1>1, <1>3, <1>4, PutOutIs

LEMMA PutOutStep ==
  ASSUME NEW n \in Nat \ {0}, NEW S, NEW tokens, Tokens(n, S, tokens),
         NEW k \in 1 .. n, NEW bytes, tokens[1] = TokenOf(bytes, k),
         NEW rest, GoesOn(rest, tokens, n, k)
  PROVE  /\ PutOut(n - k, rest) \in Seq(S)
         /\ PutOut(n, tokens) = bytes \o PutOut(n - k, rest)
<1>1. PICK f \in [1 .. n + 1 -> Seq(S)] : Describes(n, tokens, f)
  BY PutOutExists
<1>2. n \in Nat /\ k \in 0 .. n
  OBVIOUS
<1>3. tokens[1].bytes = bytes /\ tokens[1].length = k
  BY DEF TokenOf
<1>4. f[1] = bytes \o f[k + 1]
  <2>1. PutsOut(n, tokens, f, 1) /\ ~ (1 > n)
    BY <1>1 DEF Describes
  <2>2. f[1] = bytes \o f[1 + k]
    BY <1>3, <2>1, Zenon DEF PutsOut
  <2>3. 1 + k = k + 1
    BY <1>2
  <2> QED BY <2>2, <2>3
<1>5. PutOut(n - k, rest) = f[k + 1]
  BY <1>1, <1>2, PutOutRest
<1>6. f[k + 1] \in Seq(S)
  BY <1>1, <1>2
<1>7. PutOut(n, tokens) = f[1]
  BY <1>1, <1>2, PutOutIs
<1> QED BY <1>4, <1>5, <1>6, <1>7
-----------------------------------------------------------------------------
(* Bytes, and the run-length coder. *)

Bytes == 0 .. Byte - 1

LEMMA ByteValues ==
  /\ Byte \in Nat /\ Byte >= 4 /\ Escape \in 3 .. Byte - 1 /\ Escape \in Bytes /\ 0 \in Bytes
  /\ Nibble \in 2 .. Byte - 1
<1>1. Nibble \in Nat /\ Nibble >= 2
  BY NibbleAssumption DEF NibbleAssumption
<1>2. Byte \in Nat /\ Byte >= 4 /\ Nibble < Byte
  BY <1>1 DEF Byte
<1> QED BY <1>1, <1>2 DEF Escape, Bytes

\* The run at i ends: at the end of the data, at another byte, or at the
\* largest count.
LEMMA RunLengthIs ==
  ASSUME NEW data \in Seq(Bytes), NEW i \in 1 .. Len(data)
  PROVE  /\ RunLength(data, i) \in 1 .. Len(data) - i + 1
         /\ RunLength(data, i) <= Escape
         /\ \A k \in 0 .. RunLength(data, i) - 1 : data[i + k] = data[i]
<1> DEFINE Ends(n) == n = Escape \/ i + n = Len(data) + 1 \/ data[i + n] # data[i]
           T == {n \in Nat : n >= 1 /\ Ends(n)}
           Run(n) == /\ n <= Escape
                     /\ \A k \in 0 .. n - 1 : data[i + k] = data[i]
                     /\ Ends(n)
<1>1. Len(data) \in Nat /\ Len(data) - i + 1 \in T
  OBVIOUS
<1>2. PICK n \in T : \A l \in T : n <= l
  <2>1. T \in SUBSET Nat /\ T # {}
    BY <1>1
  <2> HIDE DEF T
  <2> QED BY <2>1, Least
<1>3. n \in 1 .. Len(data) - i + 1 /\ Ends(n)
  <2>1. n \in Nat /\ n >= 1 /\ Ends(n)
    <3> HIDE DEF Ends
    <3> QED BY <1>2
  <2>2. n <= Len(data) - i + 1
    <3> HIDE DEF T
    <3> QED BY <1>1, <1>2
  <2> QED BY <1>1, <2>1, <2>2
<1>4. Escape \in T
  BY ByteValues
<1>5. \A k \in 0 .. n - 1 : data[i + k] = data[i]
  <2> SUFFICES ASSUME NEW k \in 0 .. n - 1 PROVE data[i + k] = data[i]
    OBVIOUS
  <2>1. CASE k = 0
    BY <2>1
  <2>2. CASE k # 0
    <3>1. k \in Nat /\ k >= 1 /\ k < n
      BY <1>3, <2>2
    <3>2. k \notin T
      <4> HIDE DEF T
      <4> QED BY <1>2, <1>3, <3>1
    <3> QED BY <3>1, <3>2
  <2> QED BY <2>1, <2>2
<1>6. Run(n)
  <2>1. n <= Escape
    <3> HIDE DEF T
    <3> QED BY <1>2, <1>4
  <2> QED BY <1>3, <1>5, <2>1
<1>7. RunLength(data, i) = CHOOSE m \in 1 .. Len(data) - i + 1 : Run(m)
  BY DEF RunLength
<1>8. RunLength(data, i) \in 1 .. Len(data) - i + 1 /\ Run(RunLength(data, i))
  <2> HIDE DEF Run
  <2> QED BY <1>3, <1>6, <1>7
<1> QED BY <1>8

LEMMA RepeatIs ==
  ASSUME NEW value \in Bytes, NEW n \in Nat
  PROVE  /\ Repeat(value, n) \in Seq(Bytes) /\ Len(Repeat(value, n)) = n
         /\ \A k \in 1 .. n : Repeat(value, n)[k] = value
BY DEF Repeat

\* The loops of both directions.
LEMMA RleTokens ==
  ASSUME NEW data \in Seq(Bytes)
  PROVE  Tokens(Len(data), Bytes, [i \in DOMAIN data |-> RleToken(data, i)])
<1> SUFFICES ASSUME NEW i \in 1 .. Len(data)
             PROVE  /\ RleToken(data, i).bytes \in Seq(Bytes)
                    /\ RleToken(data, i).length \in 1 .. Len(data) + 1 - i
  BY DEF Tokens
<1>1. data[i] \in Bytes
  OBVIOUS
<1> DEFINE n == RunLength(data, i)
<1>2. n \in 1 .. Len(data) - i + 1 /\ n \in Bytes
  BY RunLengthIs, ByteValues DEF Bytes, Escape
<1>3. CASE n >= 3
  <2>1. RleToken(data, i) = [bytes |-> <<Escape, n, data[i]>>, length |-> n]
    BY <1>3 DEF RleToken, TokenOf
  <2>2. <<Escape, n, data[i]>> \in Seq(Bytes)
    BY <1>1, <1>2, ByteValues
  <2> HIDE DEF n
  <2> QED BY <1>2, <2>1, <2>2
<1>4. CASE ~ (n >= 3)
  <2>1. RleToken(data, i) = [bytes |-> RleLiteral(data[i]), length |-> 1]
    BY <1>4 DEF RleToken, TokenOf
  <2>2. RleLiteral(data[i]) \in Seq(Bytes)
    BY <1>1, ByteValues DEF RleLiteral
  <2> QED BY <2>1, <2>2
<1> QED BY <1>3, <1>4

LEMMA RleMeanings ==
  ASSUME NEW data \in Seq(Bytes)
  PROVE  Tokens(Len(data), Bytes, [i \in DOMAIN data |-> RleMeaning(data, i)])
<1> SUFFICES ASSUME NEW i \in 1 .. Len(data)
             PROVE  /\ RleMeaning(data, i).bytes \in Seq(Bytes)
                    /\ RleMeaning(data, i).length \in 1 .. Len(data) + 1 - i
  BY DEF Tokens
<1>1. data[i] \in Bytes /\ <<data[i]>> \in Seq(Bytes)
  OBVIOUS
<1>2. <<Escape>> \in Seq(Bytes) /\ <<>> \in Seq(Bytes)
  BY ByteValues
<1>3. CASE data[i] # Escape
  BY <1>1, <1>3 DEF RleMeaning, TokenOf
<1>4. CASE data[i] = Escape /\ i + 1 <= Len(data) /\ data[i + 1] = 0
  BY <1>2, <1>4 DEF RleMeaning, TokenOf
<1>5. CASE data[i] = Escape /\ ~ (i + 1 <= Len(data) /\ data[i + 1] = 0) /\ i + 2 <= Len(data)
  <2>1. data[i + 1] \in Nat /\ data[i + 2] \in Bytes
    BY <1>5, ByteValues DEF Bytes
  <2>2. Repeat(data[i + 2], data[i + 1]) \in Seq(Bytes)
    BY <2>1, RepeatIs
  <2> QED BY <1>5, <2>2 DEF RleMeaning, TokenOf
<1>6. CASE data[i] = Escape /\ ~ (i + 1 <= Len(data) /\ data[i + 1] = 0) /\ ~ (i + 2 <= Len(data))
  BY <1>2, <1>6 DEF RleMeaning, TokenOf
<1> QED BY <1>3, <1>4, <1>5, <1>6

-----------------------------------------------------------------------------
(* What was put in comes out. *)

\* The decoder's meaning of data does not depend on what it already read.
LEMMA RleDecodes ==
  ASSUME NEW head \in Seq(Bytes), head # <<>>, NEW rest \in Seq(Bytes), NEW bytes,
         RleMeaning(head \o rest, 1) = TokenOf(bytes, Len(head))
  PROVE  RleDecompress(head \o rest) = bytes \o RleDecompress(rest)
<1> DEFINE e == head \o rest
           meanings == [i \in DOMAIN e |-> RleMeaning(e, i)]
           behind == [i \in DOMAIN rest |-> RleMeaning(rest, i)]
           k == Len(head)
<1>1. /\ e \in Seq(Bytes) /\ k \in Nat \ {0} /\ Len(rest) \in Nat
      /\ Len(e) = k + Len(rest)
      /\ \A i \in 1 .. Len(rest) : e[i + k] = rest[i]
      /\ DOMAIN e = 1 .. Len(e) /\ DOMAIN rest = 1 .. Len(rest)
  BY ConcatProperties, LenProperties, EmptySeq
<1>2. meanings[1] = TokenOf(bytes, k)
  BY <1>1
<1> HIDE DEF e, k
<1>3. GoesOn(behind, meanings, Len(e), k)
  <2> SUFFICES ASSUME NEW i \in 1 .. Len(rest)
               PROVE  behind[i] = meanings[i + k]
    BY <1>1 DEF GoesOn
  <2>1. i + k \in DOMAIN e /\ i \in DOMAIN rest
    BY <1>1
  <2>2. behind[i] = RleMeaning(rest, i) /\ meanings[i + k] = RleMeaning(e, i + k)
    BY <2>1
  <2>3. /\ i + 1 <= Len(rest) <=> i + k + 1 <= Len(e)
        /\ i + 2 <= Len(rest) <=> i + k + 2 <= Len(e)
    BY <1>1
  <2>4. /\ e[i + k] = rest[i]
        /\ i + 1 <= Len(rest) => e[i + k + 1] = rest[i + 1]
        /\ i + 2 <= Len(rest) => e[i + k + 2] = rest[i + 2]
    <3>1. i + 1 <= Len(rest) => i + 1 \in 1 .. Len(rest) /\ (i + 1) + k = i + k + 1
      BY <1>1
    <3>2. i + 2 <= Len(rest) => i + 2 \in 1 .. Len(rest) /\ (i + 2) + k = i + k + 2
      BY <1>1
    <3> QED BY <1>1, <3>1, <3>2
  <2>5. RleMeaning(rest, i) = RleMeaning(e, i + k)
    <3>1. CASE rest[i] = Escape /\ i + 1 <= Len(rest)
      BY <2>3, <2>4, <3>1 DEF RleMeaning
    <3>2. CASE rest[i] = Escape /\ ~ (i + 1 <= Len(rest))
      BY <2>3, <2>4, <3>2 DEF RleMeaning
    <3>3. CASE rest[i] # Escape
      BY <2>4, <3>3 DEF RleMeaning
    <3> QED BY <3>1, <3>2, <3>3
  <2> QED BY <2>2, <2>5
<1>4. Tokens(Len(e), Bytes, meanings)
  BY <1>1, RleMeanings
<1>5. Len(e) \in Nat \ {0} /\ k \in 1 .. Len(e)
  BY <1>1
<1>6. PutOut(Len(e), meanings) = bytes \o PutOut(Len(e) - k, behind)
  <2> HIDE DEF meanings, behind
  <2> QED BY <1>2, <1>3, <1>4, <1>5, PutOutStep
<1>7. Len(e) - k = Len(rest)
  BY <1>1
<1> QED BY <1>6, <1>7 DEF RleDecompress, e


LEMMA RleOfNothing == RleDecompress(<<>>) = <<>>
<1> DEFINE meanings == [i \in DOMAIN <<>> |-> RleMeaning(<<>>, i)]
           f == [i \in 1 .. 1 |-> <<>>]
<1>1. Tokens(0, Bytes, meanings)
  BY DEF Tokens
<1>2. Describes(0, meanings, f)
  BY DEF Describes, PutsOut
<1>3. PutOut(0, meanings) = f[1] /\ f[1] = <<>>
  BY <1>1, <1>2, PutOutIs
<1> QED BY <1>3 DEF RleDecompress

\* One token of the encoder, decoded: the bytes that it stands for.
LEMMA RleTokenDecodes ==
  ASSUME NEW data \in Seq(Bytes), NEW i \in 1 .. Len(data), NEW rest \in Seq(Bytes)
  PROVE  RleDecompress(RleToken(data, i).bytes \o rest)
           = SubSeq(data, i, i + RleToken(data, i).length - 1) \o RleDecompress(rest)
<1> DEFINE n == RunLength(data, i)
           token == RleToken(data, i)
<1>1. /\ n \in 1 .. Len(data) - i + 1 /\ n \in Bytes
      /\ \A k \in 0 .. n - 1 : data[i + k] = data[i]
  BY RunLengthIs, ByteValues DEF Bytes, Escape
<1>2. data[i] \in Bytes /\ Len(data) \in Nat
  OBVIOUS
<1>3. SubSeq(data, i, i) = <<data[i]>>
  <2> DEFINE s == SubSeq(data, i, i)
  <2>1. s \in Seq(Bytes) /\ Len(s) = 1 /\ s[1] = data[i]
    BY <1>2
  <2> HIDE DEF s
  <2>2. s = <<data[i]>>
    BY <1>2, <2>1
  <2> QED BY <2>2 DEF s
<1>4. CASE n >= 3
  <2> DEFINE head == <<Escape, n, data[i]>>
  <2>1. token.bytes = head /\ token.length = n
    BY <1>4 DEF RleToken, TokenOf
  <2> HIDE DEF n
  <2>2. head \in Seq(Bytes) /\ head # <<>> /\ Len(head) = 3
    BY <1>1, <1>2, ByteValues
  <2>3. /\ (head \o rest)[1] = Escape /\ (head \o rest)[2] = n /\ (head \o rest)[3] = data[i]
        /\ Len(head \o rest) = 3 + Len(rest) /\ Len(rest) \in Nat
    BY <1>1, <1>2, ByteValues, <2>2
  <2>4. n # 0
    BY <1>1
  <2> HIDE DEF head
  <2>5. RleMeaning(head \o rest, 1) = TokenOf(Repeat(data[i], n), Len(head))
    BY <2>2, <2>3, <2>4 DEF RleMeaning
  <2>6. RleDecompress(head \o rest) = Repeat(data[i], n) \o RleDecompress(rest)
    BY <2>2, <2>5, RleDecodes
  <2>7. Repeat(data[i], n) = SubSeq(data, i, i + n - 1)
    <3> DEFINE s == SubSeq(data, i, i + n - 1)
    <3>1. s \in Seq(Bytes) /\ Len(s) = n /\ \A k \in 1 .. n : s[k] = data[i + k - 1]
      BY <1>1, <1>2
    <3>2. \A k \in 1 .. n : s[k] = data[i]
      <4> HIDE DEF s
      <4> SUFFICES ASSUME NEW k \in 1 .. n PROVE s[k] = data[i]
        OBVIOUS
      <4>1. k - 1 \in 0 .. n - 1 /\ i + (k - 1) = i + k - 1
        BY <1>1
      <4> QED BY <1>1, <3>1, <4>1
    <3>3. n \in Nat
      BY <1>1
    <3> DEFINE u == Repeat(data[i], n)
    <3>4. u \in Seq(Bytes) /\ Len(u) = n /\ \A k \in 1 .. n : u[k] = data[i]
      BY <1>2, <3>3, RepeatIs
    <3> HIDE DEF s, u
    <3>5. Len(u) = Len(s) /\ \A k \in 1 .. Len(u) : u[k] = s[k]
      BY <3>1, <3>2, <3>4
    <3>6. u = s
      BY <3>1, <3>4, <3>5, SeqEqual
    <3> QED BY <3>6 DEF s, u
  <2> HIDE DEF token
  <2> QED BY <2>1, <2>6, <2>7 DEF token
<1>5. CASE ~ (n >= 3)
  <2> DEFINE head == RleLiteral(data[i])
  <2>1. token.bytes = head /\ token.length = 1
    BY <1>5 DEF RleToken, TokenOf
  <2>2. head \in Seq(Bytes) /\ head # <<>>
    BY <1>2, ByteValues DEF RleLiteral
  <2>3. RleMeaning(head \o rest, 1) = TokenOf(<<data[i]>>, Len(head))
    <3>1. CASE data[i] = Escape
      <4>1. head = <<Escape, 0>>
        BY <3>1 DEF RleLiteral
      <4>2. /\ (<<Escape, 0>> \o rest)[1] = Escape /\ (<<Escape, 0>> \o rest)[2] = 0
            /\ Len(<<Escape, 0>> \o rest) >= 2 /\ Len(<<Escape, 0>>) = 2
        BY ByteValues
      <4> HIDE DEF head
      <4> QED BY <3>1, <4>1, <4>2 DEF RleMeaning
    <3>2. CASE data[i] # Escape
      <4>1. head = <<data[i]>>
        BY <3>2 DEF RleLiteral
      <4>2. (<<data[i]>> \o rest)[1] = data[i] /\ Len(<<data[i]>>) = 1
        BY <1>2
      <4> HIDE DEF head
      <4> QED BY <3>2, <4>1, <4>2 DEF RleMeaning
    <3> QED BY <3>1, <3>2
  <2>4. i + token.length - 1 = i
    BY <2>1
  <2> HIDE DEF head
  <2>5. RleDecompress(head \o rest) = <<data[i]>> \o RleDecompress(rest)
    BY <2>2, <2>3, RleDecodes
  <2> QED BY <1>3, <2>1, <2>4, <2>5
<1> QED BY <1>4, <1>5

\* The run-length coder gives back exactly what it was given, and puts out
\* bytes, whatever bytes those are and however many.
THEOREM RleUndone ==
  ASSUME NEW data \in Seq(Bytes)
  PROVE  RleRestores(data) /\ RleCompress(data) \in Seq(Bytes)
<1> DEFINE n == Len(data)
           tokens == [i \in DOMAIN data |-> RleToken(data, i)]
<1>1. n \in Nat /\ DOMAIN data = 1 .. n
  OBVIOUS
<1>2. Tokens(n, Bytes, tokens)
  BY RleTokens
<1>3. PICK f \in [1 .. n + 1 -> Seq(Bytes)] : Describes(n, tokens, f)
  <2> HIDE DEF n, tokens
  <2> QED BY <1>1, <1>2, PutOutExists
<1> DEFINE P == {i \in 1 .. n + 1 : RleDecompress(f[i]) = SubSeq(data, i, n)}
<1>4. ASSUME NEW i \in 1 .. n + 1, i + 1 .. n + 1 \subseteq P PROVE i \in P
  <2>1. PutsOut(n, tokens, f, i)
    BY <1>3 DEF Describes
  <2>2. CASE i > n
    <3>1. f[i] = <<>>
      <4> HIDE DEF n, tokens
      <4> QED BY <2>1, <2>2 DEF PutsOut
    <3>2. SubSeq(data, i, n) = <<>>
      BY <1>1, <2>2
    <3> QED BY <3>1, <3>2, RleOfNothing
  <2>3. CASE i <= n
    <3> DEFINE token == RleToken(data, i)
               j == i + token.length
    <3>1. tokens[i] = token
      BY <1>1, <2>3
    <3>2. token.length \in 1 .. n + 1 - i /\ token.bytes \in Seq(Bytes)
      <4> HIDE DEF n, tokens, token
      <4> QED BY <1>1, <1>2, <2>3, <3>1 DEF Tokens
    <3>3. j \in i + 1 .. n + 1
      <4> HIDE DEF n, token
      <4> QED BY <1>1, <2>3, <3>2
    <3>4. f[i] = token.bytes \o f[j]
      <4>1. ~ (i > n)
        BY <1>1, <2>3
      <4> HIDE DEF n, tokens, token
      <4> QED BY <2>1, <3>1, <4>1, Zenon DEF PutsOut
    <3>5. f[j] \in Seq(Bytes) /\ RleDecompress(f[j]) = SubSeq(data, j, n)
      <4> HIDE DEF n, j
      <4> QED BY <1>1, <1>3, <1>4, <3>3
    <3>6. RleDecompress(f[i]) = SubSeq(data, i, i + token.length - 1) \o SubSeq(data, j, n)
      <4>1. i \in 1 .. Len(data)
        BY <1>1, <2>3
      <4> HIDE DEF j
      <4> QED BY <3>4, <3>5, <4>1, RleTokenDecodes
    <3>7. SubSeq(data, i, j - 1) \o SubSeq(data, j, n) = SubSeq(data, i, n)
      <4> HIDE DEF j, token
      <4>1. i \in 1 .. n + 1 /\ j - 1 \in i - 1 .. n /\ n \in j - 1 .. n /\ j - 1 + 1 = j
        BY <1>1, <2>3, <3>3
      <4>2. SubSeq(data, i, j - 1) \o SubSeq(data, j - 1 + 1, n) = SubSeq(data, i, n)
        BY <4>1, ConcatAdjacentSubSeq
      <4> QED BY <4>1, <4>2
    <3>8. RleDecompress(f[i]) = SubSeq(data, i, n)
      <4> HIDE DEF n, token
      <4>1. i + token.length - 1 = j - 1
        BY <2>3, <3>2, <1>1
      <4> HIDE DEF j
      <4> QED BY <3>6, <3>7, <4>1 DEF token
    <3> HIDE DEF n
    <3> QED BY <3>8
  <2> QED BY <1>1, <2>2, <2>3
<1>5. 1 .. n + 1 \subseteq P
  <2>1. n + 1 \in Nat
    BY <1>1
  <2> HIDE DEF P, n
  <2>2. \A i \in 1 .. n + 1 : i + 1 .. n + 1 \subseteq P => i \in P
    BY <1>4
  <2> QED BY <2>1, <2>2, Downward, Zenon
<1>6. RleDecompress(f[1]) = data
  <2>1. 1 \in 1 .. n + 1
    BY <1>1
  <2>2. RleDecompress(f[1]) = SubSeq(data, 1, n)
    BY <1>5, <2>1
  <2> QED BY <2>2, SubSeqFull
<1>7. RleCompress(data) = f[1] /\ f[1] \in Seq(Bytes)
  <2>1. PutOut(n, tokens) = f[1]
    <3> HIDE DEF n, tokens
    <3> QED BY <1>1, <1>2, <1>3, PutOutIs
  <2>2. f[1] \in Seq(Bytes)
    BY <1>1, <1>3
  <2> QED BY <2>1, <2>2 DEF RleCompress
<1> QED BY <1>6, <1>7 DEF RleRestores


-----------------------------------------------------------------------------
(* The dictionary coder: what it puts out. *)

\* The values of a token's fields.
LEMMA TopBit ==
  /\ High \in Nat \ {0} /\ Byte = 2 * High /\ High + Nibble <= Byte
  /\ Nibble \in Nat /\ Nibble >= 2 /\ Byte \in Nat \ {0}
  /\ \A q \in 0 .. Nibble - 1 : (High + q) % Nibble = q
<1> DEFINE h == Nibble \div 2
<1>1. h \in Nat \ {0} /\ Nibble = 2 * h
  BY NibbleAssumption DEF NibbleAssumption
<1> HIDE DEF h
<1>2. Byte = 2 * (h * Nibble) /\ h * Nibble \in Nat
  BY <1>1 DEF Byte
<1>3. High = h * Nibble
  BY <1>2 DEF High
<1>4. Nibble \in Nat \ {0} /\ h * Nibble >= Nibble
  BY <1>1
<1>5. \A q \in 0 .. Nibble - 1 : (h * Nibble + q) % Nibble = q
  <2>1. \A a \in Nat, m \in Nat \ {0} : \A q \in 0 .. m - 1 : (a * m + q) % m = q
    OBVIOUS
  <2> QED BY <1>1, <1>4, <2>1
<1> QED BY <1>1, <1>2, <1>3, <1>4, <1>5

LEMMA MatchLenIs ==
  ASSUME NEW data \in Seq(Bytes), NEW pos \in 1 .. Len(data), NEW i \in 1 .. pos - 1
  PROVE  /\ MatchLen(data, i, pos) \in 0 .. MaxMatch
         /\ pos + MatchLen(data, i, pos) <= Len(data) + 1
         /\ \A k \in 0 .. MatchLen(data, i, pos) - 1 : data[i + k] = data[pos + k]
<1> DEFINE Ends(n) == n = MaxMatch \/ pos + n = Len(data) + 1 \/ data[i + n] # data[pos + n]
           T == {n \in Nat : Ends(n)}
           Match(n) == /\ pos + n <= Len(data) + 1
                       /\ \A k \in 0 .. n - 1 : data[i + k] = data[pos + k]
                       /\ Ends(n)
<1>1. Len(data) \in Nat /\ Len(data) + 1 - pos \in T
  OBVIOUS
<1>2. MaxMatch \in Nat /\ MaxMatch \in T
  BY TopBit DEF MaxMatch, MinMatch
<1>3. PICK n \in T : \A l \in T : n <= l
  <2>1. T \in SUBSET Nat /\ T # {}
    BY <1>1
  <2> HIDE DEF T
  <2> QED BY <2>1, Least
<1>4. n \in Nat /\ Ends(n)
  <2> HIDE DEF Ends
  <2> QED BY <1>3
<1>5. n \in 0 .. MaxMatch /\ pos + n <= Len(data) + 1
  <2> HIDE DEF T
  <2> QED BY <1>1, <1>2, <1>3, <1>4
<1>6. \A k \in 0 .. n - 1 : data[i + k] = data[pos + k]
  <2> SUFFICES ASSUME NEW k \in 0 .. n - 1 PROVE data[i + k] = data[pos + k]
    OBVIOUS
  <2>1. k \in Nat /\ k < n
    BY <1>4
  <2>2. k \notin T
    <3> HIDE DEF T
    <3> QED BY <1>3, <1>4, <2>1
  <2> QED BY <2>1, <2>2
<1>7. Match(n)
  BY <1>4, <1>5, <1>6
<1>8. MatchLen(data, i, pos) = CHOOSE m \in 0 .. MaxMatch : Match(m)
  BY DEF MatchLen
<1>9. MatchLen(data, i, pos) \in 0 .. MaxMatch /\ Match(MatchLen(data, i, pos))
  <2> HIDE DEF Match
  <2> QED BY <1>5, <1>7, <1>8
<1> QED BY <1>9

\* A match that the encoder may use at pos.
Matches(data, pos, m) ==
  /\ m.offset \in 1 .. pos - 1
  /\ Restorable(data) => m.offset < Window
  /\ m.length \in MinMatch .. MaxMatch /\ pos + m.length <= Len(data) + 1
  /\ \A k \in 0 .. m.length - 1 : data[pos - m.offset + k] = data[pos + k]

LEMMA FindMatchIs ==
  ASSUME NEW data \in Seq(Bytes), NEW pos \in 1 .. Len(data),
         find_match(data, pos).length >= MinMatch
  PROVE  Matches(data, pos, find_match(data, pos))
<1> DEFINE starts == (IF pos > Window THEN pos - Window ELSE 1) .. pos - 1
           long == {i \in starts : MatchLen(data, i, pos) >= MinMatch}
           Best(i) == \A j \in long :
                        \/ MatchLen(data, i, pos) > MatchLen(data, j, pos)
                        \/ MatchLen(data, i, pos) = MatchLen(data, j, pos) /\ i <= j
           best == CHOOSE i \in long : Best(i)
<1>1. find_match(data, pos)
        = IF long = {} THEN [offset |-> 0, length |-> 0]
          ELSE [offset |-> pos - best, length |-> MatchLen(data, best, pos)]
  BY DEF find_match
<1>2. Window \in Nat
  BY TopBit DEF Window
<1>3. \A i \in starts : i \in 1 .. pos - 1 /\ pos - i <= Window
  BY <1>2
<1>4. long # {}
  <2> HIDE DEF long
  <2> QED BY <1>1 DEF MinMatch
<1>5. \A i \in long : /\ i \in 1 .. pos - 1 /\ MatchLen(data, i, pos) \in MinMatch .. MaxMatch
                      /\ pos - i <= Window
  <2> SUFFICES ASSUME NEW i \in long
               PROVE  /\ i \in 1 .. pos - 1 /\ MatchLen(data, i, pos) \in MinMatch .. MaxMatch
                      /\ pos - i <= Window
    OBVIOUS
  <2>1. i \in 1 .. pos - 1 /\ pos - i <= Window
    <3> HIDE DEF starts
    <3> QED BY <1>3
  <2>2. MatchLen(data, i, pos) \in 0 .. MaxMatch
    BY <2>1, MatchLenIs
  <2>3. MatchLen(data, i, pos) >= MinMatch
    <3> HIDE DEF starts
    <3> QED OBVIOUS
  <2> QED BY <2>1, <2>2, <2>3 DEF MinMatch
<1>6. \E i \in long : Best(i)
  <2> HIDE DEF long
  <2> DEFINE S == {MaxMatch - MatchLen(data, i, pos) : i \in long}
  <2>1. MaxMatch \in Nat
    BY TopBit DEF MaxMatch, MinMatch
  <2>2. S \in SUBSET Nat /\ S # {}
    <3>1. \A i \in long : MaxMatch - MatchLen(data, i, pos) \in Nat
      BY <1>5, <2>1 DEF MinMatch
    <3> QED BY <1>4, <3>1
  <2>3. PICK d \in S : \A x \in S : d <= x
    <3> HIDE DEF S
    <3> QED BY <2>2, Least
  <2>4. PICK a \in long : d = MaxMatch - MatchLen(data, a, pos)
    BY <2>3
  <2> DEFINE A == {i \in long : MatchLen(data, i, pos) = MatchLen(data, a, pos)}
  <2>5. A \in SUBSET Nat /\ A # {}
    BY <1>5
  <2>6. PICK i \in A : \A j \in A : i <= j
    <3> HIDE DEF A
    <3> QED BY <2>5, Least
  <2>7. ASSUME NEW j \in long
        PROVE  \/ MatchLen(data, i, pos) > MatchLen(data, j, pos)
               \/ MatchLen(data, i, pos) = MatchLen(data, j, pos) /\ i <= j
    <3>1. MatchLen(data, i, pos) = MatchLen(data, a, pos) /\ i \in long
      BY <2>6
    <3>2. MatchLen(data, a, pos) >= MatchLen(data, j, pos)
      <4>1. MaxMatch - MatchLen(data, j, pos) \in S
        OBVIOUS
      <4>2. d <= MaxMatch - MatchLen(data, j, pos)
        <5> HIDE DEF S
        <5> QED BY <2>3, <4>1
      <4> QED BY <1>5, <2>1, <2>4, <4>2 DEF MinMatch
    <3>3. MatchLen(data, a, pos) = MatchLen(data, j, pos) => i <= j
      BY <2>6
    <3>4. MatchLen(data, a, pos) \in Int /\ MatchLen(data, j, pos) \in Int
      BY <1>5 DEF MinMatch
    <3> QED BY <3>1, <3>2, <3>3, <3>4
  <2>8. i \in long
    BY <2>6
  <2> QED BY <2>7, <2>8
<1>7. best \in long
  <2> HIDE DEF long, Best
  <2> QED BY <1>6
<1> HIDE DEF best, long
<1> DEFINE m == find_match(data, pos)
<1>8. m.offset = pos - best /\ m.length = MatchLen(data, best, pos)
  BY <1>1, <1>4
<1>9. best \in 1 .. pos - 1 /\ m.length \in MinMatch .. MaxMatch /\ pos - best <= Window
  BY <1>5, <1>7, <1>8
<1>10. /\ pos + m.length <= Len(data) + 1
       /\ \A k \in 0 .. m.length - 1 : data[best + k] = data[pos + k]
  BY <1>8, <1>9, MatchLenIs
<1>11. m.offset \in 1 .. pos - 1 /\ pos - m.offset = best
  BY <1>8, <1>9
<1>12. Restorable(data) => m.offset < Window
  BY DEF Restorable
<1> HIDE DEF m
<1>13. Matches(data, pos, m)
  BY <1>9, <1>10, <1>11, <1>12 DEF Matches
<1> QED BY <1>13 DEF m


LEMMA LiteralIs ==
  ASSUME NEW b \in Bytes
  PROVE  Literal(b) \in 0 .. High - 1 /\ Literal(b) \in Bytes
<1>1. b \in Nat
  BY TopBit DEF Bytes
<1>2. b % High \in 0 .. High - 1
  BY <1>1, TopBit
<1> QED BY <1>2, TopBit DEF Literal, Bytes

\* A token's three bytes, and the fields that the decoder takes from them; the
\* offset is the encoder's if it fits into its 12 bits.
LEMMA TokenIs ==
  ASSUME NEW m, m.offset \in Nat, m.length \in MinMatch .. MaxMatch
  PROVE  /\ Token(m) \in Seq(Bytes) /\ Len(Token(m)) = 3
         /\ Token(m)[1] \in High .. Byte - 1
         /\ (Token(m)[3] % Nibble) + MinMatch = m.length
         /\ (Token(m)[1] % Nibble) * Byte + Token(m)[2] \in Nat
         /\ m.offset < Window =>
              (Token(m)[1] % Nibble) * Byte + Token(m)[2] = m.offset
<1> DEFINE q == (m.offset \div Byte) % Nibble
           low == m.offset % Byte
           l == m.length - MinMatch
           o == m.offset
<1>1. l \in 0 .. Nibble - 1 /\ l % Nibble = l
  <2>1. l \in 0 .. Nibble - 1
    BY TopBit DEF MinMatch, MaxMatch
  <2>2. \A x \in Nat, n \in Nat \ {0} : x < n => x % n = x
    OBVIOUS
  <2> HIDE DEF l
  <2> QED BY <2>1, <2>2, TopBit
<1>2. /\ o \in Nat /\ o \div Byte \in Nat /\ low \in 0 .. Byte - 1
      /\ o = (o \div Byte) * Byte + low
  <2>1. \A x \in Nat, n \in Nat \ {0} :
          /\ x \div n \in Nat /\ x % n \in 0 .. n - 1
          /\ x = (x \div n) * n + (x % n)
    OBVIOUS
  <2>2. o \in Nat /\ Byte \in Nat \ {0}
    BY TopBit
  <2> HIDE DEF o
  <2> QED BY <2>1, <2>2 DEF o
<1>3. q \in 0 .. Nibble - 1
  <2>1. \A x \in Nat, n \in Nat \ {0} : x % n \in 0 .. n - 1
    OBVIOUS
  <2>2. Nibble \in Nat \ {0}
    BY TopBit
  <2> QED BY <1>2, <2>1, <2>2
<1>4. o < Window => q = o \div Byte
  <2> SUFFICES ASSUME o < Window PROVE q = o \div Byte
    OBVIOUS
  <2>1. o \div Byte < Nibble
    <3>1. \A x \in Nat, n, y \in Nat \ {0} : x < n * y => x \div n < y
      OBVIOUS
    <3>2. Nibble \in Nat \ {0} /\ Byte \in Nat \ {0}
      BY TopBit
    <3> HIDE DEF o
    <3> QED BY <1>2, <3>1, <3>2 DEF Window
  <2>2. \A x \in Nat, n \in Nat \ {0} : x < n => x % n = x
    OBVIOUS
  <2> HIDE DEF o
  <2> QED BY <1>2, <2>1, <2>2, TopBit DEF o
<1>5. Token(m) = <<High + q, low, l % Nibble>>
  BY DEF Token
<1> HIDE DEF q, low, l
<1>6. High + q \in High .. Byte - 1 /\ (High + q) % Nibble = q
  <2>1. (High + q) % Nibble = q
    BY <1>3, TopBit, Zenon
  <2>2. High + q \in High .. Byte - 1
    BY <1>3, TopBit
  <2> QED BY <2>1, <2>2
<1>7. High + q \in Bytes /\ low \in Bytes /\ l % Nibble \in Bytes
  BY <1>1, <1>2, <1>6, TopBit DEF Bytes
<1>8. Token(m) \in Seq(Bytes) /\ Len(Token(m)) = 3
  BY <1>5, <1>7
<1>9. (Token(m)[1] % Nibble) * Byte + Token(m)[2] = q * Byte + low
  BY <1>5, <1>6
<1>10. q * Byte + low \in Nat
  BY <1>2, <1>3, TopBit
<1>11. (Token(m)[3] % Nibble) + MinMatch = m.length
  <2>1. Token(m)[3] = l
    BY <1>1, <1>5
  <2>2. (l % Nibble) + MinMatch = l + MinMatch
    BY <1>1
  <2>3. l + MinMatch = m.length
    BY DEF l, MinMatch, MaxMatch
  <2> QED BY <2>1, <2>2, <2>3
<1> QED BY <1>2, <1>4, <1>5, <1>6, <1>8, <1>9, <1>10, <1>11

\* A token of the encoder: a literal, or three bytes for a match.
LEMMA DictTokenIs ==
  ASSUME NEW data \in Seq(Bytes), NEW pos \in 1 .. Len(data)
  PROVE  \/ DictToken(data, pos) = TokenOf(<<Literal(data[pos])>>, 1)
         \/ \E m : Matches(data, pos, m) /\ DictToken(data, pos) = TokenOf(Token(m), m.length)
<1> DEFINE m == find_match(data, pos)
<1>1. CASE m.length >= MinMatch
  <2>1. Matches(data, pos, m)
    BY <1>1, FindMatchIs
  <2>2. DictToken(data, pos) = TokenOf(Token(m), m.length)
    BY <1>1 DEF DictToken
  <2> QED BY <2>1, <2>2
<1>2. CASE ~ (m.length >= MinMatch)
  BY <1>2 DEF DictToken
<1> QED BY <1>1, <1>2

LEMMA DictTokens ==
  ASSUME NEW data \in Seq(Bytes)
  PROVE  Tokens(Len(data), Bytes, [pos \in DOMAIN data |-> DictToken(data, pos)])
<1> SUFFICES ASSUME NEW pos \in 1 .. Len(data)
             PROVE  /\ DictToken(data, pos).bytes \in Seq(Bytes)
                    /\ DictToken(data, pos).length \in 1 .. Len(data) + 1 - pos
  BY DEF Tokens
<1>1. CASE DictToken(data, pos) = TokenOf(<<Literal(data[pos])>>, 1)
  <2>1. <<Literal(data[pos])>> \in Seq(Bytes)
    <3>1. data[pos] \in Bytes
      OBVIOUS
    <3>2. Literal(data[pos]) \in Bytes
      BY <3>1, LiteralIs
    <3> QED BY <3>2
  <2> QED BY <1>1, <2>1 DEF TokenOf
<1>2. CASE \E m : Matches(data, pos, m) /\ DictToken(data, pos) = TokenOf(Token(m), m.length)
  <2>1. PICK m : Matches(data, pos, m) /\ DictToken(data, pos) = TokenOf(Token(m), m.length)
    BY <1>2
  <2>2. m.offset \in Nat /\ m.length \in MinMatch .. MaxMatch /\ pos + m.length <= Len(data) + 1
    BY <2>1 DEF Matches
  <2>3. Token(m) \in Seq(Bytes)
    BY <2>2, TokenIs
  <2>4. m.length \in 1 .. Len(data) + 1 - pos
    BY <2>2, TopBit DEF MinMatch, MaxMatch
  <2> QED BY <2>1, <2>3, <2>4 DEF TokenOf
<1> QED BY <1>1, <1>2, DictTokenIs


-----------------------------------------------------------------------------
(* The dictionary coder: what the decoder makes of it. *)

\* Induction upward.
LEMMA Upward ==
  ASSUME NEW P, 0 \in P, \A n \in Nat : n \in P => n + 1 \in P
  PROVE  Nat \subseteq P
<1> SUFFICES ASSUME NEW j \in Nat, j \notin P PROVE FALSE
  OBVIOUS
<1> DEFINE T == Nat \ P
<1>1. PICK k \in T : \A l \in T : k <= l
  <2>1. T \in SUBSET Nat /\ T # {}
    OBVIOUS
  <2> HIDE DEF T
  <2> QED BY <2>1, Least
<1>2. k # 0 /\ k - 1 \in Nat
  BY <1>1
<1>3. k - 1 \in P
  BY <1>1, <1>2
<1> QED BY <1>1, <1>2, <1>3

\* CopyOut() appends n bytes, each the one that lies offset bytes before it.
Copied(out, offset, n, all) ==
  /\ all \in Seq(Int) /\ Len(all) = Len(out) + n
  /\ \A k \in 1 .. Len(out) : all[k] = out[k]
  /\ offset \in 1 .. Len(out) =>
       \A k \in Len(out) + 1 .. Len(out) + n : all[k] = all[k - offset]

LEMMA CopyOutIs ==
  ASSUME NEW out \in Seq(Int), NEW offset \in Nat, NEW n \in Nat
  PROVE  Copied(out, offset, n, CopyOut(out, offset, n))
<1> DEFINE all == CopyOut(out, offset, n)
<1> DEFINE Value(f, k) == IF offset \in 1 .. k - 1 THEN f[k - offset]
                          ELSE IF offset \in k .. Len(out) + k - 1
                                 THEN out[Len(out) + k - offset]
                          ELSE Undefined
           Copies(f, m) == f \in [1 .. m -> Int] /\ \A k \in 1 .. m : f[k] = Value(f, k)
           P == {m \in Nat : \E f : Copies(f, m)}
           copy == CHOOSE f : f = [k \in 1 .. n |-> Value(f, k)]
<1>1. Len(out) \in Nat /\ Undefined \in Int
  BY TopBit DEF Undefined
<1>2. 0 \in P
  <2>1. Copies([k \in 1 .. 0 |-> 0], 0)
    OBVIOUS
  <2> HIDE DEF Copies
  <2> QED BY <2>1
<1>3. ASSUME NEW m \in Nat, m \in P PROVE m + 1 \in P
  <2>1. PICK f : Copies(f, m)
    BY <1>3
  <2> DEFINE g == [k \in 1 .. m + 1 |-> IF k = m + 1 THEN Value(f, k) ELSE f[k]]
  <2>2. \A k \in 1 .. m + 1 : Value(g, k) = Value(f, k)
    <3> SUFFICES ASSUME NEW k \in 1 .. m + 1, offset \in 1 .. k - 1
                 PROVE  g[k - offset] = f[k - offset]
      <4> HIDE DEF g
      <4> QED OBVIOUS
    <3>1. k - offset \in 1 .. m + 1 /\ k - offset # m + 1
      OBVIOUS
    <3> QED BY <3>1
  <2>3. \A k \in 1 .. m + 1 : Value(f, k) \in Int
    <3> SUFFICES ASSUME NEW k \in 1 .. m + 1 PROVE Value(f, k) \in Int
      OBVIOUS
    <3>1. offset \in 1 .. k - 1 => k - offset \in 1 .. m
      OBVIOUS
    <3>2. offset \in 1 .. k - 1 => f[k - offset] \in Int
      BY <2>1, <3>1
    <3>3. offset \in k .. Len(out) + k - 1 => Len(out) + k - offset \in 1 .. Len(out)
      BY <1>1
    <3>4. offset \in k .. Len(out) + k - 1 => out[Len(out) + k - offset] \in Int
      BY <3>3
    <3> QED BY <1>1, <3>2, <3>4
  <2> HIDE DEF Value
  <2>4. \A k \in 1 .. m + 1 : g[k] = Value(f, k)
    BY <2>1
  <2>5. g \in [1 .. m + 1 -> Int]
    BY <2>3, <2>4
  <2> HIDE DEF g
  <2>6. Copies(g, m + 1)
    BY <2>2, <2>4, <2>5
  <2> HIDE DEF Copies
  <2> QED BY <2>6
<1>4. n \in P
  <2> HIDE DEF P
  <2>1. Nat \subseteq P
    BY <1>2, <1>3, Upward
  <2> QED BY <2>1
<1>5. PICK f : Copies(f, n)
  BY <1>4
<1>6. copy = [k \in 1 .. n |-> Value(copy, k)]
  <2>1. f = [k \in 1 .. n |-> Value(f, k)]
    <3> HIDE DEF Value
    <3> QED BY <1>5
  <2> HIDE DEF Value
  <2> QED BY <2>1
<1>7. all = out \o copy
  BY DEF CopyOut
<1> HIDE DEF copy, all
<1>8. \A k \in 1 .. n : copy[k] = Value(copy, k)
  <2> HIDE DEF Value
  <2> QED BY <1>6
<1>9. copy \in Seq(Int) /\ Len(copy) = n
  <2> DEFINE Q == {m \in Nat : \A k \in 1 .. n : k <= m => copy[k] \in Int}
  <2>1. 0 \in Q
    OBVIOUS
  <2>2. ASSUME NEW m \in Nat, m \in Q PROVE m + 1 \in Q
    <3> SUFFICES ASSUME m + 1 \in 1 .. n PROVE copy[m + 1] \in Int
      BY <2>2
    <3> DEFINE k == m + 1
    <3>1. offset \in 1 .. k - 1 => k - offset \in 1 .. n /\ k - offset <= m
      OBVIOUS
    <3>2. offset \in 1 .. k - 1 => copy[k - offset] \in Int
      BY <2>2, <3>1
    <3>3. offset \in k .. Len(out) + k - 1 => Len(out) + k - offset \in 1 .. Len(out)
      BY <1>1
    <3>4. offset \in k .. Len(out) + k - 1 => out[Len(out) + k - offset] \in Int
      BY <3>3
    <3>5. Value(copy, k) \in Int
      BY <1>1, <3>2, <3>4
    <3>6. copy[k] = Value(copy, k)
      <4> HIDE DEF Value
      <4> QED BY <1>8
    <3> HIDE DEF Value
    <3> QED BY <3>5, <3>6
  <2>3. Nat \subseteq Q
    <3> HIDE DEF Q
    <3> QED BY <2>1, <2>2, Upward
  <2>4. \A k \in 1 .. n : copy[k] \in Int
    BY <2>3
  <2> HIDE DEF Value
  <2>5. copy \in [1 .. n -> Int]
    BY <1>6, <2>4
  <2> QED BY <2>5
<1>10. /\ all \in Seq(Int) /\ Len(all) = Len(out) + n
       /\ \A k \in 1 .. Len(out) : all[k] = out[k]
       /\ \A k \in 1 .. n : all[Len(out) + k] = copy[k]
  <2> HIDE DEF Value
  <2>1. all \in Seq(Int) /\ Len(all) = Len(out) + n
    BY <1>7, <1>9, ConcatProperties
  <2>2. \A k \in 1 .. Len(out) + n : all[k] = IF k <= Len(out) THEN out[k] ELSE copy[k - Len(out)]
    BY <1>7, <1>9, ConcatProperties
  <2>3. \A k \in 1 .. Len(out) : all[k] = out[k]
    BY <1>1, <2>2
  <2>4. ASSUME NEW k \in 1 .. n PROVE all[Len(out) + k] = copy[k]
    <3>1. Len(out) + k \in 1 .. Len(out) + n /\ ~ (Len(out) + k <= Len(out))
          /\ Len(out) + k - Len(out) = k
      BY <1>1
    <3> QED BY <2>2, <3>1
  <2> QED BY <2>1, <2>3, <2>4
<1>11. ASSUME offset \in 1 .. Len(out), NEW k \in Len(out) + 1 .. Len(out) + n
       PROVE  all[k] = all[k - offset]
  <2> DEFINE j == k - Len(out)
  <2>1. j \in 1 .. n /\ Len(out) + j = k
    BY <1>1
  <2>2. all[k] = copy[j] /\ copy[j] = Value(copy, j)
    <3> HIDE DEF Value, j
    <3> QED BY <1>8, <1>10, <2>1
  <2>3. CASE offset \in 1 .. j - 1
    <3>1. j - offset \in 1 .. n /\ Len(out) + (j - offset) = k - offset
      BY <1>1, <2>1, <2>3
    <3>2. all[k - offset] = copy[j - offset]
      <4> HIDE DEF Value, j
      <4> QED BY <1>10, <3>1
    <3> QED BY <2>2, <2>3, <3>2
  <2>4. CASE ~ (offset \in 1 .. j - 1)
    <3>1. offset \in j .. Len(out) + j - 1
      BY <1>1, <1>11, <2>1, <2>4
    <3>2. Len(out) + j - offset = k - offset /\ k - offset \in 1 .. Len(out)
      BY <1>1, <1>11, <2>1, <3>1
    <3>3. all[k] = out[Len(out) + j - offset]
      <4> HIDE DEF j
      <4> QED BY <2>2, <2>4, <3>1
    <3> QED BY <1>10, <3>2, <3>3
  <2> QED BY <2>3, <2>4
<1> QED BY <1>10, <1>11 DEF Copied, all
-----------------------------------------------------------------------------
(* The dictionary coder: round after round. *)

\* From position i on, e is x.
Suffix(e, i, x) ==
  /\ i \in Nat \ {0} /\ i + Len(x) = Len(e) + 1
  /\ \A k \in 1 .. Len(x) : e[i + k - 1] = x[k]

LEMMA SuffixSplit ==
  ASSUME NEW e \in Seq(Bytes), NEW i \in Nat \ {0}, NEW head \in Seq(Bytes),
         NEW rest \in Seq(Bytes), Suffix(e, i, head \o rest)
  PROVE  /\ i + Len(head) <= Len(e) + 1 /\ Suffix(e, i + Len(head), rest)
         /\ \A k \in 1 .. Len(head) : e[i + k - 1] = head[k]
<1> DEFINE x == head \o rest
<1>1. /\ Len(head) \in Nat /\ Len(rest) \in Nat /\ Len(e) \in Nat
      /\ Len(x) = Len(head) + Len(rest)
      /\ \A k \in 1 .. Len(head) : x[k] = head[k]
      /\ \A k \in 1 .. Len(rest) : x[Len(head) + k] = rest[k]
  BY ConcatProperties, LenProperties
<1> HIDE DEF x
<1>2. i + Len(x) = Len(e) + 1 /\ \A k \in 1 .. Len(x) : e[i + k - 1] = x[k]
  BY DEF Suffix, x
<1>3. ASSUME NEW k \in 1 .. Len(rest) PROVE e[i + Len(head) + k - 1] = rest[k]
  <2>1. Len(head) + k \in 1 .. Len(x) /\ i + (Len(head) + k) - 1 = i + Len(head) + k - 1
    BY <1>1
  <2> QED BY <1>1, <1>2, <2>1
<1>4. \A k \in 1 .. Len(head) : e[i + k - 1] = head[k]
  BY <1>1, <1>2
<1>5. i + Len(head) \in Nat \ {0} /\ i + Len(head) + Len(rest) = Len(e) + 1
  BY <1>1, <1>2
<1> QED BY <1>1, <1>3, <1>4, <1>5 DEF Suffix

\* out is what the first l bytes of data decode to.
Decoded(data, l, out) ==
  /\ out \in Seq(Int) /\ Len(out) = l
  /\ Restorable(data) => \A k \in 1 .. l : out[k] = Literal(data[k])

LiteralToken(data, pos, token) == token = TokenOf(<<Literal(data[pos])>>, 1)
MatchToken(data, pos, m, token) == Matches(data, pos, m) /\ token = TokenOf(Token(m), m.length)

\* One round on one token of the encoder.
AtToken(e, s, token, rest) == s.i \in Nat \ {0} /\ Suffix(e, s.i, token.bytes \o rest)
DecodesToken(data, pos, token, e, rest, s, new) ==
  /\ new.i > s.i /\ Suffix(e, new.i, rest)
  /\ Decoded(data, pos - 1 + token.length, new.out)

LEMMA LiteralDecodes ==
  ASSUME NEW data \in Seq(Bytes), NEW pos \in 1 .. Len(data), NEW e \in Seq(Bytes),
         NEW s, Decoded(data, pos - 1, s.out), NEW rest \in Seq(Bytes),
         NEW token, LiteralToken(data, pos, token), AtToken(e, s, token, rest)
  PROVE  DecodesToken(data, pos, token, e, rest, s, DictRound(e, s))
<1> DEFINE b == Literal(data[pos])
<1> PICK i \in Nat \ {0} : i = s.i
  BY DEF AtToken
<1>1. data[pos] \in Bytes
  OBVIOUS
<1>2. b \in 0 .. High - 1 /\ b \in Bytes
  BY <1>1, LiteralIs
<1>3. token.bytes = <<b>> /\ token.length = 1
  BY DEF LiteralToken, TokenOf
<1> HIDE DEF b
<1> PICK head \in Seq(Bytes) : head = token.bytes /\ Len(head) = 1 /\ head[1] = b
  <2>1. <<b>> \in Seq(Bytes) /\ Len(<<b>>) = 1 /\ <<b>>[1] = b
    BY <1>2
  <2> QED BY <1>3, <2>1
<1>5. /\ i + 1 <= Len(e) + 1 /\ Suffix(e, i + 1, rest)
      /\ \A k \in 1 .. 1 : e[i + k - 1] = b
  <2>1. Suffix(e, i, head \o rest)
    BY i = s.i DEF AtToken
  <2>2. /\ i + Len(head) <= Len(e) + 1 /\ Suffix(e, i + Len(head), rest)
        /\ \A k \in 1 .. Len(head) : e[i + k - 1] = head[k]
    BY <2>1, SuffixSplit
  <2> QED BY <2>2
<1>6. e[i] = b /\ ~ (i > Len(e)) /\ b < High
  <2>1. i + 1 - 1 = i /\ 1 \in 1 .. 1
    OBVIOUS
  <2>2. e[i] = b
    BY <1>5, <2>1
  <2>3. Len(e) \in Nat
    OBVIOUS
  <2> QED BY <1>2, <1>5, <2>2, <2>3, TopBit
<1>7. DictRound(e, s) = [i |-> i + 1, out |-> Append(s.out, b)]
  BY <1>6 DEF DictRound
<1>8. Decoded(data, pos - 1 + 1, Append(s.out, b))
  <2>1. s.out \in Seq(Int) /\ Len(s.out) = pos - 1 /\ b \in Int
    BY <1>2 DEF Decoded
  <2>2. /\ Append(s.out, b) \in Seq(Int) /\ Len(Append(s.out, b)) = pos
        /\ \A k \in 1 .. pos - 1 : Append(s.out, b)[k] = s.out[k]
        /\ Append(s.out, b)[pos] = b
    BY <2>1, AppendProperties
  <2>3. ASSUME Restorable(data), NEW k \in 1 .. pos
        PROVE  Append(s.out, b)[k] = Literal(data[k])
    <3>1. CASE k = pos
      BY <2>2, <3>1 DEF b
    <3>2. CASE k # pos
      <4>1. k \in 1 .. pos - 1
        BY <3>2
      <4>2. s.out[k] = Literal(data[k])
        BY <2>3, <4>1 DEF Decoded
      <4> QED BY <2>2, <4>1, <4>2
    <3> QED BY <3>1, <3>2
  <2>4. pos - 1 + 1 = pos
    OBVIOUS
  <2> QED BY <2>2, <2>3, <2>4 DEF Decoded
<1>9. i + 1 > i
  OBVIOUS
<1> QED BY <1>3, <1>5, <1>7, <1>8, <1>9 DEF DecodesToken

LEMMA MatchDecodes ==
  ASSUME NEW data \in Seq(Bytes), NEW pos \in 1 .. Len(data), NEW e \in Seq(Bytes),
         NEW s, Decoded(data, pos - 1, s.out), NEW rest \in Seq(Bytes),
         NEW m, NEW token, MatchToken(data, pos, m, token), AtToken(e, s, token, rest)
  PROVE  DecodesToken(data, pos, token, e, rest, s, DictRound(e, s))
<1> DEFINE head == Token(m)
<1> PICK i \in Nat \ {0} : i = s.i
  BY DEF AtToken
<1> PICK n \in Nat : n = m.length /\ n >= 1
  BY TopBit DEF MatchToken, Matches, MinMatch, MaxMatch
<1>1. /\ m.offset \in 1 .. pos - 1 /\ n \in MinMatch .. MaxMatch
      /\ Restorable(data) => m.offset < Window
      /\ pos + n <= Len(data) + 1
      /\ \A k \in 0 .. n - 1 : data[pos - m.offset + k] = data[pos + k]
  BY DEF MatchToken, Matches
<1>2. /\ head \in Seq(Bytes) /\ Len(head) = 3 /\ head[1] \in High .. Byte - 1
      /\ (head[3] % Nibble) + MinMatch = n
      /\ (head[1] % Nibble) * Byte + head[2] \in Nat
      /\ m.offset < Window => (head[1] % Nibble) * Byte + head[2] = m.offset
  <2>1. m.offset \in Nat
    BY <1>1
  <2> QED BY <1>1, <2>1, TokenIs
<1>3. token.bytes = head /\ token.length = n
  BY DEF MatchToken, TokenOf
<1> DEFINE Field == (head[1] % Nibble) * Byte + head[2]
<1> PICK offset \in Nat : offset = Field /\ (m.offset < Window => offset = m.offset)
  BY <1>2
<1> DEFINE new == CopyOut(s.out, offset, n)
<1>4. n \in Nat /\ n >= 1
  OBVIOUS
<1> HIDE DEF head
<1>5. /\ i + 3 <= Len(e) + 1 /\ Suffix(e, i + 3, rest)
      /\ e[i] = head[1] /\ e[i + 1] = head[2] /\ e[i + 2] = head[3]
  <2>1. Suffix(e, i, head \o rest)
    BY <1>3 DEF AtToken
  <2>2. /\ i + Len(head) <= Len(e) + 1 /\ Suffix(e, i + Len(head), rest)
        /\ \A k \in 1 .. Len(head) : e[i + k - 1] = head[k]
    BY <1>2, <2>1, SuffixSplit
  <2>3. 1 \in 1 .. 3 /\ 2 \in 1 .. 3 /\ 3 \in 1 .. 3
        /\ i + 1 - 1 = i /\ i + 2 - 1 = i + 1 /\ i + 3 - 1 = i + 2
    OBVIOUS
  <2> QED BY <1>2, <2>2, <2>3
<1>6. ~ (i > Len(e)) /\ ~ (e[i] < High) /\ ~ (i + 2 > Len(e))
  <2>1. Len(e) \in Nat /\ i \in Nat
    OBVIOUS
  <2>2. head[1] \in Int /\ head[1] >= High
    BY <1>2, TopBit
  <2>3. ~ (e[i] < High)
    <3>1. e[i] = head[1]
      BY <1>5
    <3>2. High \in Int
      BY TopBit
    <3> HIDE DEF Field
    <3> QED BY <2>2, <3>1, <3>2
  <2>4. i + 3 <= Len(e) + 1
    BY <1>5
  <2> QED BY <2>1, <2>3, <2>4
<1>7. DictRound(e, s) = [i |-> i + 3, out |-> new]
  <2> DEFINE o == (e[i] % Nibble) * Byte + e[i + 1]
             l == (e[i + 2] % Nibble) + MinMatch
  <2>1. DictRound(e, s) = [i |-> i + 3, out |-> CopyOut(s.out, o, l)]
    BY <1>6, Zenon DEF DictRound
  <2>2. o = Field /\ l = n
    BY <1>2, <1>5
  <2> QED BY <2>1, <2>2
<1>8. s.out \in Seq(Int) /\ Len(s.out) = pos - 1
  BY DEF Decoded
<1>9. /\ new \in Seq(Int) /\ Len(new) = pos - 1 + n
      /\ \A k \in 1 .. pos - 1 : new[k] = s.out[k]
      /\ offset \in 1 .. pos - 1 =>
           \A k \in pos .. pos - 1 + n : new[k] = new[k - offset]
  <2>1. /\ new \in Seq(Int) /\ Len(new) = Len(s.out) + n
        /\ \A k \in 1 .. Len(s.out) : new[k] = s.out[k]
        /\ offset \in 1 .. Len(s.out) =>
             \A k \in Len(s.out) + 1 .. Len(s.out) + n : new[k] = new[k - offset]
    <3> PICK out \in Seq(Int) : out = s.out
      BY <1>8
    <3>1. Copied(out, offset, n, new)
      BY CopyOutIs
    <3> QED BY <3>1 DEF Copied
  <2>2. Len(s.out) + 1 = pos
    BY <1>8
  <2> HIDE DEF new
  <2> QED BY <1>8, <2>1, <2>2
<1> HIDE DEF new, Field
<1>10. ASSUME Restorable(data) PROVE \A k \in 1 .. pos - 1 + n : new[k] = Literal(data[k])
  <2> DEFINE P == {k \in Nat : \A j \in 1 .. pos - 1 + n : j <= k => new[j] = Literal(data[j])}
  <2>1. offset = m.offset /\ offset \in 1 .. pos - 1
    <3>1. m.offset < Window
      BY <1>1, <1>10
    <3> QED BY <1>1, <1>2, <3>1
  <2>2. 0 \in P
    OBVIOUS
  <2>3. ASSUME NEW k \in Nat, k \in P PROVE k + 1 \in P
    <3> SUFFICES ASSUME k + 1 \in 1 .. pos - 1 + n PROVE new[k + 1] = Literal(data[k + 1])
      <4>1. \A j \in 1 .. pos - 1 + n : j <= k + 1 => j <= k \/ j = k + 1
        BY <1>4
      <4> QED BY <2>3, <4>1
    <3>1. CASE k + 1 <= pos - 1
      <4>1. k + 1 \in 1 .. pos - 1
        BY <3>1
      <4>2. s.out[k + 1] = Literal(data[k + 1])
        BY <1>10, <4>1 DEF Decoded
      <4> QED BY <1>9, <4>1, <4>2
    <3>2. CASE ~ (k + 1 <= pos - 1)
      <4> DEFINE j == k + 1 - offset
      <4>1. k + 1 \in pos .. pos - 1 + n
        BY <1>4, <3>2
      <4>2. new[k + 1] = new[j]
        <5>1. \A h \in pos .. pos - 1 + n : new[h] = new[h - offset]
          BY <1>9, <2>1
        <5> QED BY <4>1, <5>1
      <4>3. j \in 1 .. pos - 1 + n /\ j <= k
        <5>1. k \in Nat /\ pos \in Nat /\ offset \in 1 .. pos - 1
          BY <2>1, <2>3
        <5>2. k + 1 \in pos .. pos - 1 + n
          BY <4>1
        <5> HIDE DEF P
        <5>3. j >= 1
          BY <5>1, <5>2
        <5>4. j <= k
          BY <5>1
        <5> QED BY <5>1, <5>2, <5>3, <5>4
      <4>4. new[j] = Literal(data[j])
        <5> HIDE DEF j
        <5> QED BY <2>3, <4>3
      <4>5. data[j] = data[k + 1]
        <5> HIDE DEF P
        <5> DEFINE h == k + 1 - pos
        <5>1. h \in 0 .. n - 1 /\ pos + h = k + 1
          BY <2>3, <4>1
        <5>2. pos - m.offset + h = j
          <6>1. k \in Nat /\ pos \in Nat
            BY <2>3
          <6>2. pos - offset + h = j
            BY <6>1
          <6> HIDE DEF h, j
          <6> QED BY <2>1, <6>2
        <5> HIDE DEF h, j
        <5>3. data[pos - m.offset + h] = data[pos + h]
          BY <1>1, <5>1
        <5> QED BY <5>1, <5>2, <5>3
      <4> QED BY <4>2, <4>4, <4>5
    <3> QED BY <3>1, <3>2
  <2>4. Nat \subseteq P
    <3> HIDE DEF P
    <3> QED BY <2>2, <2>3, Upward
  <2>5. pos - 1 + n \in Nat
    BY <1>4
  <2>6. pos - 1 + n \in P
    <3> HIDE DEF P
    <3> QED BY <2>4, <2>5
  <2>7. \A k \in 1 .. pos - 1 + n : k <= pos - 1 + n
    BY <2>5
  <2> QED BY <2>6, <2>7
<1>11. Decoded(data, pos - 1 + token.length, new)
  BY <1>3, <1>9, <1>10 DEF Decoded
<1>12. i + 3 > i
  OBVIOUS
<1> QED BY <1>5, <1>7, <1>11, <1>12 DEF DecodesToken

LEMMA RoundDecodes ==
  ASSUME NEW data \in Seq(Bytes), NEW pos \in 1 .. Len(data), NEW e \in Seq(Bytes),
         NEW s, Decoded(data, pos - 1, s.out), NEW rest \in Seq(Bytes),
         AtToken(e, s, DictToken(data, pos), rest)
  PROVE  DecodesToken(data, pos, DictToken(data, pos), e, rest, s, DictRound(e, s))
<1> DEFINE token == DictToken(data, pos)
<1>1. CASE token = TokenOf(<<Literal(data[pos])>>, 1)
  <2> HIDE DEF token
  <2>1. AtToken(e, s, token, rest)
    BY DEF token
  <2>2. DecodesToken(data, pos, token, e, rest, s, DictRound(e, s))
    BY <1>1, <2>1, LiteralDecodes DEF LiteralToken
  <2> QED BY <2>2 DEF token
<1>2. CASE \E m : Matches(data, pos, m) /\ token = TokenOf(Token(m), m.length)
  <2> HIDE DEF token
  <2>1. PICK m : Matches(data, pos, m) /\ token = TokenOf(Token(m), m.length)
    BY <1>2
  <2>2. AtToken(e, s, token, rest)
    BY DEF token
  <2>3. DecodesToken(data, pos, token, e, rest, s, DictRound(e, s))
    BY <2>1, <2>2, MatchDecodes DEF MatchToken
  <2> QED BY <2>3 DEF token
<1> QED BY <1>1, <1>2, DictTokenIs

LEMMA TokenNotEmpty ==
  ASSUME NEW data \in Seq(Bytes), NEW pos \in 1 .. Len(data)
  PROVE  Len(DictToken(data, pos).bytes) >= 1
<1>1. CASE DictToken(data, pos) = TokenOf(<<Literal(data[pos])>>, 1)
  <2>1. DictToken(data, pos).bytes = <<Literal(data[pos])>>
    BY <1>1 DEF TokenOf
  <2> QED BY <2>1
<1>2. CASE \E m : Matches(data, pos, m) /\ DictToken(data, pos) = TokenOf(Token(m), m.length)
  <2>1. PICK m : Matches(data, pos, m) /\ DictToken(data, pos) = TokenOf(Token(m), m.length)
    BY <1>2
  <2>2. DictToken(data, pos).bytes = Token(m)
    BY <2>1 DEF TokenOf
  <2>3. Len(Token(m)) = 3
    BY DEF Token
  <2> QED BY <2>2, <2>3
<1> QED BY <1>1, <1>2, DictTokenIs

\* The decoder's state after each of m rounds.
Start == [i |-> 1, out |-> <<>>]
Round(e, g, k) == IF k = 0 THEN Start ELSE DictRound(e, g[k - 1])
Runs(e, m, g) == g = [k \in 0 .. m |-> Round(e, g, k)]

LEMMA RunExists ==
  ASSUME NEW e, NEW m \in Nat
  PROVE  \E g : Runs(e, m, g)
<1> DEFINE P == {l \in Nat : \E g : Runs(e, l, g)}
<1>1. 0 \in P
  <2> DEFINE g == [k \in 0 .. 0 |-> Start]
  <2>1. \A k \in 0 .. 0 : Round(e, g, k) = Start
    BY DEF Round
  <2>2. Runs(e, 0, g)
    BY <2>1 DEF Runs
  <2> HIDE DEF g
  <2> QED BY <2>2
<1>2. ASSUME NEW l \in Nat, l \in P PROVE l + 1 \in P
  <2>1. PICK g : Runs(e, l, g)
    BY <1>2
  <2> DEFINE h == [k \in 0 .. l + 1 |-> IF k = l + 1 THEN Round(e, g, k) ELSE g[k]]
  <2>2. ASSUME NEW k \in 0 .. l + 1 PROVE h[k] = Round(e, g, k)
    <3>1. k # l + 1 => k \in 0 .. l
      BY <1>2
    <3>2. k # l + 1 => g[k] = Round(e, g, k)
      BY <2>1, <3>1 DEF Runs
    <3> QED BY <3>2
  <2>3. ASSUME NEW k \in 0 .. l + 1 PROVE Round(e, h, k) = Round(e, g, k)
    <3>1. CASE k = 0
      BY <3>1 DEF Round
    <3>2. CASE k # 0
      <4>1. k - 1 \in 0 .. l + 1 /\ k - 1 # l + 1
        BY <1>2, <3>2
      <4>2. h[k - 1] = g[k - 1]
        BY <4>1
      <4> HIDE DEF h
      <4> QED BY <4>2 DEF Round
    <3> QED BY <3>1, <3>2
  <2>4. DOMAIN h = 0 .. l + 1 /\ h = [k \in DOMAIN h |-> h[k]]
    OBVIOUS
  <2> HIDE DEF h
  <2>5. Runs(e, l + 1, h)
    BY <2>2, <2>3, <2>4 DEF Runs
  <2> QED BY <1>2, <2>5
<1>3. Nat \subseteq P
  <2> HIDE DEF P
  <2> QED BY <1>1, <1>2, Upward
<1> QED BY <1>3

\* The decoder has read the tokens before pos, of which at least one in each
\* of k rounds, or all.
Reads(data, e, f, k, s, pos) ==
  /\ pos \in 1 .. Len(data) + 1
  /\ Decoded(data, pos - 1, s.out) /\ Suffix(e, s.i, f[pos])
  /\ s.i >= k + 1 \/ pos = Len(data) + 1

\* f says what is put out from each position of data on.
DescribesDict(data, f) ==
  /\ f \in [1 .. Len(data) + 1 -> Seq(Bytes)]
  /\ f[Len(data) + 1] = <<>>
  /\ \A pos \in 1 .. Len(data) :
       /\ DictToken(data, pos).bytes \in Seq(Bytes)
       /\ DictToken(data, pos).length \in 1 .. Len(data) + 1 - pos
       /\ f[pos] = DictToken(data, pos).bytes \o f[pos + DictToken(data, pos).length]

LEMMA RoundReads ==
  ASSUME NEW data \in Seq(Bytes), NEW f, DescribesDict(data, f), NEW e \in Seq(Bytes),
         NEW k \in Nat, NEW s, NEW pos, Reads(data, e, f, k, s, pos)
  PROVE  \E next : Reads(data, e, f, k + 1, DictRound(e, s), next)
<1>1. Len(data) \in Nat /\ Len(e) \in Nat /\ pos \in 1 .. Len(data) + 1
  BY DEF Reads
<1>2. s.i \in Nat \ {0} /\ Suffix(e, s.i, f[pos]) /\ Decoded(data, pos - 1, s.out)
  BY DEF Reads, Suffix
<1>3. CASE pos = Len(data) + 1
  <2>1. f[pos] = <<>>
    BY <1>3 DEF DescribesDict
  <2>2. s.i > Len(e)
    <3>1. s.i + Len(<<>>) = Len(e) + 1
      BY <1>2, <2>1 DEF Suffix
    <3>2. Len(<<>>) = 0
      OBVIOUS
    <3> PICK i \in Nat : i = s.i
      BY <1>2
    <3>3. i + 0 = Len(e) + 1
      BY <3>1, <3>2
    <3> QED BY <1>1, <3>3
  <2>3. DictRound(e, s) = s
    BY <2>2 DEF DictRound
  <2>4. Reads(data, e, f, k + 1, s, pos)
    BY <1>3 DEF Reads
  <2> QED BY <2>3, <2>4
<1>4. CASE pos # Len(data) + 1
  <2> PICK p \in 1 .. Len(data) : p = pos
    BY <1>1, <1>4
  <2> DEFINE token == DictToken(data, p)
             next == p + token.length
             new == DictRound(e, s)
  <2>1. /\ token.bytes \in Seq(Bytes) /\ token.length \in 1 .. Len(data) + 1 - p
        /\ f[p] = token.bytes \o f[p + token.length]
    BY DEF DescribesDict
  <2>2. next \in p + 1 .. Len(data) + 1
    <3> HIDE DEF token
    <3> QED BY <1>1, <2>1
  <2>3. f[next] \in Seq(Bytes)
    <3> HIDE DEF next
    <3>1. next \in 1 .. Len(data) + 1
      BY <1>1, <2>2
    <3> QED BY <3>1 DEF DescribesDict
  <2>4. AtToken(e, s, token, f[next])
    <3> HIDE DEF token
    <3> QED BY <1>2, <2>1 DEF AtToken
  <2>5. DecodesToken(data, p, token, e, f[next], s, new)
    <3> HIDE DEF next, new
    <3>1. Decoded(data, p - 1, s.out)
      BY <1>2
    <3> QED BY <2>3, <2>4, <3>1, RoundDecodes DEF new
  <2> HIDE DEF new
  <2>6. new.i > s.i /\ Suffix(e, new.i, f[next]) /\ Decoded(data, next - 1, new.out)
    <3>1. p - 1 + token.length = next - 1
      <4> HIDE DEF token
      <4> QED BY <1>1, <2>1
    <3> HIDE DEF next
    <3> QED BY <2>5, <3>1 DEF DecodesToken
  <2>7. new.i >= k + 1 + 1
    <3>1. s.i >= k + 1
      BY <1>4 DEF Reads
    <3>2. new.i \in Nat
      BY <2>6 DEF Suffix
    <3> PICK i \in Nat, j \in Nat : i = s.i /\ j = new.i
      BY <1>2, <3>2
    <3>3. j > i /\ i >= k + 1
      BY <2>6, <3>1
    <3>4. j >= k + 1 + 1
      BY <3>3
    <3> QED BY <3>4
  <2>8. next \in 1 .. Len(data) + 1
    <3> HIDE DEF next
    <3> QED BY <1>1, <2>2
  <2> HIDE DEF next
  <2>9. Reads(data, e, f, k + 1, new, next)
    BY <2>6, <2>7, <2>8 DEF Reads
  <2> QED BY <2>9 DEF new
<1> QED BY <1>3, <1>4

LEMMA DictDescribed ==
  ASSUME NEW data \in Seq(Bytes)
  PROVE  \E f : DescribesDict(data, f) /\ f[1] = DictCompress(data)
<1> DEFINE n == Len(data)
           tokens == [pos \in DOMAIN data |-> DictToken(data, pos)]
<1>1. n \in Nat /\ DOMAIN data = 1 .. n
  OBVIOUS
<1>2. Tokens(n, Bytes, tokens)
  BY DictTokens
<1>3. PICK f \in [1 .. n + 1 -> Seq(Bytes)] : Describes(n, tokens, f)
  <2> HIDE DEF n, tokens
  <2> QED BY <1>1, <1>2, PutOutExists
<1>4. f[1] = DictCompress(data)
  <2>1. PutOut(n, tokens) = f[1]
    <3> HIDE DEF n, tokens
    <3> QED BY <1>1, <1>2, <1>3, PutOutIs
  <2> QED BY <2>1 DEF DictCompress
<1>5. f[n + 1] = <<>>
  <2>1. PutsOut(n, tokens, f, n + 1) /\ n + 1 > n
    BY <1>1, <1>3 DEF Describes
  <2> HIDE DEF n, tokens
  <2> QED BY <2>1 DEF PutsOut
<1>6. ASSUME NEW pos \in 1 .. n
      PROVE  /\ DictToken(data, pos).bytes \in Seq(Bytes)
             /\ DictToken(data, pos).length \in 1 .. n + 1 - pos
             /\ f[pos] = DictToken(data, pos).bytes \o f[pos + DictToken(data, pos).length]
  <2>1. tokens[pos] = DictToken(data, pos)
    BY <1>1
  <2>2. PutsOut(n, tokens, f, pos) /\ ~ (pos > n)
    BY <1>1, <1>3 DEF Describes
  <2> HIDE DEF n, tokens
  <2>3. f[pos] = tokens[pos].bytes \o f[pos + tokens[pos].length]
    BY <2>2, Zenon DEF PutsOut
  <2>4. tokens[pos].bytes \in Seq(Bytes) /\ tokens[pos].length \in 1 .. n + 1 - pos
    BY <1>2 DEF Tokens
  <2> QED BY <2>1, <2>3, <2>4
<1> HIDE DEF tokens
<1>7. DescribesDict(data, f)
  BY <1>3, <1>5, <1>6 DEF DescribesDict
<1> QED BY <1>4, <1>7

\* The dictionary decoder ends on whatever the encoder puts out, with as many
\* bytes as there were; for all data in which no match lies a whole window back,
\* and all offsets fit into their 12 bits, they are the data's up to their top
\* bit.
THEOREM DictUndone ==
  ASSUME NEW data \in Seq(Bytes)
  PROVE  /\ DictRestores(data)
         /\ DictCompress(data) \in Seq(Bytes)
         /\ DictDecompress(DictCompress(data)) \in Seq(Int)
         /\ Len(DictDecompress(DictCompress(data))) = Len(data)
<1> DEFINE n == Len(data)
<1>1. PICK f : DescribesDict(data, f) /\ f[1] = DictCompress(data)
  BY DictDescribed
<1>2. PICK e \in Seq(Bytes) : e = f[1]
  <2>1. 1 \in 1 .. Len(data) + 1
    OBVIOUS
  <2> QED BY <1>1, <2>1 DEF DescribesDict
<1> DEFINE m == Len(e)
           after == CHOOSE g : g = [k \in 0 .. m |-> IF k = 0 THEN [i |-> 1, out |-> <<>>]
                                                    ELSE DictRound(e, g[k - 1])]
<1>3. m \in Nat /\ n \in Nat
  OBVIOUS
<1>4. Runs(e, m, after)
  <2>1. PICK g : Runs(e, m, g)
    <3> HIDE DEF m
    <3> QED BY <1>3, RunExists
  <2>2. after = CHOOSE h : Runs(e, m, h)
    BY DEF Runs, Round, Start
  <2> HIDE DEF m, after
  <2> QED BY <2>1, <2>2
<1> HIDE DEF after
<1>5. \A k \in 0 .. m : after[k] = Round(e, after, k)
  BY <1>4 DEF Runs
<1> DEFINE P == {k \in Nat : k <= m => \E pos : Reads(data, e, f, k, after[k], pos)}
<1>6. 0 \in P
  <2>1. after[0] = Start
    BY <1>3, <1>5 DEF Round
  <2>2. Suffix(e, 1, e)
    BY <1>3 DEF Suffix
  <2>3. Decoded(data, 0, <<>>)
    BY DEF Decoded
  <2>4. Start.i = 1 /\ Start.out = <<>>
    BY DEF Start
  <2>5. Reads(data, e, f, 0, Start, 1)
    <3>1. 1 \in 1 .. Len(data) + 1 /\ 1 - 1 = 0 /\ 1 >= 0 + 1
      BY <1>3
    <3> QED BY <1>2, <2>2, <2>3, <2>4, <3>1 DEF Reads
  <2> QED BY <2>1, <2>5
<1>7. ASSUME NEW k \in Nat, k \in P PROVE k + 1 \in P
  <2> SUFFICES ASSUME k + 1 <= m
               PROVE  \E pos : Reads(data, e, f, k + 1, after[k + 1], pos)
    BY <1>7
  <2>1. k <= m
    BY <1>3, <1>7
  <2>2. PICK pos : Reads(data, e, f, k, after[k], pos)
    BY <1>7, <2>1
  <2>3. after[k + 1] = DictRound(e, after[k])
    <3>1. k + 1 \in 0 .. m /\ k + 1 # 0 /\ k + 1 - 1 = k
      BY <1>3, <1>7
    <3> QED BY <1>5, <3>1 DEF Round
  <2>4. \E next : Reads(data, e, f, k + 1, DictRound(e, after[k]), next)
    BY <1>1, <1>7, <2>2, RoundReads
  <2> QED BY <2>3, <2>4
<1>8. PICK pos : Reads(data, e, f, m, after[m], pos)
  <2>1. m \in P
    <3> HIDE DEF P
    <3>1. Nat \subseteq P
      BY <1>6, <1>7, Upward
    <3> QED BY <1>3, <3>1
  <2> QED BY <1>3, <2>1
<1> DEFINE end == after[m]
<1>9. pos \in 1 .. n + 1 /\ end.i \in Nat \ {0} /\ end.i + Len(f[pos]) = m + 1
  BY <1>8 DEF Reads, Suffix
<1>10. pos = n + 1
  <2> SUFFICES ASSUME pos # n + 1 PROVE FALSE
    OBVIOUS
  <2> PICK p \in 1 .. Len(data) : p = pos
    BY <1>3, <1>9
  <2>1. end.i >= m + 1
    BY <1>8 DEF Reads
  <2> DEFINE token == DictToken(data, p)
  <2>2. /\ token.bytes \in Seq(Bytes) /\ f[p] = token.bytes \o f[p + token.length]
        /\ token.length \in 1 .. Len(data) + 1 - p
    BY <1>1 DEF DescribesDict
  <2>3. Len(token.bytes) >= 1
    BY TokenNotEmpty
  <2>4. f[p + token.length] \in Seq(Bytes)
    <3> HIDE DEF token
    <3>1. p + token.length \in 1 .. Len(data) + 1
      BY <1>3, <2>2
    <3> QED BY <1>1, <3>1 DEF DescribesDict
  <2>5. Len(f[p]) >= 1
    <3> HIDE DEF token
    <3>1. Len(f[p]) = Len(token.bytes) + Len(f[p + token.length])
      BY <2>2, <2>4
    <3>2. Len(token.bytes) \in Nat /\ Len(f[p + token.length]) \in Nat
      BY <2>2, <2>4
    <3> PICK a \in Nat, b \in Nat : a = Len(token.bytes) /\ b = Len(f[p + token.length])
      BY <3>2
    <3>3. Len(f[p]) = a + b /\ a >= 1
      BY <2>3, <3>1
    <3>4. a + b >= 1
      <4>1. \A x \in Nat, y \in Nat : x >= 1 => x + y >= 1
        OBVIOUS
      <4> QED BY <3>3, <4>1, Zenon
    <3> QED BY <3>3, <3>4, Zenon
  <2>6. Len(f[p]) \in Nat
    <3>1. p \in 1 .. Len(data) + 1
      BY <1>3
    <3> QED BY <1>1, <3>1 DEF DescribesDict
  <2> PICK i \in Nat : i = end.i
    BY <1>9
  <2>7. i + Len(f[p]) = m + 1 /\ i >= m + 1
    BY <1>9, <2>1
  <2> HIDE DEF m, end, token
  <2> QED BY <1>3, <2>5, <2>6, <2>7
<1>11. end.i > m
  <2>1. f[pos] = <<>>
    BY <1>1, <1>10 DEF DescribesDict
  <2>2. Len(f[pos]) = 0
    BY <2>1
  <2> PICK i \in Nat : i = end.i
    BY <1>9
  <2> HIDE DEF end
  <2>3. i + 0 = m + 1
    BY <1>9, <2>2
  <2> QED BY <1>3, <2>3
<1>12. DictDecompress(e) = end.out
  <2>1. DictDecompress(e) = IF end.i > m THEN end.out ELSE Diverges
    BY DEF DictDecompress, after
  <2> QED BY <1>11, <2>1
<1>13. Decoded(data, n, end.out)
  <2>1. pos - 1 = n
    BY <1>3, <1>10
  <2> QED BY <1>8, <2>1 DEF Reads
<1>14. DictDecompress(e) \in Seq(Int) /\ Len(DictDecompress(e)) = n
  BY <1>12, <1>13 DEF Decoded
<1>15. DictRestores(data)
  <2> SUFFICES ASSUME Restorable(data)
               PROVE  DictDecompress(e) = [i \in DOMAIN data |-> Literal(data[i])]
    BY <1>1, <1>2, <1>14 DEF DictRestores
  <2> PICK out \in Seq(Int) : out = end.out
    BY <1>13 DEF Decoded
  <2>1. Len(out) = n /\ \A k \in 1 .. n : out[k] = Literal(data[k])
    BY <1>13 DEF Decoded
  <2>2. DOMAIN out = 1 .. n /\ DOMAIN data = 1 .. n
    BY <2>1
  <2> DEFINE literals == [i \in DOMAIN data |-> Literal(data[i])]
  <2>3. \A i \in 1 .. n : data[i] \in Bytes
    OBVIOUS
  <2>4. \A i \in 1 .. n : Literal(data[i]) \in Int
    BY <2>3, LiteralIs, TopBit
  <2>5. literals \in Seq(Int) /\ Len(literals) = n /\ \A i \in 1 .. n : literals[i] = Literal(data[i])
    BY <1>3, <2>2, <2>4
  <2>6. Len(out) = Len(literals) /\ \A i \in 1 .. Len(out) : out[i] = literals[i]
    BY <2>1, <2>5
  <2> HIDE DEF literals
  <2>7. out = literals
    BY <2>5, <2>6, SeqEqual
  <2> QED BY <1>12, <2>7 DEF literals
<1> QED BY <1>1, <1>2, <1>14, <1>15
=============================================================================
