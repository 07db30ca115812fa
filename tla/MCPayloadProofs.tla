---------------------------- MODULE MCPayloadProofs ----------------------------
(***************************************************************************)
(* Theorems about the payload headers: about the two coders, which are     *)
(* given any input; about the payload builder and its lossy link; and      *)
(* about VariableBatch.  They hold for bytes of any width, any variables,  *)
(* any thresholds and any batch sizes.                                     *)
(***************************************************************************)
EXTENDS MCPayload, PayloadCompressionProofs

CoderP == INSTANCE PayloadCompressionProofs WITH Nibble <- SmallNibble

-----------------------------------------------------------------------------
(* The coders. *)

LEMMA CodersUndo ==
  ASSUME NEW data \in Seq(0 .. Coder!Byte - 1)
  PROVE  Coder!RleRestores(data) /\ Coder!DictRestores(data)
<1>1. CoderP!NibbleAssumption
  BY SmallNibbleAssumption DEF SmallNibbleAssumption, CoderP!NibbleAssumption
<1>2. data \in Seq(CoderP!Bytes)
  BY DEF CoderP!Bytes, CoderP!Byte, Coder!Byte
<1>3. CoderP!RleRestores(data)
  BY <1>1, <1>2, CoderP!RleUndone DEF CoderP!NibbleAssumption
<1>4. CoderP!DictRestores(data)
  BY <1>1, <1>2, CoderP!DictUndone DEF CoderP!NibbleAssumption
<1>5. Coder!RleRestores(data)
  BY <1>3, Zenon
     DEF Coder!RleRestores, CoderP!RleRestores, Coder!RleDecompress, CoderP!RleDecompress,
         Coder!RleCompress, CoderP!RleCompress, Coder!PutOut, CoderP!PutOut,
         Coder!RleMeaning, CoderP!RleMeaning, Coder!RleToken, CoderP!RleToken,
         Coder!RunLength, CoderP!RunLength, Coder!RleLiteral, CoderP!RleLiteral,
         Coder!TokenOf, CoderP!TokenOf, Coder!Repeat, CoderP!Repeat,
         Coder!Escape, CoderP!Escape, Coder!Byte, CoderP!Byte
<1>6. Coder!DictCompress(data) = CoderP!DictCompress(data)
  BY Zenon
     DEF Coder!DictCompress, CoderP!DictCompress,
         Coder!DictToken, CoderP!DictToken, Coder!find_match, CoderP!find_match,
         Coder!MatchLen, CoderP!MatchLen, Coder!Token, CoderP!Token,
         Coder!PutOut, CoderP!PutOut, Coder!TokenOf, CoderP!TokenOf,
         Coder!Literal, CoderP!Literal, Coder!Window, CoderP!Window,
         Coder!MinMatch, CoderP!MinMatch, Coder!MaxMatch, CoderP!MaxMatch,
         Coder!High, CoderP!High, Coder!Byte, CoderP!Byte
<1>7. \A e : Coder!DictDecompress(e) = CoderP!DictDecompress(e)
  BY Zenon
     DEF Coder!DictDecompress, CoderP!DictDecompress, Coder!DictRound, CoderP!DictRound,
         Coder!CopyOut, CoderP!CopyOut, Coder!MinMatch, CoderP!MinMatch,
         Coder!Undefined, CoderP!Undefined, Coder!Diverges, CoderP!Diverges,
         Coder!High, CoderP!High, Coder!Byte, CoderP!Byte
<1>8. /\ Coder!Restorable(data) <=> CoderP!Restorable(data)
      /\ \A b : Coder!Literal(b) = CoderP!Literal(b)
  BY Zenon
     DEF Coder!Restorable, CoderP!Restorable, Coder!Literal, CoderP!Literal,
         Coder!find_match, CoderP!find_match, Coder!MatchLen, CoderP!MatchLen,
         Coder!Window, CoderP!Window, Coder!MinMatch, CoderP!MinMatch,
         Coder!MaxMatch, CoderP!MaxMatch,
         Coder!High, CoderP!High, Coder!Byte, CoderP!Byte
<1>9. Coder!DictRestores(data)
  BY <1>4, <1>6, <1>7, <1>8 DEF Coder!DictRestores, CoderP!DictRestores
<1> QED BY <1>5, <1>9

InputInv == input \in Seq(0 .. Coder!Byte - 1)

LEMMA InputBytes == MCSpec => []InputInv
<1>1. MCInit => InputInv
  BY DEF MCInit, InputInv
<1>2. InputInv /\ [MCNext]_<<subject, vars, batchVars, input>> => InputInv'
  <2> SUFFICES ASSUME InputInv, [MCNext]_<<subject, vars, batchVars, input>> PROVE InputInv'
    OBVIOUS
  <2>1. CASE \E b \in 0 .. Coder!Byte - 1 : input' = Append(input, b)
    BY <2>1 DEF InputInv
  <2>2. CASE UNCHANGED input
    BY <2>2 DEF InputInv
  <2> QED BY <2>1, <2>2 DEF MCNext, BuilderMoves, BatchMoves, NextInput
<1> QED BY <1>1, <1>2, PTL DEF MCSpec

\* Run-length coding is undone on whatever the coders are given; dictionary
\* coding ends, and is undone up to each byte's top bit where the matches lie
\* within the window.
THEOREM MCCodersRestore == MCSpec => []CodersRestore
<1>1. InputInv => CodersRestore
  BY CodersUndo DEF InputInv, CodersRestore
<1> QED BY <1>1, InputBytes, PTL
-----------------------------------------------------------------------------
(* Each part takes its own steps. *)

LEMMA BuilderBehaves == MCSpec => Spec
<1>1. MCInit => Init
  BY DEF MCInit
<1>2. [MCNext]_<<subject, vars, batchVars, input>> => [Next]_vars
  BY DEF MCNext, BuilderMoves, BatchMoves, NextInput
<1> QED BY <1>1, <1>2, PTL DEF MCSpec, Spec

LEMMA BatchBehaves == MCSpec => Batch!Spec
<1>1. MCInit => Batch!Init
  BY DEF MCInit
<1>2. [MCNext]_<<subject, vars, batchVars, input>> => [Batch!Next]_(Batch!vars)
  BY DEF MCNext, BuilderMoves, BatchMoves, NextInput, batchVars, Batch!vars
<1> QED BY <1>1, <1>2, PTL DEF MCSpec, Batch!Spec
-----------------------------------------------------------------------------
(* Arithmetic modulo n. *)

LEMMA ModIs ==
  ASSUME NEW n \in Nat \ {0}, NEW x \in Nat
  PROVE  x % n \in 0 .. n - 1 /\ (x < n => x % n = x)
OBVIOUS

LEMMA ModPlus ==
  ASSUME NEW n \in Nat \ {0}, NEW a \in Nat, NEW b \in Nat
  PROVE  ((a % n) + b) % n = (a + b) % n
<1> PICK q \in Nat, r \in 0 .. n - 1 : a = q * n + r /\ a % n = r
  <2>1. \A x \in Nat, m \in Nat \ {0} :
          x \div m \in Nat /\ x % m \in 0 .. m - 1 /\ x = (x \div m) * m + (x % m)
    OBVIOUS
  <2> QED BY <2>1
<1> PICK p \in Nat, s \in 0 .. n - 1 : r + b = p * n + s
  <2>1. \A x \in Nat, m \in Nat \ {0} :
          x \div m \in Nat /\ x % m \in 0 .. m - 1 /\ x = (x \div m) * m + (x % m)
    OBVIOUS
  <2>2. r + b \in Nat
    OBVIOUS
  <2> QED BY <2>1, <2>2
<1>1. \A k \in Nat, m \in Nat \ {0} : \A x \in 0 .. m - 1 : (k * m + x) % m = x
  OBVIOUS
<1>2. (p * n + s) % n = s
  BY <1>1
<1>3. ((q + p) * n + s) % n = s
  <2>1. q + p \in Nat
    OBVIOUS
  <2> QED BY <1>1, <2>1
<1>4. (q + p) * n + s = a + b
  <2>1. (q + p) * n = q * n + p * n
    OBVIOUS
  <2> QED BY <2>1
<1> QED BY <1>2, <1>3, <1>4

LEMMA ModMinus ==
  ASSUME NEW n \in Nat \ {0}, NEW a \in 0 .. n - 1, NEW l \in 0 .. n - 1
  PROVE  (((a + l) % n) - a) % n = l
<1>1. CASE a + l < n
  <2>1. (a + l) % n = a + l
    <3>1. a + l \in Nat
      OBVIOUS
    <3> QED BY <1>1, <3>1, ModIs
  <2>2. a + l - a = l /\ l % n = l
    BY ModIs
  <2> QED BY <2>1, <2>2
<1>2. CASE ~ (a + l < n)
  <2>1. (1 * n + (a + l - n)) % n = a + l - n
    <3>1. \A k \in Nat, m \in Nat \ {0} : \A x \in 0 .. m - 1 : (k * m + x) % m = x
      OBVIOUS
    <3>2. a + l - n \in 0 .. n - 1
      BY <1>2
    <3> QED BY <3>1, <3>2
  <2>2. 1 * n + (a + l - n) = a + l
    OBVIOUS
  <2>3. a + l - n - a = l - n
    OBVIOUS
  <2>4. (l - n) % n = l
    OBVIOUS
  <2> QED BY <2>1, <2>2, <2>3, <2>4
<1> QED BY <1>1, <1>2
-----------------------------------------------------------------------------
(* What the payload builder puts together. *)

\* Shifting n right by a byte at a time.
LEMMA LittleEndianIs ==
  ASSUME NEW n \in Nat, NEW width \in Nat
  PROVE  LittleEndian(n, width) \in Seq(Bytes) /\ Len(LittleEndian(n, width)) = width
<1> DEFINE Shift(r, i) == IF i = 1 THEN n ELSE r[i - 1] \div Byte
           P == {w \in Nat : \E r : r = [i \in 1 .. w |-> Shift(r, i)]}
           rest == CHOOSE r : r = [i \in 1 .. width |-> Shift(r, i)]
<1>1. 0 \in P
  <2> DEFINE r == [i \in 1 .. 0 |-> 0]
  <2>1. r = [i \in 1 .. 0 |-> Shift(r, i)]
    OBVIOUS
  <2> QED BY <2>1
<1>2. ASSUME NEW w \in Nat, w \in P PROVE w + 1 \in P
  <2>1. PICK r : r = [i \in 1 .. w |-> Shift(r, i)]
    BY <1>2
  <2> DEFINE t == [i \in 1 .. w + 1 |-> IF i = w + 1 THEN Shift(r, i) ELSE r[i]]
  <2> HIDE DEF Shift
  <2>2. ASSUME NEW i \in 1 .. w + 1 PROVE t[i] = Shift(r, i)
    <3>1. i # w + 1 => i \in 1 .. w
      BY <1>2
    <3> QED BY <2>1, <3>1
  <2>3. ASSUME NEW i \in 1 .. w + 1 PROVE Shift(t, i) = Shift(r, i)
    <3>1. CASE i = 1
      BY <3>1 DEF Shift
    <3>2. CASE i # 1
      <4>1. i - 1 \in 1 .. w + 1 /\ i - 1 # w + 1
        BY <1>2, <3>2
      <4>2. t[i - 1] = r[i - 1]
        BY <4>1
      <4> HIDE DEF t
      <4> QED BY <4>2 DEF Shift
    <3> QED BY <3>1, <3>2
  <2>4. DOMAIN t = 1 .. w + 1 /\ t = [i \in DOMAIN t |-> t[i]]
    OBVIOUS
  <2> HIDE DEF t
  <2>5. t = [i \in 1 .. w + 1 |-> Shift(t, i)]
    BY <2>2, <2>3, <2>4
  <2> QED BY <1>2, <2>5
<1>3. width \in P
  <2> HIDE DEF P
  <2>1. Nat \subseteq P
    BY <1>1, <1>2, Upward
  <2> QED BY <2>1
<1>4. rest = [i \in 1 .. width |-> Shift(rest, i)]
  <2>1. PICK r : r = [i \in 1 .. width |-> Shift(r, i)]
    BY <1>3
  <2> HIDE DEF Shift
  <2> QED BY <2>1
<1> HIDE DEF rest
<1>5. \A i \in 1 .. width : rest[i] = Shift(rest, i)
  <2> HIDE DEF Shift
  <2> QED BY <1>4
<1> DEFINE Q == {w \in Nat : \A i \in 1 .. width : i <= w => rest[i] \in Nat}
<1>6. 0 \in Q
  OBVIOUS
<1>7. ASSUME NEW w \in Nat, w \in Q PROVE w + 1 \in Q
  <2> SUFFICES ASSUME w + 1 \in 1 .. width PROVE rest[w + 1] \in Nat
    BY <1>7
  <2>1. rest[w + 1] = Shift(rest, w + 1)
    <3> HIDE DEF Shift
    <3> QED BY <1>5
  <2>2. CASE w = 0
    BY <2>1, <2>2
  <2>3. CASE w # 0
    <3>1. w \in 1 .. width /\ w <= w /\ w + 1 # 1 /\ w + 1 - 1 = w
      BY <1>7, <2>3
    <3>2. rest[w] \in Nat
      BY <1>7, <3>1
    <3>3. \A x \in Nat, m \in Nat \ {0} : x \div m \in Nat
      OBVIOUS
    <3>4. rest[w] \div Byte \in Nat
      BY <3>2, <3>3, TopBit
    <3> QED BY <2>1, <3>1, <3>4
  <2> QED BY <2>2, <2>3
<1>8. \A i \in 1 .. width : rest[i] \in Nat
  <2> HIDE DEF Q
  <2>1. Nat \subseteq Q
    BY <1>6, <1>7, Upward
  <2>2. width \in Q
    BY <2>1
  <2> QED BY <2>2 DEF Q
<1>9. \A i \in 1 .. width : rest[i] % Byte \in Bytes
  <2>1. \A x \in Nat, m \in Nat \ {0} : x % m \in 0 .. m - 1
    OBVIOUS
  <2> QED BY <1>8, <2>1, TopBit DEF Bytes
<1>10. LittleEndian(n, width) = [i \in 1 .. width |-> rest[i] % Byte]
  BY DEF LittleEndian, rest
<1> DEFINE all == [i \in 1 .. width |-> rest[i] % Byte]
<1>11. all \in Seq(Bytes) /\ Len(all) = width
  BY <1>9
<1> HIDE DEF all
<1> QED BY <1>10, <1>11 DEF all

\* flat says what the first i of seqs are together.
Flattens(seqs, S, flat) ==
  /\ flat \in [0 .. Len(seqs) -> Seq(S)] /\ flat[0] = <<>>
  /\ \A i \in 1 .. Len(seqs) : flat[i] = flat[i - 1] \o seqs[i]

LEMMA FlattenIs ==
  ASSUME NEW S, NEW seqs \in Seq(Seq(S))
  PROVE  \E flat : Flattens(seqs, S, flat) /\ FlattenSeq(seqs) = flat[Len(seqs)]
<1> DEFINE n == Len(seqs)
           Flat(f, m) == /\ f \in [0 .. m -> Seq(S)] /\ f[0] = <<>>
                         /\ \A i \in 1 .. m : f[i] = f[i - 1] \o seqs[i]
           P == {m \in Nat : m <= n => \E f : Flat(f, m)}
<1>1. n \in Nat /\ \A i \in 1 .. n : seqs[i] \in Seq(S)
  OBVIOUS
<1>2. 0 \in P
  <2> DEFINE f == [i \in 0 .. 0 |-> <<>>]
  <2>1. Flat(f, 0)
    OBVIOUS
  <2> HIDE DEF Flat
  <2> QED BY <2>1
<1>3. ASSUME NEW m \in Nat, m \in P PROVE m + 1 \in P
  <2> SUFFICES ASSUME m + 1 <= n PROVE \E f : Flat(f, m + 1)
    <3> HIDE DEF Flat
    <3> QED BY <1>3
  <2>1. PICK f : Flat(f, m)
    <3>1. m <= n
      BY <1>1, <1>3
    <3> HIDE DEF Flat
    <3> QED BY <1>3, <3>1
  <2> DEFINE g == [i \in 0 .. m + 1 |-> IF i = m + 1 THEN f[m] \o seqs[m + 1] ELSE f[i]]
  <2>2. f[m] \in Seq(S) /\ seqs[m + 1] \in Seq(S)
    <3>1. m \in 0 .. m /\ m + 1 \in 1 .. n
      BY <1>1, <1>3
    <3> QED BY <1>1, <2>1, <3>1
  <2>3. f[m] \o seqs[m + 1] \in Seq(S)
    BY <2>2
  <2>4. \A i \in 0 .. m + 1 : i # m + 1 => i \in 0 .. m
    BY <1>3
  <2>5. g \in [0 .. m + 1 -> Seq(S)]
    BY <2>1, <2>3, <2>4
  <2>6. g[0] = <<>>
    BY <1>3, <2>1
  <2>7. ASSUME NEW i \in 1 .. m + 1 PROVE g[i] = g[i - 1] \o seqs[i]
    <3>1. i \in 0 .. m + 1 /\ i - 1 \in 0 .. m + 1 /\ i - 1 # m + 1
      BY <1>3
    <3>2. g[i - 1] = f[i - 1]
      BY <3>1
    <3>3. CASE i = m + 1
      <4>1. i - 1 = m
        BY <1>3, <3>3
      <4>2. g[i] = f[m] \o seqs[m + 1]
        BY <3>1, <3>3
      <4> HIDE DEF g
      <4> QED BY <3>2, <3>3, <4>1, <4>2
    <3>4. CASE i # m + 1
      <4>1. i \in 1 .. m
        BY <1>3, <3>4
      <4>2. g[i] = f[i]
        BY <3>1, <3>4
      <4>3. f[i] = f[i - 1] \o seqs[i]
        BY <2>1, <4>1
      <4> HIDE DEF g
      <4> QED BY <3>2, <4>2, <4>3
    <3> QED BY <3>3, <3>4
  <2> HIDE DEF g
  <2>8. Flat(g, m + 1)
    BY <2>5, <2>6, <2>7
  <2> HIDE DEF Flat
  <2> QED BY <2>8
<1>4. PICK flat : Flat(flat, n)
  <2>1. n \in P
    <3> HIDE DEF P, n
    <3>1. Nat \subseteq P
      BY <1>2, <1>3, Upward
    <3> QED BY <1>1, <3>1
  <2> HIDE DEF Flat
  <2> QED BY <1>1, <2>1
<1>5. Flattens(seqs, S, flat)
  BY <1>4 DEF Flattens
<1>6. CASE n = 0
  <2>1. FlattenSeq(seqs) = seqs /\ seqs = <<>>
    BY <1>6, EmptySeq DEF FlattenSeq
  <2> QED BY <1>4, <1>5, <1>6, <2>1
<1>7. CASE n # 0
  <2> DEFINE Next1(f, i) == IF i = 1 THEN seqs[i] ELSE f[i - 1] \o seqs[i]
             flatten == CHOOSE f : f = [i \in 1 .. n |-> Next1(f, i)]
             some == [i \in 1 .. n |-> flat[i]]
  <2>1. ASSUME NEW i \in 1 .. n PROVE some[i] = Next1(some, i)
    <3>1. flat[i] = flat[i - 1] \o seqs[i] /\ some[i] = flat[i]
      BY <1>4
    <3>2. CASE i = 1
      <4>1. flat[i - 1] = <<>> /\ seqs[i] \in Seq(S)
        BY <1>1, <1>4, <3>2
      <4>2. <<>> \o seqs[i] = seqs[i]
        BY <4>1, ConcatEmptySeq
      <4> HIDE DEF some
      <4> QED BY <3>1, <3>2, <4>1, <4>2
    <3>3. CASE i # 1
      <4>1. i - 1 \in 1 .. n
        BY <1>1, <3>3
      <4>2. some[i - 1] = flat[i - 1]
        BY <4>1
      <4> HIDE DEF some
      <4> QED BY <3>1, <3>3, <4>2
    <3> QED BY <3>2, <3>3
  <2>2. DOMAIN some = 1 .. n /\ some = [i \in DOMAIN some |-> some[i]]
    OBVIOUS
  <2>3. flatten = [i \in 1 .. n |-> Next1(flatten, i)]
    <3>1. some = [i \in 1 .. n |-> Next1(some, i)]
      <4> HIDE DEF some, Next1
      <4> QED BY <2>1, <2>2
    <3> HIDE DEF Next1
    <3> QED BY <3>1
  <2> HIDE DEF flatten
  <2>4. \A i \in 1 .. n : flatten[i] = Next1(flatten, i)
    <3> HIDE DEF Next1
    <3> QED BY <2>3
  <2> DEFINE Q == {m \in Nat : m + 1 <= n => flatten[m + 1] = flat[m + 1]}
  <2>5. 0 \in Q
    <3>1. 1 \in 1 .. n
      BY <1>1, <1>7
    <3>2. flatten[1] = seqs[1]
      BY <2>4, <3>1
    <3>3. flat[1] = <<>> \o seqs[1] /\ seqs[1] \in Seq(S)
      <4> PICK i \in 1 .. n : i = 1
        BY <3>1
      <4>1. flat[i] = flat[i - 1] \o seqs[i]
        BY <1>4, Zenon
      <4>2. i - 1 = 0
        OBVIOUS
      <4>3. flat[1] = flat[0] \o seqs[1]
        BY <4>1, <4>2
      <4>4. flat[0] = <<>>
        BY <1>4
      <4> QED BY <1>1, <3>1, <4>3, <4>4
    <3>4. <<>> \o seqs[1] = seqs[1]
      BY <3>3, ConcatEmptySeq
    <3> QED BY <3>2, <3>3, <3>4
  <2>6. ASSUME NEW m \in Nat, m \in Q PROVE m + 1 \in Q
    <3> SUFFICES ASSUME m + 1 + 1 <= n PROVE flatten[m + 1 + 1] = flat[m + 1 + 1]
      BY <2>6
    <3> DEFINE i == m + 1 + 1
    <3>1. i \in 1 .. n /\ i # 1 /\ i - 1 = m + 1 /\ m + 1 <= n
      BY <1>1, <2>6
    <3> HIDE DEF i
    <3>2. flatten[i] = flatten[i - 1] \o seqs[i]
      BY <2>4, <3>1
    <3>3. flat[i] = flat[i - 1] \o seqs[i]
      BY <1>4, <3>1
    <3>4. flatten[m + 1] = flat[m + 1]
      BY <2>6, <3>1
    <3> QED BY <3>1, <3>2, <3>3, <3>4 DEF i
  <2>7. flatten[n] = flat[n]
    <3>1. n - 1 \in Q
      <4> HIDE DEF Q
      <4>1. Nat \subseteq Q
        BY <2>5, <2>6, Upward
      <4> QED BY <1>1, <1>7, <4>1
    <3>2. n - 1 + 1 = n /\ n <= n
      BY <1>1
    <3> QED BY <3>1, <3>2
  <2>8. FlattenSeq(seqs) = flatten[n]
    BY <1>7 DEF FlattenSeq, flatten
  <2> QED BY <1>5, <2>7, <2>8
<1> QED BY <1>6, <1>7

LEMMA VariableBytesAre ==
  ASSUME NEW v \in Variables, NEW time \in Times
  PROVE  VariableBytes(v, time) \in Seq(Bytes)
<1>1. v.name \in Seq(Bytes) /\ v.data \in Seq(Bytes) /\ v.type \in Bytes /\ time \in Nat
  BY PayloadAssumption DEF PayloadAssumption, Bytes
<1>2. Len(v.name) \in Nat /\ Len(v.data) \in Nat
  BY <1>1
<1>3. /\ LittleEndian(Len(v.name), 2) \in Seq(Bytes) /\ LittleEndian(Len(v.data), 4) \in Seq(Bytes)
      /\ LittleEndian(time, 8) \in Seq(Bytes) /\ <<v.type>> \in Seq(Bytes)
  <2> PICK a \in Nat, b \in Nat, c \in Nat : a = Len(v.name) /\ b = Len(v.data) /\ c = time
    BY <1>1, <1>2
  <2>1. /\ LittleEndian(a, 2) \in Seq(Bytes) /\ LittleEndian(b, 4) \in Seq(Bytes)
        /\ LittleEndian(c, 8) \in Seq(Bytes)
    BY LittleEndianIs
  <2>2. <<v.type>> \in Seq(Bytes)
    BY <1>1
  <2> QED BY <2>1, <2>2
<1>4. \A a, b \in Seq(Bytes) : a \o b \in Seq(Bytes)
  OBVIOUS
<1> QED BY <1>1, <1>3, <1>4, Zenon DEF VariableBytes

\* Payloads, and those that the plain builder makes.
Headers == [version : {1}, type : {"Single", "Batch", "Compressed"}, variable_count : Nat,
            total_size : Nat, timestamp : Nat, sequence_number : 0 .. SeqWrap - 1]
Payloads == [header : Headers, method : {"absent", "RLE", "Dictionary"}, bytes : Seq(Bytes)]
Plain(p) == /\ p \in Payloads
            /\ p.header.type # "Compressed" /\ p.method = "absent"
            /\ p.header.total_size = HeaderSize + Len(p.bytes)

LEMMA PayloadIs ==
  ASSUME NEW type \in {"Single", "Batch"}, NEW variables \in Seq(Variables),
         NEW time \in Times, NEW seq \in 0 .. SeqWrap - 1
  PROVE  Plain(Payload(type, variables, time, seq))
         /\ Payload(type, variables, time, seq).header.sequence_number = seq
<1> DEFINE each == [i \in DOMAIN variables |-> VariableBytes(variables[i], time)]
           body == FlattenSeq(each)
           header == [version |-> 1, type |-> type, variable_count |-> Len(variables) % CountWrap,
                      total_size |-> HeaderSize + Len(body), timestamp |-> time,
                      sequence_number |-> seq]
           p == Payload(type, variables, time, seq)
<1>1. each \in Seq(Seq(Bytes))
  <2>1. \A i \in DOMAIN variables : VariableBytes(variables[i], time) \in Seq(Bytes)
    BY VariableBytesAre
  <2> QED BY <2>1
<1>2. body \in Seq(Bytes)
  <2> HIDE DEF each
  <2>1. PICK flat : Flattens(each, Bytes, flat) /\ FlattenSeq(each) = flat[Len(each)]
    BY <1>1, FlattenIs
  <2>2. Len(each) \in 0 .. Len(each)
    BY <1>1
  <2> QED BY <2>1, <2>2 DEF Flattens
<1>3. p = [header |-> header, method |-> "absent", bytes |-> body]
  BY DEF Payload
<1> HIDE DEF body
<1>4. Len(body) \in Nat /\ HeaderSize + Len(body) \in Nat
  BY <1>2 DEF HeaderSize
<1>5. Len(variables) % CountWrap \in Nat
  <2>1. \A x \in Nat, m \in Nat \ {0} : x % m \in Nat
    OBVIOUS
  <2> QED BY <2>1, PayloadAssumption DEF PayloadAssumption
<1>6. time \in Nat
  BY PayloadAssumption DEF PayloadAssumption
<1>7. header \in Headers
  BY <1>4, <1>5, <1>6 DEF Headers
<1>8. /\ header.type # "Compressed" /\ header.total_size = HeaderSize + Len(body)
      /\ header.sequence_number = seq
  OBVIOUS
<1> HIDE DEF header, p
<1>9. Plain(p) /\ p.header.sequence_number = seq
  BY <1>2, <1>3, <1>7, <1>8 DEF Plain, Payloads
<1> QED BY <1>9 DEF p

\* What compress_auto() may return.
LEMMA AutoIs ==
  ASSUME NEW data \in Seq(Bytes)
  PROVE  \/ compress_auto(data) = [bytes |-> data, method |-> "None"]
         \/ /\ compress_auto(data) = [bytes |-> RleCompress(data), method |-> "RLE"]
            /\ Saves(Len(RleCompress(data)), Len(data))
         \/ /\ compress_auto(data) = [bytes |-> DictCompress(data), method |-> "Dictionary"]
            /\ Saves(Len(DictCompress(data)), Len(data))
<1> DEFINE none == [bytes |-> data, method |-> "None"]
           rle == [bytes |-> RleCompress(data), method |-> "RLE"]
           dict == [bytes |-> DictCompress(data), method |-> "Dictionary"]
<1>1. compress_auto(data) =
        IF Len(data) < MinSize THEN none
        ELSE IF Len(RleCompress(data)) < Len(DictCompress(data))
                  /\ Saves(Len(RleCompress(data)), Len(data)) THEN rle
        ELSE IF Saves(Len(DictCompress(data)), Len(data)) THEN dict
        ELSE none
  BY DEF compress_auto
<1> HIDE DEF none, rle, dict
<1>2. \/ compress_auto(data) = none
      \/ compress_auto(data) = rle /\ Saves(Len(RleCompress(data)), Len(data))
      \/ compress_auto(data) = dict /\ Saves(Len(DictCompress(data)), Len(data))
  BY <1>1, Zenon
<1> QED BY <1>2 DEF none, rle, dict

\* p is sent for the plain payload o.
Squeezed(o, p) ==
  LET result == compress_auto(o.bytes)
  IN  /\ result.method # "None"
      /\ p = [header |-> [o.header EXCEPT !.type = "Compressed",
                                          !.total_size = CompressedSize(result.bytes)],
              method |-> result.method, bytes |-> result.bytes]
SentFor(o, p) == p = o \/ Squeezed(o, p)

LEMMA CompressedIs ==
  ASSUME NEW o, NEW threshold
  PROVE  SentFor(o, Compressed(o, threshold))
<1> DEFINE result == compress_auto(o.bytes)
           whole == [header |-> [o.header EXCEPT !.type = "Compressed",
                                                 !.total_size = CompressedSize(result.bytes)],
                     method |-> result.method, bytes |-> result.bytes]
<1>1. Compressed(o, threshold) = IF ~enabled \/ Size(o) < threshold \/ result.method = "None"
                                   THEN o ELSE whole
  BY DEF Compressed
<1> HIDE DEF result, whole
<1>2. \/ Compressed(o, threshold) = o
      \/ Compressed(o, threshold) = whole /\ result.method # "None"
  BY <1>1, Zenon
<1> QED BY <1>2 DEF SentFor, Squeezed, result, whole

\* What a squeezed payload looks like: shorter than what it stands for, and
\* with a count of bytes that is right.
LEMMA SqueezedIs ==
  ASSUME NEW o, Plain(o), NEW p, Squeezed(o, p)
  PROVE  /\ p \in Payloads /\ p.method \in {"RLE", "Dictionary"}
         /\ p.header = [o.header EXCEPT !.type = "Compressed",
                                        !.total_size = HeaderSize + 1 + Len(p.bytes)]
         /\ p.bytes = IF p.method = "RLE" THEN RleCompress(o.bytes) ELSE DictCompress(o.bytes)
         /\ 1 + Len(p.bytes) <= Len(o.bytes)
<1> DEFINE data == o.bytes
           result == compress_auto(data)
<1>1. o \in Payloads /\ o.header \in Headers /\ data \in Seq(Bytes)
  BY DEF Plain, Payloads
<1>2. /\ result.method # "None"
      /\ p = [header |-> [o.header EXCEPT !.type = "Compressed",
                                          !.total_size = CompressedSize(result.bytes)],
              method |-> result.method, bytes |-> result.bytes]
  BY DEF Squeezed
<1> HIDE DEF data
<1>3. /\ RleCompress(data) \in Seq(Bytes) /\ DictCompress(data) \in Seq(Bytes)
      /\ Len(data) \in Nat
  BY <1>1, RleUndone, DictUndone
<1>4. /\ result.method \in {"RLE", "Dictionary"}
      /\ result.bytes = IF result.method = "RLE" THEN RleCompress(data) ELSE DictCompress(data)
      /\ Saves(Len(result.bytes), Len(data))
  <2>1. CASE result = [bytes |-> data, method |-> "None"]
    BY <1>2, <2>1
  <2>2. CASE /\ result = [bytes |-> RleCompress(data), method |-> "RLE"]
             /\ Saves(Len(RleCompress(data)), Len(data))
    <3>1. result.method = "RLE" /\ result.bytes = RleCompress(data)
      BY <2>2
    <3> QED BY <2>2, <3>1
  <2>3. CASE /\ result = [bytes |-> DictCompress(data), method |-> "Dictionary"]
             /\ Saves(Len(DictCompress(data)), Len(data))
    <3>1. result.method = "Dictionary" /\ result.bytes = DictCompress(data)
      BY <2>3
    <3> QED BY <2>3, <3>1
  <2> QED BY <1>1, <2>1, <2>2, <2>3, AutoIs
<1> HIDE DEF result
<1> DEFINE size == HeaderSize + 1 + Len(result.bytes)
           header == [o.header EXCEPT !.type = "Compressed", !.total_size = size]
<1>5. p = [header |-> header, method |-> result.method, bytes |-> result.bytes]
  BY <1>2, Zenon DEF CompressedSize
<1>6. result.bytes \in Seq(Bytes)
  BY <1>3, <1>4, Zenon
<1>7. size \in Nat
  BY <1>6 DEF HeaderSize
<1>8. header \in Headers
  <2> HIDE DEF size
  <2> QED BY <1>1, <1>7 DEF Headers
<1>9. 1 + Len(result.bytes) <= Len(data)
  <2>1. 10 * Len(result.bytes) < 9 * Len(data)
    BY <1>4 DEF Saves
  <2>2. \A x, y \in Nat : 10 * x < 9 * y => 1 + x <= y
    OBVIOUS
  <2>3. Len(result.bytes) \in Nat
    BY <1>6
  <2> QED BY <1>3, <2>1, <2>2, <2>3
<1> HIDE DEF header
<1>10. p.header = header /\ p.method = result.method /\ p.bytes = result.bytes
  BY <1>5
<1>11. p \in Payloads
  BY <1>4, <1>5, <1>6, <1>8 DEF Payloads
<1>12. /\ p.method \in {"RLE", "Dictionary"}
       /\ p.bytes = IF p.method = "RLE" THEN RleCompress(data) ELSE DictCompress(data)
       /\ 1 + Len(p.bytes) <= Len(data)
  BY <1>4, <1>9, <1>10, Zenon
<1>13. p.header = [o.header EXCEPT !.type = "Compressed",
                                   !.total_size = HeaderSize + 1 + Len(p.bytes)]
  BY <1>10, Zenon DEF header
<1> QED BY <1>11, <1>12, <1>13 DEF data

\* What arrives, is decompressed and was plain.
Restored(w) ==
  LET p == w.payload
      original == w.original
      restored == decompress_payload(p)
  IN  /\ p.header.total_size = Size(p) /\ Size(p) <= Size(original)
      /\ restored.header = IF p.method = "absent" THEN original.header
                            ELSE [original.header EXCEPT !.type = "Batch"]
      /\ Len(restored.bytes) = Len(original.bytes)
      /\ CASE p.method # "Dictionary" -> restored.bytes = original.bytes
           [] OTHER -> Restorable(original.bytes) =>
                restored.bytes = [k \in DOMAIN original.bytes |-> Literal(original.bytes[k])]

\* decompress_payload() on a compressed payload.
LEMMA DecompressIs ==
  ASSUME NEW o, Plain(o), NEW p, Squeezed(o, p),
         NEW bytes, bytes = decompress(p.bytes, p.method)
  PROVE  decompress_payload(p)
           = [header |-> [p.header EXCEPT !.type = "Batch",
                                          !.total_size = HeaderSize + Len(bytes)],
              method |-> "absent", bytes |-> bytes]
<1>1. p.bytes \in Seq(Bytes) /\ p.method \in {"RLE", "Dictionary"} /\ p.header \in Headers
  <2>1. p \in Payloads /\ p.method \in {"RLE", "Dictionary"}
    BY SqueezedIs
  <2> QED BY <2>1 DEF Payloads
<1>2. p.header.type = "Compressed"
  <2>1. p.header = [o.header EXCEPT !.type = "Compressed",
                                    !.total_size = HeaderSize + 1 + Len(p.bytes)]
    BY SqueezedIs
  <2>2. o.header \in Headers
    BY DEF Plain, Payloads
  <2> QED BY <2>1, <2>2 DEF Headers
<1>3. ~ (Size(p) < HeaderSize + 1)
  <2>1. p.method # "absent" /\ Len(p.bytes) \in Nat
    BY <1>1
  <2> QED BY <2>1 DEF Size, HeaderSize
<1> QED BY <1>2, <1>3, Zenon DEF decompress_payload

LEMMA HeaderTwice ==
  ASSUME NEW h \in Headers, NEW type, NEW size, NEW total, total = h.total_size
  PROVE  /\ [[h EXCEPT !.type = "Compressed", !.total_size = size]
                EXCEPT !.type = type, !.total_size = total] = [h EXCEPT !.type = type]
         /\ [h EXCEPT !.type = type].type = type
<1> DEFINE v == h.version
           c == h.variable_count
           m == h.timestamp
           q == h.sequence_number
           Header(t, s) == [version |-> v, type |-> t, variable_count |-> c, total_size |-> s,
                            timestamp |-> m, sequence_number |-> q]
<1>1. h = Header(h.type, total)
  BY DEF Headers
<1> HIDE DEF v, c, m, q
<1> DEFINE Typed(g, t) == [g EXCEPT !.type = t]
           Sized(g, s) == [g EXCEPT !.total_size = s]
<1>2. \A t, s, b : Typed(Header(t, s), b) = Header(b, s) /\ Sized(Header(t, s), b) = Header(t, b)
  OBVIOUS
<1>3. Header(type, total).type = type
  OBVIOUS
<1>4. \A g, t, s : [g EXCEPT !.type = t, !.total_size = s] = Sized(Typed(g, t), s)
  OBVIOUS
<1>5. [h EXCEPT !.type = type] = Typed(h, type)
  OBVIOUS
<1> HIDE DEF Header, Typed, Sized
<1>6. Typed(h, type) = Header(type, total)
  BY <1>1, <1>2
<1>7. Sized(Typed(h, "Compressed"), size) = Header("Compressed", size)
  BY <1>1, <1>2
<1>8. Sized(Typed(Sized(Typed(h, "Compressed"), size), type), total) = Header(type, total)
  BY <1>2, <1>7
<1> QED BY <1>3, <1>4, <1>5, <1>6, <1>8, Zenon

LEMMA SqueezedRestored ==
  ASSUME NEW o, Plain(o), NEW p, Squeezed(o, p)
  PROVE  Restored([original |-> o, payload |-> p])
<1> DEFINE data == o.bytes
           bytes == decompress(p.bytes, p.method)
           restored == decompress_payload(p)
<1>1. o.header \in Headers /\ data \in Seq(Bytes) /\ o.method = "absent"
      /\ o.header.total_size = HeaderSize + Len(data)
  BY DEF Plain, Payloads
<1>2. /\ p \in Payloads /\ p.method \in {"RLE", "Dictionary"}
      /\ p.header = [o.header EXCEPT !.type = "Compressed",
                                     !.total_size = HeaderSize + 1 + Len(p.bytes)]
      /\ p.bytes = IF p.method = "RLE" THEN RleCompress(data) ELSE DictCompress(data)
      /\ 1 + Len(p.bytes) <= Len(data)
  BY SqueezedIs
<1>3. restored = [header |-> [p.header EXCEPT !.type = "Batch",
                                              !.total_size = HeaderSize + Len(bytes)],
                  method |-> "absent", bytes |-> bytes]
  BY DecompressIs
<1> HIDE DEF data
<1>4. bytes = IF p.method = "RLE" THEN RleDecompress(RleCompress(data))
              ELSE DictDecompress(DictCompress(data))
  <2>1. CASE p.method = "RLE"
    BY <1>2, <2>1 DEF decompress
  <2>2. CASE p.method = "Dictionary"
    BY <1>2, <2>2 DEF decompress
  <2> QED BY <1>2, <2>1, <2>2
<1> HIDE DEF bytes
<1>5. Len(bytes) = Len(data) /\ Len(data) \in Nat
  BY <1>1, <1>4, RleUndone, DictUndone DEF RleRestores
<1>6. Len(p.bytes) \in Nat /\ p.method # "absent"
  BY <1>2 DEF Payloads
<1>7. p.header.total_size = Size(p) /\ Size(p) <= Size(o)
  <2>1. Size(p) = HeaderSize + 1 + Len(p.bytes)
    BY <1>6 DEF Size
  <2>2. Size(o) = HeaderSize + 0 + Len(data)
    BY <1>1 DEF Size, data
  <2>3. p.header.total_size = HeaderSize + 1 + Len(p.bytes)
    BY <1>1, <1>2 DEF Headers
  <2> PICK a \in Nat, b \in Nat : a = Len(p.bytes) /\ b = Len(data)
    BY <1>5, <1>6
  <2>4. 1 + a <= b
    BY <1>2
  <2>5. HeaderSize + 1 + a <= HeaderSize + 0 + b
    BY <2>4 DEF HeaderSize
  <2> QED BY <2>1, <2>2, <2>3, <2>5
<1>8. restored.header = [p.header EXCEPT !.type = "Batch", !.total_size = HeaderSize + Len(data)]
      /\ restored.bytes = bytes
  BY <1>3, <1>5
<1> HIDE DEF restored
<1>9. /\ restored.header = [o.header EXCEPT !.type = "Batch"]
      /\ Len(restored.bytes) = Len(o.bytes)
  <2> DEFINE size == HeaderSize + Len(data)
  <2>1. restored.header = [p.header EXCEPT !.type = "Batch", !.total_size = size]
    BY <1>8
  <2>2. o.header.total_size = size
    BY <1>1
  <2> HIDE DEF size
  <2> DEFINE long == HeaderSize + 1 + Len(p.bytes)
  <2>3. p.header = [o.header EXCEPT !.type = "Compressed", !.total_size = long]
    BY <1>2
  <2> HIDE DEF long
  <2>4. restored.header = [[o.header EXCEPT !.type = "Compressed", !.total_size = long]
                             EXCEPT !.type = "Batch", !.total_size = size]
    BY <2>1, <2>3
  <2> DEFINE h == o.header
  <2>5. h \in Headers /\ size = h.total_size
    BY <1>1, <2>2
  <2>6. restored.header = [[h EXCEPT !.type = "Compressed", !.total_size = long]
                             EXCEPT !.type = "Batch", !.total_size = size]
    BY <2>4
  <2> HIDE DEF h
  <2>7. restored.header = [h EXCEPT !.type = "Batch"]
    BY <2>5, <2>6, HeaderTwice, Zenon
  <2> QED BY <1>5, <1>8, <2>7 DEF h, data
<1>10. CASE p.method = "RLE"
  <2>1. bytes = data
    BY <1>1, <1>4, <1>10, RleUndone DEF RleRestores
  <2>2. p.method # "Dictionary"
    BY <1>10
  <2> QED BY <1>6, <1>7, <1>8, <1>9, <2>1, <2>2 DEF Restored, restored, data
<1>11. CASE p.method = "Dictionary"
  <2>1. Restorable(data) => bytes = [i \in DOMAIN data |-> Literal(data[i])]
    BY <1>1, <1>4, <1>11, DictUndone DEF DictRestores
  <2> QED BY <1>6, <1>7, <1>8, <1>9, <1>11, <2>1 DEF Restored, restored, data
<1> QED BY <1>2, <1>10, <1>11

LEMMA PlainRestored ==
  ASSUME NEW o, Plain(o)
  PROVE  Restored([original |-> o, payload |-> o])
<1>1. /\ o.header \in Headers /\ o.method = "absent" /\ o.header.type # "Compressed"
      /\ o.header.total_size = HeaderSize + Len(o.bytes) /\ Len(o.bytes) \in Nat
  BY DEF Plain, Payloads
<1>2. decompress_payload(o) = o
  BY <1>1 DEF decompress_payload
<1>3. Size(o) = HeaderSize + Len(o.bytes) /\ Size(o) \in Int
  BY <1>1 DEF Size, HeaderSize
<1>4. Size(o) <= Size(o) /\ o.method # "Dictionary"
  BY <1>1, <1>3
<1> QED BY <1>1, <1>2, <1>3, <1>4 DEF Restored
-----------------------------------------------------------------------------
(* The payload builder, its link and the receiver. *)

\* What is on the link.
Sent == [original : Payloads, payload : Payloads]
Sound(w) == w \in Sent /\ Plain(w.original) /\ SentFor(w.original, w.payload)
NumberOf(w) == w.payload.header.sequence_number

\* The numbers on the link run on from the receiver's expectation and what
\* was lost since, up to the builder's counter.
LinkInv ==
  /\ enabled \in BOOLEAN
  /\ sequence_counter \in 0 .. SeqWrap - 1 /\ expected \in 0 .. SeqWrap - 1
  /\ lost \in 0 .. SeqWrap - 1
  /\ wire \in Seq(Sent) /\ Len(wire) <= MaxWire
  /\ \A i \in 1 .. Len(wire) : Sound(wire[i])
  /\ \A i \in 1 .. Len(wire) : NumberOf(wire[i]) = (expected + lost + (i - 1)) % SeqWrap
  /\ sequence_counter = (expected + lost + Len(wire)) % SeqWrap

LEMMA SentIsSound ==
  ASSUME NEW o, Plain(o), NEW p, SentFor(o, p), NEW w, w = [original |-> o, payload |-> p]
  PROVE  Sound(w) /\ NumberOf(w) = o.header.sequence_number
<1>1. o \in Payloads /\ o.header \in Headers
  BY DEF Plain, Payloads
<1>2. p \in Payloads /\ p.header.sequence_number = o.header.sequence_number
  <2>1. CASE p = o
    BY <1>1, <2>1
  <2>2. CASE Squeezed(o, p)
    <3>1. /\ p \in Payloads
          /\ p.header = [o.header EXCEPT !.type = "Compressed",
                                         !.total_size = HeaderSize + 1 + Len(p.bytes)]
      BY <2>2, SqueezedIs
    <3> QED BY <1>1, <3>1 DEF Headers
  <2> QED BY <2>1, <2>2 DEF SentFor
<1>3. w \in Sent /\ w.original = o /\ w.payload = p
  BY <1>1, <1>2 DEF Sent
<1> QED BY <1>2, <1>3 DEF Sound, NumberOf

\* Both builders put one payload on the link and take one number.
Sends ==
  \E o \in Payloads : \E p :
    /\ Len(wire) < MaxWire
    /\ Plain(o) /\ SentFor(o, p) /\ o.header.sequence_number = sequence_counter
    /\ wire' = Append(wire, [original |-> o, payload |-> p])
    /\ sequence_counter' = (sequence_counter + 1) % SeqWrap
    /\ UNCHANGED <<enabled, expected, lost>>

LEMMA BuilderSends ==
  ASSUME sequence_counter \in 0 .. SeqWrap - 1,
         create_single_compressed \/ create_batch_compressed
  PROVE  Sends
<1>1. CASE create_single_compressed
  <2>1. PICK v \in Variables, t \in Times :
          LET p == create_single(v, t) IN Send(p, Compressed(p, SingleMin))
    BY <1>1 DEF create_single_compressed
  <2> DEFINE o == Payload("Single", <<v>>, t, sequence_counter)
             p == Compressed(o, SingleMin)
  <2>2. wire' = Append(wire, [original |-> o, payload |-> p])
    BY <2>1 DEF Send, create_single
  <2>3. Plain(o) /\ o.header.sequence_number = sequence_counter
    <3>1. <<v>> \in Seq(Variables) /\ "Single" \in {"Single", "Batch"}
      OBVIOUS
    <3> QED BY <3>1, PayloadIs
  <2> HIDE DEF o
  <2>4. SentFor(o, p) /\ o \in Payloads
    BY <2>3, CompressedIs DEF Plain
  <2> HIDE DEF p
  <2> QED BY <1>1, <2>2, <2>3, <2>4 DEF create_single_compressed, Sends
<1>2. CASE create_batch_compressed
  <2>1. PICK n \in 0 .. MaxVars, t \in Times : \E variables \in [1 .. n -> Variables] :
          LET p == create_batch(variables, t) IN Send(p, Compressed(p, BatchMin))
    BY <1>2 DEF create_batch_compressed
  <2>2. PICK variables \in [1 .. n -> Variables] :
          LET p == create_batch(variables, t) IN Send(p, Compressed(p, BatchMin))
    BY <2>1
  <2> DEFINE o == Payload("Batch", variables, t, sequence_counter)
             p == Compressed(o, BatchMin)
  <2>3. wire' = Append(wire, [original |-> o, payload |-> p])
    BY <2>2 DEF Send, create_batch
  <2>4. Plain(o) /\ o.header.sequence_number = sequence_counter
    <3>1. n \in Nat
      BY PayloadAssumption DEF PayloadAssumption
    <3>2. variables \in Seq(Variables) /\ "Batch" \in {"Single", "Batch"}
      BY <3>1
    <3> QED BY <3>2, PayloadIs
  <2> HIDE DEF o
  <2>5. SentFor(o, p) /\ o \in Payloads
    BY <2>4, CompressedIs DEF Plain
  <2> HIDE DEF p
  <2> QED BY <1>2, <2>3, <2>4, <2>5 DEF create_batch_compressed, Sends
<1> QED BY <1>1, <1>2

LEMMA LinkInitial == Init => LinkInv
<1> SUFFICES ASSUME Init PROVE LinkInv
  OBVIOUS
<1>1. SeqWrap \in Nat \ {0} /\ MaxWire \in Nat
  BY PayloadAssumption DEF PayloadAssumption
<1>2. /\ enabled \in BOOLEAN /\ sequence_counter = 0 /\ wire = <<>> /\ expected = 0 /\ lost = 0
  BY DEF Init
<1>3. 0 \in 0 .. SeqWrap - 1 /\ (0 + 0 + 0) % SeqWrap = 0
  <2>1. 0 + 0 + 0 = 0 /\ 0 < SeqWrap /\ 0 \in Nat
    BY <1>1
  <2>2. 0 % SeqWrap = 0
    BY <1>1, <2>1, ModIs
  <2> QED BY <1>1, <2>1, <2>2
<1>4. wire \in Seq(Sent) /\ Len(wire) = 0
  BY <1>2
<1> QED BY <1>1, <1>2, <1>3, <1>4 DEF LinkInv

LEMMA LinkStep == LinkInv /\ [Next]_vars => LinkInv'
<1> SUFFICES ASSUME LinkInv, [Next]_vars PROVE LinkInv'
  OBVIOUS
<1> DEFINE n == Len(wire)
           base == expected + lost
<1>1. SeqWrap \in Nat \ {0} /\ MaxWire \in Nat
  BY PayloadAssumption DEF PayloadAssumption
<1>2. /\ enabled \in BOOLEAN /\ sequence_counter \in 0 .. SeqWrap - 1
      /\ expected \in 0 .. SeqWrap - 1 /\ lost \in 0 .. SeqWrap - 1
      /\ wire \in Seq(Sent) /\ n <= MaxWire
      /\ \A i \in 1 .. n : Sound(wire[i])
      /\ \A i \in 1 .. n : NumberOf(wire[i]) = (base + (i - 1)) % SeqWrap
      /\ sequence_counter = (base + n) % SeqWrap
  BY DEF LinkInv
<1>3. n \in Nat /\ base \in Nat
  BY <1>1, <1>2
<1>4. \A x \in Nat : x % SeqWrap \in 0 .. SeqWrap - 1
  BY <1>1, ModIs
<1>5. CASE create_single_compressed \/ create_batch_compressed
  <2>1. Sends
    BY <1>2, <1>5, BuilderSends
  <2>2. PICK o \in Payloads : \E p :
          /\ n < MaxWire
          /\ Plain(o) /\ SentFor(o, p) /\ o.header.sequence_number = sequence_counter
          /\ wire' = Append(wire, [original |-> o, payload |-> p])
          /\ sequence_counter' = (sequence_counter + 1) % SeqWrap
          /\ UNCHANGED <<enabled, expected, lost>>
    BY <2>1 DEF Sends
  <2>3. PICK p :
          /\ n < MaxWire
          /\ Plain(o) /\ SentFor(o, p) /\ o.header.sequence_number = sequence_counter
          /\ wire' = Append(wire, [original |-> o, payload |-> p])
          /\ sequence_counter' = (sequence_counter + 1) % SeqWrap
          /\ UNCHANGED <<enabled, expected, lost>>
    BY <2>2
  <2> DEFINE w == [original |-> o, payload |-> p]
  <2>4. Sound(w) /\ NumberOf(w) = sequence_counter
    BY <2>3, SentIsSound
  <2>5. w \in Sent /\ wire' = Append(wire, w)
    BY <2>3, <2>4 DEF Sound
  <2> HIDE DEF w
  <2>6. /\ wire' \in Seq(Sent) /\ Len(wire') = n + 1
        /\ \A i \in 1 .. n : wire'[i] = wire[i]
        /\ wire'[n + 1] = w
    BY <1>2, <2>5, AppendProperties
  <2>7. \A i \in 1 .. n + 1 : i \in 1 .. n \/ i = n + 1
    BY <1>3
  <2>8. \A i \in 1 .. n + 1 : Sound(wire'[i])
    BY <1>2, <2>4, <2>6, <2>7
  <2>9. \A i \in 1 .. n + 1 : NumberOf(wire'[i]) = (base + (i - 1)) % SeqWrap
    <3> SUFFICES ASSUME NEW i \in 1 .. n + 1
                 PROVE  NumberOf(wire'[i]) = (base + (i - 1)) % SeqWrap
      OBVIOUS
    <3>1. CASE i = n + 1
      <4>1. base + (i - 1) = base + n
        BY <1>3, <3>1
      <4> HIDE DEF base, n
      <4> QED BY <1>2, <2>4, <2>6, <3>1, <4>1
    <3>2. CASE i \in 1 .. n
      <4>1. wire'[i] = wire[i]
        BY <2>6, <3>2
      <4>2. NumberOf(wire[i]) = (base + (i - 1)) % SeqWrap
        <5> HIDE DEF base, n
        <5> QED BY <1>2, <3>2
      <4> HIDE DEF base, n
      <4> QED BY <4>1, <4>2
    <3> QED BY <2>7, <3>1, <3>2
  <2>10. sequence_counter' = (base + (n + 1)) % SeqWrap
    <3>1. (((base + n) % SeqWrap) + 1) % SeqWrap = (base + n + 1) % SeqWrap
      <4>1. base + n \in Nat /\ 1 \in Nat
        BY <1>3
      <4> HIDE DEF base, n
      <4> QED BY <1>1, <4>1, ModPlus
    <3>2. base + n + 1 = base + (n + 1)
      BY <1>3
    <3> QED BY <1>2, <2>3, <3>1, <3>2
  <2>11. sequence_counter' \in 0 .. SeqWrap - 1
    BY <1>3, <1>4, <2>10
  <2>12. n + 1 <= MaxWire
    BY <1>1, <1>3, <2>3
  <2> QED BY <1>2, <2>3, <2>6, <2>8, <2>9, <2>10, <2>11, <2>12 DEF LinkInv
<1>6. CASE set_compression_enabled \/ UNCHANGED vars
  BY <1>6 DEF LinkInv, set_compression_enabled, vars, Sound, NumberOf
<1>7. ASSUME wire # <<>>
      PROVE  /\ n >= 1 /\ Tail(wire) \in Seq(Sent) /\ Len(Tail(wire)) = n - 1
             /\ \A i \in 1 .. n - 1 : i + 1 \in 1 .. n /\ Tail(wire)[i] = wire[i + 1]
             /\ Head(wire) = wire[1] /\ 1 \in 1 .. n
  BY <1>2, <1>7
<1>8. CASE Lose
  <2>1. /\ wire # <<>> /\ lost < SeqWrap - 1 /\ wire' = Tail(wire) /\ lost' = lost + 1
        /\ enabled' = enabled /\ sequence_counter' = sequence_counter /\ expected' = expected
    BY <1>8 DEF Lose
  <2>2. lost' \in 0 .. SeqWrap - 1 /\ Len(wire') = n - 1 /\ n - 1 <= MaxWire /\ wire' \in Seq(Sent)
    BY <1>1, <1>2, <1>3, <1>7, <2>1
  <2>3. \A i \in 1 .. n - 1 : Sound(wire'[i])
    BY <1>2, <1>7, <2>1
  <2>4. ASSUME NEW i \in 1 .. n - 1
        PROVE  NumberOf(wire'[i]) = (expected' + lost' + (i - 1)) % SeqWrap
    <3>1. NumberOf(wire'[i]) = (base + (i + 1 - 1)) % SeqWrap
      BY <1>2, <1>7, <2>1
    <3>2. base + (i + 1 - 1) = expected' + lost' + (i - 1)
      BY <1>2, <2>1
    <3> QED BY <3>1, <3>2
  <2>5. base + n = expected' + lost' + (n - 1)
    BY <1>2, <1>3, <2>1
  <2> HIDE DEF base
  <2> QED BY <1>2, <2>1, <2>2, <2>3, <2>4, <2>5 DEF LinkInv
<1>9. CASE Receive
  <2>1. /\ wire # <<>> /\ wire' = Tail(wire) /\ lost' = 0
        /\ expected' = (NumberOf(Head(wire)) + 1) % SeqWrap
        /\ enabled' = enabled /\ sequence_counter' = sequence_counter
    BY <1>9 DEF Receive, NumberOf
  <2>2. NumberOf(Head(wire)) = base % SeqWrap
    <3>1. NumberOf(wire[1]) = (base + (1 - 1)) % SeqWrap
      BY <1>2, <1>7, <2>1
    <3>2. base + (1 - 1) = base
      BY <1>3
    <3> QED BY <1>7, <2>1, <3>1, <3>2
  <2>3. expected' = (base + 1) % SeqWrap
    <3> HIDE DEF base
    <3>1. ((base % SeqWrap) + 1) % SeqWrap = (base + 1) % SeqWrap
      BY <1>1, <1>3, ModPlus
    <3> QED BY <2>1, <2>2, <3>1
  <2>4. /\ expected' \in 0 .. SeqWrap - 1 /\ lost' \in 0 .. SeqWrap - 1
        /\ Len(wire') = n - 1 /\ n - 1 <= MaxWire /\ wire' \in Seq(Sent)
    <3>1. base + 1 \in Nat
      BY <1>3
    <3>2. expected' \in 0 .. SeqWrap - 1
      BY <1>4, <2>3, <3>1
    <3> QED BY <1>1, <1>2, <1>3, <1>7, <2>1, <3>2
  <2>5. \A i \in 1 .. n - 1 : Sound(wire'[i])
    BY <1>2, <1>7, <2>1
  <2>6. \A k \in Nat : (expected' + lost' + k) % SeqWrap = (base + 1 + k) % SeqWrap
    <3> SUFFICES ASSUME NEW k \in Nat
                 PROVE  (expected' + lost' + k) % SeqWrap = (base + 1 + k) % SeqWrap
      OBVIOUS
    <3>1. base + 1 \in Nat
      BY <1>3
    <3>2. (((base + 1) % SeqWrap) + k) % SeqWrap = (base + 1 + k) % SeqWrap
      <4> HIDE DEF base
      <4> QED BY <1>1, <3>1, ModPlus
    <3>3. expected' + lost' + k = expected' + k
      BY <2>1, <2>4
    <3> QED BY <2>3, <3>2, <3>3
  <2>7. ASSUME NEW i \in 1 .. n - 1
        PROVE  NumberOf(wire'[i]) = (expected' + lost' + (i - 1)) % SeqWrap
    <3>1. NumberOf(wire'[i]) = (base + (i + 1 - 1)) % SeqWrap
      BY <1>2, <1>7, <2>1
    <3>2. base + (i + 1 - 1) = base + 1 + (i - 1) /\ i - 1 \in Nat
      BY <1>3
    <3> QED BY <2>6, <3>1, <3>2
  <2>8. sequence_counter' = (expected' + lost' + (n - 1)) % SeqWrap
    <3>1. base + n = base + 1 + (n - 1) /\ n - 1 \in Nat
      BY <1>3, <1>7, <2>1
    <3> QED BY <1>2, <2>1, <2>6, <3>1
  <2> HIDE DEF base
  <2> QED BY <1>2, <2>1, <2>4, <2>5, <2>7, <2>8 DEF LinkInv
<1> QED BY <1>5, <1>6, <1>8, <1>9 DEF Next

LEMMA LinkAlways == MCSpec => []LinkInv
BY LinkInitial, LinkStep, BuilderBehaves, PTL DEF Spec

\* What is on the link is what the payload builder made, squeezed or not, so it
\* comes back: the sizes in the headers are right, compression never makes a
\* payload longer, and decompression gives back the same bytes under the same
\* header, up to the top bits that dictionary coding loses.
THEOREM MCPayloadRestored == MCSpec => []PayloadRestored
<1>1. LinkInv => PayloadRestored
  <2> SUFFICES ASSUME LinkInv, NEW i \in DOMAIN wire PROVE Restored(wire[i])
    BY DEF PayloadRestored, Restored
  <2>1. Sound(wire[i])
    BY DEF LinkInv
  <2> DEFINE w == wire[i]
             o == w.original
             p == w.payload
  <2>2. Plain(o) /\ SentFor(o, p)
    BY <2>1 DEF Sound
  <2>3. w = [original |-> o, payload |-> p]
    BY <2>1 DEF Sound, Sent
  <2> HIDE DEF o, p
  <2>4. Restored([original |-> o, payload |-> p])
    <3>1. CASE p = o
      BY <2>2, <3>1, PlainRestored
    <3>2. CASE Squeezed(o, p)
      BY <2>2, <3>2, SqueezedRestored
    <3> QED BY <2>2, <3>1, <3>2 DEF SentFor
  <2> QED BY <2>3, <2>4
<1> QED BY <1>1, LinkAlways, PTL

\* "Sequence fuer Lost-Detection": whatever is lost on the way, up to SeqWrap - 1
\* payloads in a row, the gap in front of the next number received is how many.
THEOREM MCLossesShow == MCSpec => LossesShow
<1> DEFINE Shows ==
             Receive => (Head(wire).payload.header.sequence_number - expected) % SeqWrap = lost
<1>1. LinkInv => Shows
  <2> SUFFICES ASSUME LinkInv, Receive PROVE (NumberOf(Head(wire)) - expected) % SeqWrap = lost
    BY DEF NumberOf
  <2>1. SeqWrap \in Nat \ {0}
    BY PayloadAssumption DEF PayloadAssumption
  <2>2. /\ expected \in 0 .. SeqWrap - 1 /\ lost \in 0 .. SeqWrap - 1 /\ wire \in Seq(Sent)
        /\ \A i \in 1 .. Len(wire) : NumberOf(wire[i]) = (expected + lost + (i - 1)) % SeqWrap
    BY DEF LinkInv
  <2>3. 1 \in 1 .. Len(wire) /\ Head(wire) = wire[1]
    BY <2>2 DEF Receive
  <2>4. NumberOf(Head(wire)) = (expected + lost) % SeqWrap
    <3>1. NumberOf(wire[1]) = (expected + lost + (1 - 1)) % SeqWrap
      BY <2>2, <2>3
    <3>2. expected + lost + (1 - 1) = expected + lost
      BY <2>1, <2>2
    <3> QED BY <2>3, <3>1, <3>2
  <2> QED BY <2>1, <2>2, <2>4, ModMinus
<1>2. LinkInv => [Shows]_vars
  BY <1>1
<1> HIDE DEF Shows
<1>3. MCSpec => [][Shows]_vars
  BY <1>2, LinkAlways, PTL
<1> QED BY <1>3 DEF LossesShow, Shows
-----------------------------------------------------------------------------
(* VariableBatch. *)

Entries == {Batch!Entry(id, n, d) : id \in 0 .. Numbers - 1, n \in NameSizes, d \in DataSizes}

\* The numbers of all run on up to the next one.
RunOn(all, upto) ==
  \A i \in 1 .. Len(all) : (all[i].time + Len(all) - i + 1) % Numbers = upto

BatchInv ==
  /\ age \in 0 .. Timeout /\ full \in BOOLEAN /\ next \in 0 .. Numbers - 1
  /\ entries \in Seq(Entries) /\ Len(entries) <= MaxBatch
  /\ full \/ Len(entries) < MaxBatch
  /\ sent.entries \in Seq(Entries)
  /\ sent.bytes = <<>> \/ sent.bytes = Batch!serialize(sent.entries)
  /\ RunOn(sent.entries \o entries, next)

LEMMA EntryIs ==
  ASSUME NEW e \in Entries
  PROVE  /\ e = [name |-> e.name, time |-> e.time, data |-> e.data]
         /\ e.name \in Seq(Nat) /\ e.data \in Seq(Nat) /\ e.time \in 0 .. Numbers - 1
<1> PICK id \in 0 .. Numbers - 1, n \in NameSizes, d \in DataSizes : e = Batch!Entry(id, n, d)
  BY DEF Entries
<1>1. n \in Nat /\ d \in Nat /\ id \in Nat
  BY BatchAssumption DEF BatchAssumption
<1> DEFINE name == [i \in 1 .. n |-> 10 * (id + 1) + i]
           data == [i \in 1 .. d |-> 100 * (id + 1) + i]
<1>2. name \in Seq(Nat) /\ data \in Seq(Nat)
  BY <1>1
<1>3. e = [name |-> name, time |-> id, data |-> data]
  BY DEF Batch!Entry
<1> HIDE DEF name, data
<1> QED BY <1>2, <1>3

\* One more entry, with the number that comes next.
LEMMA OneMore ==
  ASSUME NEW all \in Seq(Entries), NEW upto \in 0 .. Numbers - 1, RunOn(all, upto),
         NEW e \in Entries, e.time = upto
  PROVE  RunOn(Append(all, e), (upto + 1) % Numbers)
<1> DEFINE n == Len(all)
<1>1. n \in Nat /\ Numbers \in Nat \ {0} /\ upto \in Nat
  BY BatchAssumption DEF BatchAssumption
<1>2. /\ Len(Append(all, e)) = n + 1
      /\ \A i \in 1 .. n : Append(all, e)[i] = all[i]
      /\ Append(all, e)[n + 1] = e
  BY AppendProperties
<1> SUFFICES ASSUME NEW i \in 1 .. n + 1
             PROVE  (Append(all, e)[i].time + (n + 1) - i + 1) % Numbers = (upto + 1) % Numbers
  BY <1>2 DEF RunOn
<1>3. CASE i = n + 1
  <2>1. upto + (n + 1) - i + 1 = upto + 1
    BY <1>1, <1>3
  <2>2. Append(all, e)[i].time = upto
    BY <1>2, <1>3
  <2> QED BY <2>1, <2>2
<1>4. CASE i # n + 1
  <2>1. i \in 1 .. n
    BY <1>1, <1>4
  <2> PICK t \in Nat : t = all[i].time
    <3>1. all[i] \in Entries
      BY <2>1
    <3>2. all[i].time \in 0 .. Numbers - 1
      BY <3>1, EntryIs
    <3> QED BY <1>1, <3>2
  <2> DEFINE x == t + n - i + 1
  <2>2. x % Numbers = upto /\ x \in Nat
    <3>1. (all[i].time + Len(all) - i + 1) % Numbers = upto
      <4> HIDE DEF n
      <4> QED BY <2>1, Zenon DEF RunOn, n
    <3>2. (t + n - i + 1) % Numbers = upto
      BY <3>1
    <3>3. x \in Nat
      BY <1>1, <2>1
    <3> QED BY <3>2, <3>3
  <2>3. t + (n + 1) - i + 1 = x + 1
    BY <1>1, <2>1
  <2> HIDE DEF x
  <2>4. ((x % Numbers) + 1) % Numbers = (x + 1) % Numbers
    BY <1>1, <2>2, ModPlus
  <2>5. Append(all, e)[i].time = t
    BY <1>2, <2>1
  <2> QED BY <2>2, <2>3, <2>4, <2>5
<1> QED BY <1>3, <1>4

LEMMA BatchInitial == Batch!Init => BatchInv
<1> SUFFICES ASSUME Batch!Init PROVE BatchInv
  OBVIOUS
<1>1. /\ entries = <<>> /\ age = 0 /\ full = FALSE /\ next = 0
      /\ sent = [entries |-> <<>>, bytes |-> <<>>]
  BY DEF Batch!Init
<1>2. <<>> \in Seq(Entries) /\ Len(<<>>) = 0 /\ <<>> \o <<>> = <<>>
  OBVIOUS
<1>3. RunOn(<<>>, 0)
  BY DEF RunOn
<1>4. 0 \in 0 .. Timeout /\ 0 \in 0 .. Numbers - 1 /\ 0 < MaxBatch /\ 0 <= MaxBatch
  BY BatchAssumption DEF BatchAssumption
<1> QED BY <1>1, <1>2, <1>3, <1>4 DEF BatchInv

LEMMA BatchStep == BatchInv /\ [Batch!Next]_(Batch!vars) => BatchInv'
<1> SUFFICES ASSUME BatchInv, [Batch!Next]_(Batch!vars) PROVE BatchInv'
  OBVIOUS
<1>1. MaxBatch \in Nat \ {0} /\ Timeout \in Nat /\ Numbers \in Nat \ {0}
  BY BatchAssumption DEF BatchAssumption
<1>2. /\ age \in 0 .. Timeout /\ full \in BOOLEAN /\ next \in 0 .. Numbers - 1
      /\ entries \in Seq(Entries) /\ Len(entries) <= MaxBatch
      /\ full \/ Len(entries) < MaxBatch
      /\ sent.entries \in Seq(Entries)
      /\ sent.bytes = <<>> \/ sent.bytes = Batch!serialize(sent.entries)
      /\ RunOn(sent.entries \o entries, next)
  BY DEF BatchInv
<1>3. CASE Batch!add_variable
  <2>1. PICK n \in NameSizes, d \in DataSizes : entries' = Append(entries, Batch!Entry(next, n, d))
    BY <1>3 DEF Batch!add_variable
  <2>2. /\ ~full /\ full' = Batch!should_flush(entries', age) /\ next' = (next + 1) % Numbers
        /\ age' = age /\ sent' = sent
    BY <1>3 DEF Batch!add_variable
  <2> DEFINE e == Batch!Entry(next, n, d)
  <2>3. e \in Entries /\ e.time = next
    <3>1. e \in Entries
      BY <1>2 DEF Entries
    <3>2. e.time = next
      BY DEF Batch!Entry
    <3> QED BY <3>1, <3>2
  <2>4. entries' = Append(entries, e)
    BY <2>1
  <2> HIDE DEF e
  <2>5. entries' \in Seq(Entries) /\ Len(entries') = Len(entries) + 1
    BY <1>2, <2>3, <2>4, AppendProperties
  <2>6. Len(entries') <= MaxBatch
    BY <1>1, <1>2, <2>2, <2>5
  <2>7. full' \in BOOLEAN /\ (full' \/ Len(entries') < MaxBatch)
    <3>1. full' <=> Len(entries') >= MaxBatch \/ age >= Timeout
      BY <2>2 DEF Batch!should_flush
    <3>2. full' \in BOOLEAN
      BY <2>2 DEF Batch!should_flush
    <3>3. Len(entries') \in Nat
      BY <2>5
    <3> QED BY <1>1, <3>1, <3>2, <3>3
  <2>8. next' \in 0 .. Numbers - 1
    <3>1. next + 1 \in Nat
      BY <1>1, <1>2
    <3> QED BY <1>1, <2>2, <3>1, ModIs
  <2>9. RunOn(sent.entries \o entries', next')
    <3> DEFINE all == sent.entries \o entries
    <3>1. all \in Seq(Entries)
      BY <1>2
    <3>2. sent.entries \o entries' = Append(all, e)
      <4> DEFINE a == sent.entries
      <4>1. a \in Seq(Entries) /\ entries \in Seq(Entries) /\ e \in Entries
        BY <1>2, <2>3
      <4> HIDE DEF a
      <4>2. a \o Append(entries, e) = Append(a \o entries, e)
        BY <4>1
      <4> QED BY <2>4, <4>2 DEF a
    <3>3. RunOn(all, next)
      BY <1>2
    <3> HIDE DEF all
    <3>4. RunOn(Append(all, e), (next + 1) % Numbers)
      BY <1>2, <2>3, <3>1, <3>3, OneMore
    <3> QED BY <2>2, <3>2, <3>4
  <2> QED BY <1>2, <2>2, <2>5, <2>6, <2>7, <2>8, <2>9 DEF BatchInv, Batch!serialize
<1>4. CASE Batch!Flush
  <2>1. /\ full /\ sent' = [entries |-> entries, bytes |-> Batch!serialize(entries)]
        /\ entries' = <<>> /\ age' = 0 /\ full' = FALSE /\ next' = next
    BY <1>4 DEF Batch!Flush
  <2>2. sent'.entries = entries /\ sent'.bytes = Batch!serialize(entries)
    BY <2>1
  <2>3. entries' \in Seq(Entries) /\ Len(entries') = 0 /\ entries \o <<>> = entries
    BY <1>2, <2>1
  <2>4. RunOn(entries, next)
    <3> DEFINE a == sent.entries
               all == a \o entries
    <3>1. a \in Seq(Entries) /\ entries \in Seq(Entries) /\ Len(a) \in Nat /\ Len(entries) \in Nat
      BY <1>2
    <3>2. RunOn(all, next)
      BY <1>2
    <3> HIDE DEF a
    <3>3. /\ Len(all) = Len(a) + Len(entries)
          /\ \A i \in 1 .. Len(entries) : all[Len(a) + i] = entries[i]
      BY <3>1, ConcatProperties
    <3> HIDE DEF all
    <3>4. ASSUME NEW i \in 1 .. Len(entries)
          PROVE  (entries[i].time + Len(entries) - i + 1) % Numbers = next
      <4> DEFINE j == Len(a) + i
      <4>1. j \in 1 .. Len(all) /\ all[j] = entries[i]
        BY <3>1, <3>3
      <4>2. entries[i].time \in Nat
        <5>1. entries[i] \in Entries
          BY <3>1
        <5> QED BY <1>1, <5>1, EntryIs
      <4>3. entries[i].time + Len(all) - j + 1 = entries[i].time + Len(entries) - i + 1
        BY <3>1, <3>3, <4>2
      <4>4. (all[j].time + Len(all) - j + 1) % Numbers = next
        <5> HIDE DEF j
        <5> QED BY <3>2, <4>1 DEF RunOn
      <4> HIDE DEF j
      <4> QED BY <4>1, <4>3, <4>4
    <3> QED BY <3>4 DEF RunOn
  <2>5. RunOn(sent'.entries \o entries', next')
    BY <2>1, <2>2, <2>3, <2>4
  <2>6. 0 <= MaxBatch /\ 0 < MaxBatch /\ 0 \in 0 .. Timeout
    BY <1>1
  <2>7. sent'.bytes = Batch!serialize(sent'.entries)
    BY <2>2
  <2> QED BY <1>2, <2>1, <2>2, <2>3, <2>5, <2>6, <2>7 DEF BatchInv, Batch!serialize
<1>5. CASE Batch!Tick
  <2>1. /\ age < Timeout /\ age' = age + 1
        /\ entries' = entries /\ full' = full /\ next' = next /\ sent' = sent
    BY <1>5 DEF Batch!Tick
  <2>2. age' \in 0 .. Timeout
    BY <1>1, <1>2, <2>1
  <2> QED BY <1>2, <2>1, <2>2 DEF BatchInv
<1>6. CASE UNCHANGED Batch!vars
  BY <1>2, <1>6 DEF BatchInv, Batch!vars
<1> QED BY <1>3, <1>4, <1>5, <1>6 DEF Batch!Next

LEMMA BatchAlways == MCSpec => []BatchInv
BY BatchInitial, BatchStep, BatchBehaves, PTL DEF Batch!Spec

\* The payload builder's and VariableBatch's variables have their types: what is
\* on the link is made of bytes, and a batch is never larger than its limit.
THEOREM MCPayloadTypes == MCSpec => []MCTypeOK
<1>1. LinkInv => TypeOK
  <2> SUFFICES ASSUME LinkInv PROVE TypeOK
    OBVIOUS
  <2>1. /\ enabled \in BOOLEAN /\ sequence_counter \in 0 .. SeqWrap - 1
        /\ expected \in 0 .. SeqWrap - 1 /\ lost \in 0 .. SeqWrap - 1
        /\ Len(wire) <= MaxWire /\ wire \in Seq(Sent)
    BY DEF LinkInv
  <2>2. ASSUME NEW i \in DOMAIN wire,
               NEW b \in {wire[i].payload.bytes[k] : k \in DOMAIN wire[i].payload.bytes}
        PROVE  b \in 0 .. Byte - 1
    <3>1. wire[i] \in Sent
      BY <2>1, <2>2
    <3>2. wire[i].payload.bytes \in Seq(Bytes)
      BY <3>1 DEF Sent, Payloads
    <3>3. PICK k \in DOMAIN wire[i].payload.bytes : b = wire[i].payload.bytes[k]
      BY <2>2
    <3> PICK s \in Seq(Bytes) : s = wire[i].payload.bytes
      BY <3>2
    <3>4. b \in Bytes
      BY <3>3
    <3> QED BY <3>4 DEF Bytes
  <2> QED BY <2>1, <2>2 DEF TypeOK
<1>2. BatchInv => Batch!TypeOK
  BY DEF BatchInv, Batch!TypeOK
<1> QED BY <1>1, <1>2, LinkAlways, BatchAlways, PTL DEF MCTypeOK

\* Every variable that is added is in exactly one batch, and in order: the
\* numbers run on through the batch that was sent last and the one that waits.
THEOREM MCNoneLost == MCSpec => []NoneLostOrRepeated
<1>1. BatchInv => Batch!NoneLostOrRepeated
  <2> SUFFICES ASSUME BatchInv PROVE Batch!NoneLostOrRepeated
    OBVIOUS
  <2>1. sent.entries \in Seq(Entries) /\ entries \in Seq(Entries)
        /\ RunOn(sent.entries \o entries, next)
    BY DEF BatchInv
  <2>2. DOMAIN (sent.entries \o entries) = 1 .. Len(sent.entries \o entries)
    BY <2>1
  <2> QED BY <2>1, <2>2 DEF RunOn, Batch!NoneLostOrRepeated
<1> QED BY <1>1, BatchAlways, PTL DEF NoneLostOrRepeated
-----------------------------------------------------------------------------
(* What VariableBatch puts together, and what a receiver takes apart. *)

LEMMA ConcatIs ==
  ASSUME NEW a \in Seq(Nat), NEW b \in Seq(Nat)
  PROVE  /\ a \o b \in Seq(Nat) /\ Len(a \o b) = Len(a) + Len(b)
         /\ \A i \in 1 .. Len(a) : (a \o b)[i] = a[i]
         /\ \A i \in 1 .. Len(b) : (a \o b)[Len(a) + i] = b[i]
OBVIOUS

\* s is a and b, which are m and l long.
Joins(a, m, b, l, s) ==
  /\ s = a \o b /\ Len(s) = m + l
  /\ \A i \in 1 .. m : s[i] = a[i]
  /\ \A i \in 1 .. l : s[m + i] = b[i]

LEMMA JoinedIs ==
  ASSUME NEW a \in Seq(Nat), NEW m \in Nat, Len(a) = m,
         NEW b \in Seq(Nat), NEW l \in Nat, Len(b) = l
  PROVE  \E s \in Seq(Nat) : Joins(a, m, b, l, s)
<1>1. a \o b \in Seq(Nat) /\ Joins(a, Len(a), b, Len(b), a \o b)
  BY ConcatIs, Zenon DEF Joins
<1> QED BY <1>1, Zenon

\* f is a field of that width that holds the value.
IsField(value, width, f) == f = Batch!Field(value, width) /\ Len(f) = width /\ f[1] = value

LEMMA FieldIs ==
  ASSUME NEW value \in Nat, NEW width \in Nat \ {0}
  PROVE  \E f \in Seq(Nat) : IsField(value, width, f)
<1> DEFINE zeros == [i \in 1 .. width - 1 |-> 0]
<1>1. zeros \in Seq(Nat) /\ Len(zeros) = width - 1
  OBVIOUS
<1>2. <<value>> \in Seq(Nat) /\ Len(<<value>>) = 1 /\ <<value>>[1] = value
  OBVIOUS
<1>3. Batch!Field(value, width) = <<value>> \o zeros
  BY DEF Batch!Field
<1> HIDE DEF zeros
<1>4. LET f == Batch!Field(value, width) IN f \in Seq(Nat) /\ Len(f) = width /\ f[1] = value
  BY <1>1, <1>2, <1>3, ConcatIs
<1> QED BY <1>4 DEF IsField

\* p is what s holds behind its first m elements, l of them.
Piece(s, m, l, p) ==
  /\ p = SubSeq(s, m + 1, m + l) /\ Len(p) = l
  /\ \A i \in 1 .. l : p[i] = s[m + i]

LEMMA PieceIs ==
  ASSUME NEW s \in Seq(Nat), NEW m \in Nat, NEW l \in Nat, m + l <= Len(s)
  PROVE  \E p \in Seq(Nat) : Piece(s, m, l, p)
<1>1. \A i \in m + 1 .. m + l : s[i] \in Nat
  OBVIOUS
<1>2. m + 1 \in Int /\ m + l \in Int
  OBVIOUS
<1> DEFINE p == SubSeq(s, m + 1, m + l)
<1>3. /\ p \in Seq(Nat) /\ Len(p) = IF m + 1 <= m + l THEN m + l - (m + 1) + 1 ELSE 0
      /\ \A i \in 1 .. m + l - (m + 1) + 1 : p[i] = s[m + 1 + i - 1]
  <2> PICK u \in Int, v \in Int : u = m + 1 /\ v = m + l
    BY <1>2
  <2> DEFINE q == SubSeq(s, u, v)
  <2>1. \A i \in u .. v : s[i] \in Nat
    BY <1>1
  <2>2. /\ q \in Seq(Nat) /\ Len(q) = IF u <= v THEN v - u + 1 ELSE 0
        /\ \A i \in 1 .. v - u + 1 : q[i] = s[u + i - 1]
    BY <2>1, SubSeqProperties, SMTT(60)
  <2> HIDE DEF q
  <2>3. p = q
    BY DEF q
  <2> QED BY <2>2, <2>3
<1>4. Piece(s, m, l, p)
  <2> HIDE DEF p
  <2>1. Len(p) = l
    BY <1>3
  <2>2. ASSUME NEW i \in 1 .. l PROVE p[i] = s[m + i]
    <3>1. i \in 1 .. m + l - (m + 1) + 1 /\ m + 1 + i - 1 = m + i
      BY <2>2
    <3> QED BY <1>3, <3>1
  <2> QED BY <2>1, <2>2 DEF Piece, p
<1> QED BY <1>3, <1>4

LEMMA SameElements ==
  ASSUME NEW S, NEW a \in Seq(S), NEW b \in Seq(S), NEW l, Len(a) = l, Len(b) = l,
         \A i \in 1 .. l : a[i] = b[i]
  PROVE  a = b
BY SeqEqual, Zenon

\* An entry's frame, field by field.
IsFrame(e, f) ==
  /\ f \in Seq(Nat) /\ Len(f) = Len(e.name) + Len(e.data) + 14
  /\ f[1] = Len(e.name) % NameWrap
  /\ \A k \in 1 .. Len(e.name) : f[2 + k] = e.name[k]
  /\ f[3 + Len(e.name)] = e.time
  /\ f[11 + Len(e.name)] = Len(e.data)
  /\ \A k \in 1 .. Len(e.data) : f[14 + Len(e.name) + k] = e.data[k]

LEMMA FrameIs ==
  ASSUME NEW e \in Entries
  PROVE  IsFrame(e, Batch!Frame(e))
<1>1. PICK name \in Seq(Nat), data \in Seq(Nat), time \in Nat :
      name = e.name /\ data = e.data /\ time = e.time
  <2>1. Numbers \in Nat
    BY BatchAssumption DEF BatchAssumption
  <2> QED BY <2>1, EntryIs
<1>2. PICK n \in Nat, d \in Nat, w \in Nat :
      n = Len(name) /\ d = Len(data) /\ w = Batch!Narrow(Len(name))
  <2>1. \A x \in Nat, m \in Nat \ {0} : x % m \in Nat
    OBVIOUS
  <2>2. Batch!Narrow(Len(name)) \in Nat
    BY <2>1, BatchAssumption DEF Batch!Narrow, BatchAssumption
  <2> QED BY <2>2
<1>3. PICK f1 \in Seq(Nat) : f1 = Batch!Field(w, 2) /\ Len(f1) = 2 /\ f1[1] = w
  <2>1. 2 \in Nat \ {0}
    OBVIOUS
  <2> QED BY <2>1, FieldIs, Zenon DEF IsField
<1>4. PICK f2 \in Seq(Nat) : f2 = Batch!Field(time, 8) /\ Len(f2) = 8 /\ f2[1] = time
  <2>1. 8 \in Nat \ {0}
    OBVIOUS
  <2> QED BY <2>1, FieldIs, Zenon DEF IsField
<1>5. PICK f3 \in Seq(Nat) : f3 = Batch!Field(d, 4) /\ Len(f3) = 4 /\ f3[1] = d
  <2>1. 4 \in Nat \ {0}
    OBVIOUS
  <2> QED BY <2>1, FieldIs, Zenon DEF IsField
<1>6. PICK a \in Seq(Nat) :
        /\ a = f1 \o name /\ Len(a) = 2 + n /\ a[1] = w
        /\ \A k \in 1 .. n : a[2 + k] = name[k]
  <2>1. 2 \in Nat /\ n \in Nat /\ Len(f1) = 2 /\ Len(name) = n
    BY <1>2, <1>3
  <2>2. PICK s \in Seq(Nat) : Joins(f1, 2, name, n, s)
    BY <2>1, JoinedIs, Zenon
  <2> PICK i \in 1 .. 2 : i = 1
    OBVIOUS
  <2>3. s[i] = f1[i]
    BY <2>2 DEF Joins
  <2> QED BY <1>3, <2>2, <2>3 DEF Joins
<1>7. PICK b \in Seq(Nat) :
        /\ b = a \o f2 /\ Len(b) = 10 + n /\ b[1] = w
        /\ \A k \in 1 .. n : b[2 + k] = name[k]
        /\ b[3 + n] = time
  <2>1. 2 + n \in Nat /\ 8 \in Nat /\ Len(a) = 2 + n /\ Len(f2) = 8
    BY <1>6, <1>4
  <2>2. PICK s \in Seq(Nat) : Joins(a, 2 + n, f2, 8, s)
    BY <2>1, JoinedIs, Zenon
  <2>3. /\ Len(s) = 2 + n + 8 /\ \A i \in 1 .. 2 + n : s[i] = a[i]
        /\ \A i \in 1 .. 8 : s[2 + n + i] = f2[i]
    BY <2>2, Zenon DEF Joins
  <2>4. /\ 1 \in 1 .. 2 + n /\ 1 \in 1 .. 8 /\ 2 + n + 1 = 3 + n
        /\ 2 + n + 8 = 10 + n
    OBVIOUS
  <2>5. s[1] = w /\ s[3 + n] = time
    BY <1>6, <1>4, <2>3, <2>4
  <2>6. ASSUME NEW k \in 1 .. n PROVE s[2 + k] = name[k]
    <3>1. 2 + k \in 1 .. 2 + n
      BY <2>6
    <3> QED BY <1>6, <2>3, <2>6, <3>1
  <2> QED BY <2>2, <2>3, <2>4, <2>5, <2>6 DEF Joins
<1>8. PICK c \in Seq(Nat) :
        /\ c = b \o f3 /\ Len(c) = 14 + n /\ c[1] = w
        /\ \A k \in 1 .. n : c[2 + k] = name[k]
        /\ c[3 + n] = time /\ c[11 + n] = d
  <2>1. 10 + n \in Nat /\ 4 \in Nat /\ Len(b) = 10 + n /\ Len(f3) = 4
    BY <1>7, <1>5
  <2>2. PICK s \in Seq(Nat) : Joins(b, 10 + n, f3, 4, s)
    BY <2>1, JoinedIs, Zenon
  <2>3. /\ Len(s) = 10 + n + 4 /\ \A i \in 1 .. 10 + n : s[i] = b[i]
        /\ \A i \in 1 .. 4 : s[10 + n + i] = f3[i]
    BY <2>2, Zenon DEF Joins
  <2>4. /\ 1 \in 1 .. 10 + n /\ 3 + n \in 1 .. 10 + n /\ 1 \in 1 .. 4 /\ 10 + n + 1 = 11 + n
        /\ 10 + n + 4 = 14 + n
    OBVIOUS
  <2>5. s[1] = w /\ s[3 + n] = time /\ s[11 + n] = d
    BY <1>7, <1>5, <2>3, <2>4
  <2>6. ASSUME NEW k \in 1 .. n PROVE s[2 + k] = name[k]
    <3>1. 2 + k \in 1 .. 10 + n
      BY <2>6
    <3> QED BY <1>7, <2>3, <2>6, <3>1
  <2> QED BY <2>2, <2>3, <2>4, <2>5, <2>6 DEF Joins
<1>9. PICK f \in Seq(Nat) :
        /\ f = c \o data /\ Len(f) = 14 + n + d /\ f[1] = w
        /\ \A k \in 1 .. n : f[2 + k] = name[k]
        /\ f[3 + n] = time /\ f[11 + n] = d
        /\ \A k \in 1 .. d : f[14 + n + k] = data[k]
  <2>1. 14 + n \in Nat /\ d \in Nat /\ Len(c) = 14 + n /\ Len(data) = d
    BY <1>8, <1>2
  <2>2. PICK s \in Seq(Nat) : Joins(c, 14 + n, data, d, s)
    BY <2>1, JoinedIs, Zenon
  <2>3. /\ Len(s) = 14 + n + d /\ \A i \in 1 .. 14 + n : s[i] = c[i]
        /\ \A i \in 1 .. d : s[14 + n + i] = data[i]
    BY <2>2, Zenon DEF Joins
  <2>4. /\ 1 \in 1 .. 14 + n /\ 3 + n \in 1 .. 14 + n /\ 11 + n \in 1 .. 14 + n
    OBVIOUS
  <2>5. s[1] = w /\ s[3 + n] = time /\ s[11 + n] = d
    BY <1>8, <1>2, <2>3, <2>4
  <2>6. ASSUME NEW k \in 1 .. n PROVE s[2 + k] = name[k]
    <3>1. 2 + k \in 1 .. 14 + n
      BY <2>6
    <3> QED BY <1>8, <2>3, <2>6, <3>1
  <2> QED BY <2>2, <2>3, <2>4, <2>5, <2>6 DEF Joins
<1>10. Batch!Frame(e) = f
  BY <1>3, <1>4, <1>5, <1>6, <1>7, <1>8, <1>9, <1>1, <1>2, Zenon DEF Batch!Frame
<1>11. IsFrame(e, f)
  <2>1. Len(e.name) = n /\ Len(e.data) = d /\ w = Len(e.name) % NameWrap
    BY <1>1, <1>2 DEF Batch!Narrow
  <2>2. 14 + n + d = n + d + 14
    OBVIOUS
  <2> QED BY <1>9, <1>1, <2>1, <2>2 DEF IsFrame
<1> QED BY <1>10, <1>11

ShortName(e) == Len(e.name) < NameWrap

\* A frame is taken apart into the entry, unless its name is too long.
LEMMA ParseIs ==
  ASSUME NEW e \in Entries, ShortName(e)
  PROVE  Batch!Parse(Batch!Frame(e)) = e
<1>1. PICK name \in Seq(Nat), data \in Seq(Nat), time \in Nat :
      name = e.name /\ data = e.data /\ time = e.time
  <2>1. Numbers \in Nat
    BY BatchAssumption DEF BatchAssumption
  <2> QED BY <2>1, EntryIs
<1>2. PICK n \in Nat, d \in Nat : n = Len(name) /\ d = Len(data)
  OBVIOUS
<1>3. PICK f \in Seq(Nat) :
      f = Batch!Frame(e) /\ IsFrame(e, f)
  BY FrameIs DEF IsFrame
<1>4. /\ Len(f) = n + d + 14
      /\ f[1] = n % NameWrap
      /\ \A k \in 1 .. n : f[2 + k] = name[k]
      /\ f[3 + n] = time
      /\ f[11 + n] = d
      /\ \A k \in 1 .. d : f[14 + n + k] = data[k]
  BY <1>1, <1>2, <1>3 DEF IsFrame
<1>5. f[1] = n
  <2>1. n < NameWrap
    BY <1>1, <1>2 DEF ShortName
  <2> QED BY <1>4, <2>1, BatchAssumption, ModIs DEF BatchAssumption
<1>6. SubSeq(f, 3, 2 + n) = name
  <2>1. 2 + n <= Len(f) /\ 2 \in Nat /\ 2 + 1 = 3
    BY <1>4
  <2>2. PICK p \in Seq(Nat) : Piece(f, 2, n, p)
    BY <2>1, PieceIs, Zenon
  <2>3. p = SubSeq(f, 2 + 1, 2 + n) /\ Len(p) = n /\ \A i \in 1 .. n : p[i] = f[2 + i]
    BY <2>2, Zenon DEF Piece
  <2>4. \A i \in 1 .. n : p[i] = name[i]
    BY <1>4, <2>3
  <2>5. p = name
    BY <1>2, <2>2, <2>3, <2>4, SameElements, Zenon
  <2> QED BY <2>1, <2>3, <2>5
<1>7. PICK rest \in Seq(Nat) :
        /\ rest = SubSeq(f, 3 + n, Len(f)) /\ Len(rest) = d + 12
        /\ \A i \in 1 .. d + 12 : rest[i] = f[2 + n + i]
  <2>1. /\ 2 + n \in Nat /\ d + 12 \in Nat /\ 2 + n + (d + 12) <= Len(f)
        /\ 2 + n + 1 = 3 + n /\ 2 + n + (d + 12) = Len(f)
    BY <1>4
  <2>2. PICK p \in Seq(Nat) : Piece(f, 2 + n, d + 12, p)
    BY <2>1, PieceIs, Zenon
  <2> QED BY <2>1, <2>2, Zenon DEF Piece
<1>8. rest[1] = time /\ rest[9] = d
  <2>1. /\ 1 \in 1 .. d + 12 /\ 9 \in 1 .. d + 12
        /\ 2 + n + 1 = 3 + n /\ 2 + n + 9 = 11 + n
    OBVIOUS
  <2>2. rest[1] = f[2 + n + 1] /\ rest[9] = f[2 + n + 9]
    BY <1>7, <2>1
  <2> QED BY <1>4, <2>1, <2>2
<1>9. SubSeq(rest, 13, 12 + d) = data
  <2>1. 12 + d <= Len(rest) /\ 12 \in Nat /\ 12 + 1 = 13
    BY <1>7
  <2>2. PICK p \in Seq(Nat) : Piece(rest, 12, d, p)
    BY <2>1, PieceIs, Zenon
  <2>3. p = SubSeq(rest, 12 + 1, 12 + d) /\ Len(p) = d /\ \A i \in 1 .. d : p[i] = rest[12 + i]
    BY <2>2, Zenon DEF Piece
  <2>4. ASSUME NEW i \in 1 .. d PROVE rest[12 + i] = data[i]
    <3>1. 12 + i \in 1 .. d + 12 /\ 2 + n + (12 + i) = 14 + n + i
      BY <2>4
    <3> QED BY <1>4, <1>7, <2>4, <3>1
  <2>5. \A i \in 1 .. d : p[i] = data[i]
    BY <2>3, <2>4
  <2>6. p = data
    BY <1>2, <2>2, <2>3, <2>5, SameElements, Zenon
  <2> QED BY <2>1, <2>3, <2>6
<1>10. Batch!Parse(f) = [name |-> name, time |-> time, data |-> data]
  BY <1>5, <1>6, <1>7, <1>8, <1>9 DEF Batch!Parse
<1> QED BY <1>3, <1>10, <1>1, EntryIs

\* s is a frame behind its length.
Prefixed(frame, l, s) ==
  Len(s) = 4 + l /\ s[1] = l /\ \A k \in 1 .. l : s[4 + k] = frame[k]

LEMMA FramedIs ==
  ASSUME NEW e \in Entries
  PROVE  \E l \in Nat : /\ Batch!Frame(e) \in Seq(Nat) /\ Len(Batch!Frame(e)) = l
                        /\ Batch!Framed(e) \in Seq(Nat)
                        /\ Prefixed(Batch!Frame(e), l, Batch!Framed(e))
<1>1. PICK f \in Seq(Nat) : f = Batch!Frame(e)
  BY FrameIs DEF IsFrame
<1>2. PICK l \in Nat : l = Len(f)
  OBVIOUS
<1>3. 4 \in Nat \ {0} /\ 4 \in Nat
  OBVIOUS
<1>4. PICK h \in Seq(Nat) : h = Batch!Field(l, 4) /\ Len(h) = 4 /\ h[1] = l
  BY <1>3, FieldIs, Zenon DEF IsField
<1>5. PICK s \in Seq(Nat) : Joins(h, 4, f, l, s)
  BY <1>2, <1>3, <1>4, JoinedIs, Zenon
<1>6. s = h \o f /\ Len(s) = 4 + l /\ \A k \in 1 .. l : s[4 + k] = f[k]
  BY <1>5, Zenon DEF Joins
<1>7. s[1] = l
  <2>1. \A i \in 1 .. 4 : s[i] = h[i]
    BY <1>5, Zenon DEF Joins
  <2> PICK i \in 1 .. 4 : i = 1
    OBVIOUS
  <2>2. s[i] = h[i]
    BY <2>1
  <2> QED BY <1>4, <2>2
<1>8. s = Batch!Framed(e)
  BY <1>1, <1>2, <1>4, <1>6, Zenon DEF Batch!Framed
<1>9. Prefixed(f, l, s)
  BY <1>6, <1>7, Zenon DEF Prefixed
<1> QED BY <1>1, <1>2, <1>8, <1>9, Zenon

\* b begins with a.
Begins(a, b) == Len(a) <= Len(b) /\ \A k \in 1 .. Len(a) : b[k] = a[k]

LEMMA BeginsLonger ==
  ASSUME NEW a \in Seq(Nat), NEW b \in Seq(Nat), Begins(a, b), NEW c \in Seq(Nat)
  PROVE  Begins(a, b \o c)
<1>1. Len(b \o c) = Len(b) + Len(c) /\ \A i \in 1 .. Len(b) : (b \o c)[i] = b[i]
  BY ConcatIs
<1>2. PICK s \in Seq(Nat) : s = b \o c
  BY ConcatIs
<1>3. Len(a) <= Len(s) /\ Len(a) <= Len(b)
  BY <1>1, <1>2 DEF Begins
<1>4. ASSUME NEW k \in 1 .. Len(a) PROVE s[k] = a[k]
  <2>1. k \in 1 .. Len(b)
    BY <1>3, <1>4
  <2> QED BY <1>1, <1>2, <1>4, <2>1 DEF Begins
<1> QED BY <1>2, <1>3, <1>4 DEF Begins

\* The whole begins with what the first j are together.
LEMMA WholeBegins ==
  ASSUME NEW seqs \in Seq(Seq(Nat)), NEW flat, Flattens(seqs, Nat, flat),
         NEW j \in 0 .. Len(seqs)
  PROVE  Begins(flat[j], flat[Len(seqs)])
<1> DEFINE n == Len(seqs)
           Q == {d \in Nat : j + d <= n => Begins(flat[j], flat[j + d])}
<1>1. n \in Nat /\ j \in Nat /\ j <= n
  OBVIOUS
<1>2. \A i \in 0 .. n : flat[i] \in Seq(Nat)
  BY DEF Flattens
<1>3. 0 \in Q
  <2>1. j + 0 = j /\ flat[j] \in Seq(Nat)
    BY <1>1, <1>2
  <2> QED BY <2>1 DEF Begins
<1>4. ASSUME NEW d \in Nat, d \in Q PROVE d + 1 \in Q
  <2> SUFFICES ASSUME j + (d + 1) <= n PROVE Begins(flat[j], flat[j + (d + 1)])
    BY <1>4
  <2> DEFINE i == j + (d + 1)
  <2>1. i \in 1 .. n /\ i - 1 = j + d /\ j + d \in 0 .. n /\ j \in 0 .. n /\ j + d <= n
    BY <1>1, <1>4
  <2> HIDE DEF i
  <2>2. flat[i] = flat[i - 1] \o seqs[i] /\ seqs[i] \in Seq(Nat)
    <3>1. flat[i] = flat[i - 1] \o seqs[i]
      BY <2>1, Zenon DEF Flattens
    <3>2. seqs[i] \in Seq(Nat)
      BY <2>1
    <3> QED BY <3>1, <3>2
  <2>3. Begins(flat[j], flat[j + d])
    BY <1>4, <2>1
  <2>4. flat[j] \in Seq(Nat) /\ flat[j + d] \in Seq(Nat)
    BY <1>2, <2>1
  <2>5. Begins(flat[j], flat[j + d] \o seqs[i])
    BY <2>2, <2>3, <2>4, BeginsLonger, Zenon
  <2>6. Begins(flat[j], flat[i])
    BY <2>1, <2>2, <2>5
  <2> QED BY <2>6 DEF i
<1>5. n - j \in Q
  <2> HIDE DEF Q
  <2>1. Nat \subseteq Q
    BY <1>3, <1>4, Upward
  <2>2. n - j \in Nat
    BY <1>1
  <2> QED BY <2>1, <2>2
<1>6. j + (n - j) = n /\ n <= n
  BY <1>1
<1> QED BY <1>5, <1>6

\* Where the j-th is in the whole, and how long it is.
Sits(seqs, flat, j, o, l) == o = Len(flat[j - 1]) /\ l = Len(seqs[j])

Found(seqs, flat, j, o, l) ==
  /\ Len(flat[j]) = o + l /\ o + l <= Len(flat[Len(seqs)])
  /\ \A k \in 1 .. l : flat[Len(seqs)][o + k] = seqs[j][k]

LEMMA PlaceIs ==
  ASSUME NEW seqs \in Seq(Seq(Nat)), NEW flat, Flattens(seqs, Nat, flat),
         NEW j \in 1 .. Len(seqs),
         NEW o \in Nat, NEW l \in Nat, Sits(seqs, flat, j, o, l)
  PROVE  Found(seqs, flat, j, o, l)
<1>1. j \in 0 .. Len(seqs) /\ j - 1 \in 0 .. Len(seqs) /\ Len(seqs) \in 0 .. Len(seqs)
  OBVIOUS
<1>2. PICK a \in Seq(Nat), b \in Seq(Nat), c \in Seq(Nat), whole \in Seq(Nat) :
        a = flat[j - 1] /\ b = seqs[j] /\ c = flat[j] /\ whole = flat[Len(seqs)]
  <2>1. \A i \in 0 .. Len(seqs) : flat[i] \in Seq(Nat)
    BY DEF Flattens
  <2>2. seqs[j] \in Seq(Nat)
    OBVIOUS
  <2> QED BY <1>1, <2>1, <2>2, Zenon
<1>3. c = a \o b
  BY <1>2, Zenon DEF Flattens
<1>4. Begins(c, whole)
  BY <1>1, <1>2, WholeBegins, Zenon
<1>5. Len(a) = o /\ Len(b) = l
  BY <1>2, Zenon DEF Sits
<1>6. PICK s \in Seq(Nat) : Joins(a, o, b, l, s)
  BY <1>5, JoinedIs, Zenon
<1>7. s = c /\ Len(c) = o + l /\ \A k \in 1 .. l : c[o + k] = b[k]
  BY <1>3, <1>6, Zenon DEF Joins
<1>8. Len(c) <= Len(whole) /\ \A k \in 1 .. Len(c) : whole[k] = c[k]
  BY <1>4, Zenon DEF Begins
<1>9. ASSUME NEW k \in 1 .. l PROVE whole[o + k] = b[k]
  <2>1. o + k \in 1 .. Len(c)
    BY <1>7, <1>9
  <2> QED BY <1>7, <1>8, <1>9, <2>1
<1>10. o + l <= Len(whole)
  BY <1>7, <1>8
<1> QED BY <1>2, <1>7, <1>9, <1>10, Zenon DEF Found

\* What a receiver finds from position i on.
CutFrom(bytes, from, i) ==
  IF i + 3 > Len(bytes) \/ i + 3 + bytes[i] > Len(bytes) THEN <<>>
  ELSE <<SubSeq(bytes, i + 4, i + 3 + bytes[i])>> \o from[i + 4 + bytes[i]]
Cuts(bytes, from) == \A i \in 1 .. Len(bytes) + 1 : from[i] = CutFrom(bytes, from, i)

\* There is one, as its steps go forward: the loop of a coder with its tokens.
LEMMA CutIs ==
  ASSUME NEW bytes \in Seq(Nat)
  PROVE  \E from : Cuts(bytes, from) /\ Batch!Cut(bytes) = from[1]
<1> DEFINE n == Len(bytes)
           Last1(i) == i + 3 > n \/ i + 3 + bytes[i] > n
           tokens == [i \in 1 .. n |->
                        IF Last1(i) THEN TokenOf(<<>>, n + 1 - i)
                        ELSE TokenOf(<<SubSeq(bytes, i + 4, i + 3 + bytes[i])>>, 4 + bytes[i])]
           Body(f) == [i \in 1 .. n + 1 |-> CutFrom(bytes, f, i)]
           from == CHOOSE f : f = Body(f)
<1>1. n \in Nat
  OBVIOUS
<1>2. Tokens(n, Seq(Nat), tokens)
  <2> SUFFICES ASSUME NEW i \in 1 .. n
               PROVE  tokens[i].bytes \in Seq(Seq(Nat)) /\ tokens[i].length \in 1 .. n + 1 - i
    BY DEF Tokens
  <2> PICK b \in Nat : b = bytes[i]
    OBVIOUS
  <2>1. CASE Last1(i)
    <3>1. tokens[i] = TokenOf(<<>>, n + 1 - i)
      BY <2>1
    <3>2. <<>> \in Seq(Seq(Nat)) /\ n + 1 - i \in 1 .. n + 1 - i
      BY <1>1
    <3> QED BY <3>1, <3>2 DEF TokenOf
  <2>2. CASE ~ Last1(i)
    <3> DEFINE piece == SubSeq(bytes, i + 4, i + 3 + b)
    <3>1. tokens[i] = TokenOf(<<piece>>, 4 + b)
      BY <2>2
    <3>2. i + 3 + b <= n
      BY <1>1, <2>2
    <3>3. piece \in Seq(Nat)
      BY <1>1, <3>2
    <3>4. 4 + b \in 1 .. n + 1 - i
      BY <1>1, <3>2
    <3> HIDE DEF piece
    <3>5. <<piece>> \in Seq(Seq(Nat))
      BY <3>3
    <3> QED BY <3>1, <3>4, <3>5 DEF TokenOf
  <2> QED BY <2>1, <2>2
<1> HIDE DEF tokens
<1>3. PICK f \in [1 .. n + 1 -> Seq(Seq(Nat))] : Describes(n, tokens, f)
  BY <1>1, <1>2, PutOutExists, Zenon
<1>4. ASSUME NEW i \in 1 .. n + 1 PROVE f[i] = CutFrom(bytes, f, i)
  <2>1. f[i] = IF i > n THEN <<>> ELSE tokens[i].bytes \o f[i + tokens[i].length]
    BY <1>3, <1>4, Zenon DEF Describes, PutsOut
  <2>2. CASE i > n
    <3>1. i + 3 > n
      BY <1>1, <1>4, <2>2
    <3> QED BY <2>1, <2>2, <3>1 DEF CutFrom
  <2>3. CASE ~ (i > n) /\ Last1(i)
    <3>1. i \in 1 .. n /\ n + 1 \in 1 .. n + 1 /\ n + 1 > n /\ i + (n + 1 - i) = n + 1
      BY <1>1, <1>4, <2>3
    <3>2. tokens[i] = TokenOf(<<>>, n + 1 - i)
      BY <2>3, <3>1 DEF tokens
    <3>3. tokens[i].bytes = <<>> /\ i + tokens[i].length = n + 1
      BY <3>1, <3>2 DEF TokenOf
    <3>4. f[n + 1] = <<>>
      BY <1>3, <3>1 DEF Describes, PutsOut
    <3>5. f[i] = <<>>
      BY <2>1, <2>3, <3>3, <3>4
    <3> QED BY <2>3, <3>5 DEF CutFrom
  <2>4. CASE ~ (i > n) /\ ~ Last1(i)
    <3>1. i \in 1 .. n
      BY <1>1, <1>4, <2>4
    <3>2. PICK b \in Nat : b = bytes[i]
      BY <3>1
    <3>3. tokens[i] = TokenOf(<<SubSeq(bytes, i + 4, i + 3 + b)>>, 4 + b)
      BY <2>4, <3>1, <3>2 DEF tokens
    <3>4. tokens[i].bytes = <<SubSeq(bytes, i + 4, i + 3 + b)>> /\ i + tokens[i].length = i + 4 + b
      <4>1. i + (4 + b) = i + 4 + b
        BY <1>1, <3>1
      <4> QED BY <3>3, <4>1 DEF TokenOf
    <3>5. f[i] = <<SubSeq(bytes, i + 4, i + 3 + b)>> \o f[i + 4 + b]
      BY <2>1, <2>4, <3>4
    <3> QED BY <2>4, <3>5, <3>2 DEF CutFrom
  <2> QED BY <2>2, <2>3, <2>4
<1>5. f = Body(f)
  <2> HIDE DEF n
  <2> QED BY <1>3, <1>4
<1>6. from = Body(from)
  <2> HIDE DEF Body
  <2> QED BY <1>5
<1>7. Cuts(bytes, from)
  <2> HIDE DEF from
  <2> QED BY <1>6 DEF Cuts
<1>8. Batch!Cut(bytes) = from[1]
  BY DEF Batch!Cut, CutFrom
<1> QED BY <1>7, <1>8

Frames(batch) == [i \in 1 .. Len(batch) |-> Batch!Frame(batch[i])]
Framings(batch) == [i \in DOMAIN batch |-> Batch!Framed(batch[i])]

LEMMA FramingsAre ==
  ASSUME NEW batch \in Seq(Entries)
  PROVE  /\ Framings(batch) \in Seq(Seq(Nat)) /\ Len(Framings(batch)) = Len(batch)
         /\ \A i \in 1 .. Len(batch) : Framings(batch)[i] = Batch!Framed(batch[i])
<1> DEFINE G(i) == Batch!Framed(batch[i])
<1>1. \A i \in 1 .. Len(batch) : G(i) \in Seq(Nat)
  <2>1. \A i \in 1 .. Len(batch) : batch[i] \in Entries
    OBVIOUS
  <2> QED BY <2>1, FramedIs, Zenon
<1>2. Framings(batch) = [i \in 1 .. Len(batch) |-> G(i)]
  BY DEF Framings
<1> HIDE DEF G
<1>3. /\ Framings(batch) \in Seq(Seq(Nat)) /\ Len(Framings(batch)) = Len(batch)
      /\ \A i \in 1 .. Len(batch) : Framings(batch)[i] = G(i)
  BY <1>1, <1>2
<1> QED BY <1>3 DEF G

LEMMA OneAndRest ==
  ASSUME NEW S, NEW x \in S, NEW t \in Seq(S)
  PROVE  /\ <<x>> \o t \in Seq(S) /\ Len(<<x>> \o t) = Len(t) + 1
         /\ (<<x>> \o t)[1] = x
         /\ \A m \in 1 .. Len(t) : (<<x>> \o t)[m + 1] = t[m]
OBVIOUS

\* A frame is found in its place, and the one behind it is looked for next.
LEMMA CutStep ==
  ASSUME NEW batch \in Seq(Entries), NEW flat, Flattens(Framings(batch), Nat, flat),
         NEW from, Cuts(flat[Len(batch)], from), NEW j \in 1 .. Len(batch)
  PROVE  from[Len(flat[j - 1]) + 1]
           = <<Batch!Frame(batch[j])>> \o from[Len(flat[j]) + 1]
<1> DEFINE seqs == Framings(batch)
           whole == flat[Len(batch)]
<1>1. /\ seqs \in Seq(Seq(Nat)) /\ Len(seqs) = Len(batch)
      /\ \A i \in 1 .. Len(batch) : seqs[i] = Batch!Framed(batch[i])
  BY FramingsAre, Zenon
<1> HIDE DEF seqs
<1>2. batch[j] \in Entries
  OBVIOUS
<1>3. PICK f \in Seq(Nat), l \in Nat, s \in Seq(Nat) :
        /\ f = Batch!Frame(batch[j]) /\ Len(f) = l /\ s = seqs[j] /\ Prefixed(f, l, s)
  BY <1>1, <1>2, FramedIs, Zenon
<1>4. Len(s) = 4 + l /\ s[1] = l /\ \A k \in 1 .. l : s[4 + k] = f[k]
  BY <1>3, Zenon DEF Prefixed
<1>5. /\ flat[j - 1] \in Seq(Nat) /\ flat[Len(seqs)] \in Seq(Nat)
      /\ flat[Len(seqs)] = whole /\ whole \in Seq(Nat) /\ Cuts(whole, from)
  <2>1. j - 1 \in 0 .. Len(seqs) /\ Len(seqs) \in 0 .. Len(seqs)
    BY <1>1
  <2>2. \A i \in 0 .. Len(seqs) : flat[i] \in Seq(Nat)
    BY DEF Flattens, seqs
  <2> QED BY <1>1, <2>1, <2>2, Zenon
<1> HIDE DEF whole
<1>6. PICK o \in Nat : o = Len(flat[j - 1])
  BY <1>5
<1>7. /\ Len(flat[j]) = o + (4 + l) /\ o + (4 + l) <= Len(whole)
      /\ \A k \in 1 .. 4 + l : whole[o + k] = s[k]
  <2>1. PICK w \in Nat : w = 4 + l
    BY <1>3
  <2>2. Sits(seqs, flat, j, o, w)
    BY <1>3, <1>4, <1>6, <2>1 DEF Sits
  <2>3. j \in 1 .. Len(seqs) /\ Flattens(seqs, Nat, flat) /\ seqs \in Seq(Seq(Nat))
    BY <1>1 DEF seqs
  <2>4. Found(seqs, flat, j, o, w)
    BY <1>6, <2>1, <2>2, <2>3, PlaceIs, Zenon
  <2> QED BY <1>3, <1>5, <2>1, <2>4, Zenon DEF Found
<1>13. PICK total \in Nat : total = Len(whole)
  BY <1>5
<1>8. whole[o + 1] = l
  <2> PICK k \in 1 .. 4 + l : k = 1
    OBVIOUS
  <2>1. whole[o + k] = s[k]
    BY <1>7
  <2> QED BY <1>4, <2>1
<1>9. /\ o + 1 \in 1 .. total + 1 /\ ~ (o + 1 + 3 > total) /\ ~ (o + 1 + 3 + l > total)
      /\ o + 1 + 4 = o + 4 + 1 /\ o + 1 + 3 + l = o + 4 + l /\ o + 1 + 4 + l = o + (4 + l) + 1
  BY <1>7, <1>13
<1>10. SubSeq(whole, o + 4 + 1, o + 4 + l) = f
  <2>1. o + 4 \in Nat /\ o + 4 + l <= Len(whole)
    BY <1>7
  <2>2. PICK p \in Seq(Nat) : Piece(whole, o + 4, l, p)
    BY <1>5, <2>1, PieceIs, Zenon
  <2>3. /\ p = SubSeq(whole, o + 4 + 1, o + 4 + l) /\ Len(p) = l
        /\ \A k \in 1 .. l : p[k] = whole[o + 4 + k]
    BY <2>2, Zenon DEF Piece
  <2>4. ASSUME NEW k \in 1 .. l PROVE p[k] = f[k]
    <3>1. 4 + k \in 1 .. 4 + l /\ o + (4 + k) = o + 4 + k
      BY <2>4
    <3>2. whole[o + (4 + k)] = s[4 + k]
      BY <1>7, <3>1, Zenon
    <3> QED BY <1>4, <2>3, <2>4, <3>1, <3>2
  <2>5. p = f
    BY <1>3, <2>3, <2>4, SameElements, Zenon
  <2> QED BY <2>3, <2>5
<1>11. from[o + 1] = CutFrom(whole, from, o + 1)
  BY <1>5, <1>9, <1>13, Zenon DEF Cuts
<1>12. from[o + 1] = <<f>> \o from[o + (4 + l) + 1]
  BY <1>8, <1>9, <1>10, <1>11, <1>13, Zenon DEF CutFrom
<1> QED BY <1>3, <1>6, <1>7, <1>12, Zenon

\* The receiver finds the frames of a whole batch.
LEMMA CutFrames ==
  ASSUME NEW batch \in Seq(Entries), NEW flat, Flattens(Framings(batch), Nat, flat)
  PROVE  Batch!Cut(flat[Len(batch)]) = Frames(batch)
<1> DEFINE n == Len(batch)
           whole == flat[n]
<1>1. n \in Nat
  OBVIOUS
<1>2. whole \in Seq(Nat) /\ flat[0] = <<>>
  <2>1. Len(Framings(batch)) = n
    BY DEF Framings
  <2>2. n \in 0 .. n
    BY <1>1
  <2> QED BY <2>1, <2>2 DEF Flattens
<1> HIDE DEF whole
<1>3. PICK from : Cuts(whole, from) /\ Batch!Cut(whole) = from[1]
  BY <1>2, CutIs, Zenon
<1> DEFINE F(d) == [m \in 1 .. d |-> Batch!Frame(batch[n - d + m])]
           Q == {d \in Nat : d <= n => from[Len(flat[n - d]) + 1] = F(d)}
<1>4. 0 \in Q
  <2> PICK t \in Nat : t = Len(whole)
    BY <1>2
  <2>1. n - 0 = n /\ t + 1 \in 1 .. t + 1 /\ t + 1 + 3 > t
    BY <1>1
  <2>2. from[t + 1] = CutFrom(whole, from, t + 1)
    BY <1>3, <2>1, Zenon DEF Cuts
  <2>3. from[t + 1] = <<>>
    BY <2>1, <2>2, Zenon DEF CutFrom
  <2>4. F(0) = <<>>
    OBVIOUS
  <2>5. from[Len(flat[n - 0]) + 1] = F(0)
    <3> HIDE DEF F
    <3> QED BY <2>1, <2>3, <2>4 DEF whole
  <2> HIDE DEF F
  <2> QED BY <2>5
<1>5. ASSUME NEW d \in Nat, d \in Q PROVE d + 1 \in Q
  <2> SUFFICES ASSUME d + 1 <= n PROVE from[Len(flat[n - (d + 1)]) + 1] = F(d + 1)
    <3> HIDE DEF F
    <3> QED BY <1>5
  <2> DEFINE j == n - d
  <2>1. j \in 1 .. n /\ j - 1 = n - (d + 1) /\ d <= n
    BY <1>1, <1>5
  <2>2. from[Len(flat[j - 1]) + 1] = <<Batch!Frame(batch[j])>> \o from[Len(flat[j]) + 1]
    <3>1. j \in 1 .. Len(batch)
      BY <2>1
    <3>2. Cuts(flat[Len(batch)], from)
      BY <1>3 DEF whole
    <3> HIDE DEF j, n
    <3> QED BY <3>1, <3>2, CutStep, Zenon
  <2>3. from[Len(flat[j]) + 1] = F(d)
    <3> HIDE DEF F
    <3> QED BY <1>5, <2>1
  <2>4. \A m \in 1 .. d + 1 : n - (d + 1) + m \in 1 .. n
    BY <1>1, <2>1
  <2>5. <<Batch!Frame(batch[j])>> \o F(d) = F(d + 1)
    <3> DEFINE a == <<Batch!Frame(batch[j])>>
               G(i) == Batch!Frame(batch[i])
    <3>1. \A i \in 1 .. n : G(i) \in Seq(Nat)
      <4>1. \A i \in 1 .. n : batch[i] \in Entries
        OBVIOUS
      <4> QED BY <4>1, FramedIs, Zenon
    <3> HIDE DEF G
    <3>2. a = <<G(j)>> /\ F(d) = [m \in 1 .. d |-> G(n - d + m)]
          /\ F(d + 1) = [m \in 1 .. d + 1 |-> G(n - (d + 1) + m)]
      BY Zenon DEF G
    <3> HIDE DEF a, F
    <3>3. F(d) \in Seq(Seq(Nat)) /\ Len(F(d)) = d
      <4>1. \A m \in 1 .. d : n - d + m \in 1 .. n
        BY <1>1, <2>1
      <4> QED BY <3>1, <3>2, <4>1
    <3>4. F(d + 1) \in Seq(Seq(Nat)) /\ Len(F(d + 1)) = d + 1
      BY <2>4, <3>1, <3>2
    <3>5. PICK x \in Seq(Nat), t \in Seq(Seq(Nat)), u \in Seq(Seq(Nat)) :
            x = G(j) /\ t = F(d) /\ u = a \o F(d)
      <4>1. G(j) \in Seq(Nat)
        BY <2>1, <3>1
      <4>2. a \o F(d) \in Seq(Seq(Nat))
        BY <3>2, <3>3, <4>1, OneAndRest, Zenon
      <4> QED BY <3>3, <4>1, <4>2
    <3>6. /\ Len(u) = Len(t) + 1 /\ u[1] = x
          /\ \A m \in 1 .. Len(t) : u[m + 1] = t[m]
      <4>1. u = <<x>> \o t
        BY <3>2, <3>5, Zenon
      <4>2. x \in Seq(Nat) /\ t \in Seq(Seq(Nat))
        BY <3>5
      <4>3. /\ Len(<<x>> \o t) = Len(t) + 1 /\ (<<x>> \o t)[1] = x
            /\ \A m \in 1 .. Len(t) : (<<x>> \o t)[m + 1] = t[m]
        BY <4>2, OneAndRest
      <4> HIDE DEF n
      <4> QED BY <4>1, <4>3, Zenon
    <3>7. ASSUME NEW m \in 1 .. d + 1 PROVE u[m] = F(d + 1)[m]
      <4>1. CASE m = 1
        <5>1. n - (d + 1) + m = j
          BY <1>1, <1>5, <4>1
        <5> QED BY <3>2, <3>5, <3>6, <3>7, <4>1, <5>1
      <4>2. CASE m # 1
        <5>1. m - 1 \in 1 .. d /\ n - d + (m - 1) = n - (d + 1) + m /\ m - 1 + 1 = m
          BY <1>1, <1>5, <3>7, <4>2
        <5>2. F(d)[m - 1] = G(n - d + (m - 1))
          BY <3>2, <5>1
        <5>3. u[m - 1 + 1] = t[m - 1]
          BY <3>3, <3>5, <3>6, <5>1
        <5>4. F(d + 1)[m] = G(n - (d + 1) + m)
          BY <3>2, <3>7
        <5> QED BY <3>5, <5>1, <5>2, <5>3, <5>4
      <4> QED BY <4>1, <4>2
    <3>8. a \o F(d) = F(d + 1)
      <4>1. Len(u) = d + 1
        BY <3>3, <3>5, <3>6
      <4>2. u = F(d + 1)
        BY <3>4, <3>5, <3>7, <4>1, SameElements, Zenon
      <4> QED BY <3>5, <4>2
    <3> QED BY <3>8 DEF a
  <2> HIDE DEF F, j
  <2> QED BY <2>1, <2>2, <2>3, <2>5
<1>6. n \in Q
  <2> HIDE DEF Q
  <2>1. Nat \subseteq Q
    BY <1>4, <1>5, Upward
  <2> QED BY <1>1, <2>1
<1>7. from[1] = F(n)
  <2>1. n - n = 0 /\ n <= n
    BY <1>1
  <2>2. from[Len(flat[n - n]) + 1] = F(n)
    <3> HIDE DEF F
    <3> QED BY <1>6, <2>1
  <2>3. Len(flat[n - n]) + 1 = 1
    BY <1>2, <2>1
  <2> HIDE DEF F
  <2> QED BY <2>2, <2>3
<1>8. F(n) = Frames(batch)
  <2>1. \A m \in 1 .. n : n - n + m = m
    BY <1>1
  <2> QED BY <2>1 DEF Frames
<1> QED BY <1>3, <1>7, <1>8 DEF whole

\* What is sent says how many entries there are, and the receiver finds them.
LEMMA ReceiverFinds ==
  ASSUME NEW batch \in Seq(Entries), NEW bytes, bytes = Batch!serialize(batch)
  PROVE  /\ bytes[1] = Len(batch)
         /\ Batch!Cut(SubSeq(bytes, 5, Len(bytes))) = Frames(batch)
<1> DEFINE seqs == Framings(batch)
<1>1. seqs \in Seq(Seq(Nat)) /\ Len(seqs) = Len(batch)
  BY FramingsAre, Zenon
<1>2. PICK flat : Flattens(seqs, Nat, flat) /\ FlattenSeq(seqs) = flat[Len(seqs)]
  <2> HIDE DEF seqs
  <2> QED BY <1>1, FlattenIs, Zenon
<1>3. Batch!FlattenSeq(seqs) = FlattenSeq(seqs)
  BY Zenon DEF Batch!FlattenSeq, FlattenSeq
<1>4. bytes = Batch!Field(Len(batch), 4) \o Batch!FlattenSeq(seqs)
  BY DEF Batch!serialize, Framings
<1>5. Batch!Cut(flat[Len(batch)]) = Frames(batch)
  BY <1>2, CutFrames, Zenon
<1> HIDE DEF seqs
<1>6. PICK n \in Nat : n = Len(batch)
  OBVIOUS
<1>7. PICK whole \in Seq(Nat) : whole = flat[Len(batch)] /\ whole = Batch!FlattenSeq(seqs)
  <2>1. Len(seqs) \in 0 .. Len(seqs)
    BY <1>1
  <2>2. flat[Len(seqs)] \in Seq(Nat)
    BY <1>2, <2>1 DEF Flattens
  <2> QED BY <1>1, <1>2, <1>3, <2>2, Zenon
<1>8. 4 \in Nat \ {0} /\ 4 \in Nat
  OBVIOUS
<1>9. PICK h \in Seq(Nat) : h = Batch!Field(n, 4) /\ Len(h) = 4 /\ h[1] = n
  BY <1>6, <1>8, FieldIs, Zenon DEF IsField
<1>10. PICK l \in Nat : l = Len(whole)
  OBVIOUS
<1>11. PICK s \in Seq(Nat) : Joins(h, 4, whole, l, s)
  BY <1>8, <1>9, <1>10, JoinedIs, Zenon
<1>12. /\ s = h \o whole /\ Len(s) = 4 + l
       /\ \A i \in 1 .. 4 : s[i] = h[i]
       /\ \A i \in 1 .. l : s[4 + i] = whole[i]
  BY <1>11, Zenon DEF Joins
<1>13. bytes = s
  BY <1>4, <1>6, <1>7, <1>9, <1>12, Zenon
<1>14. s[1] = n
  <2> PICK i \in 1 .. 4 : i = 1
    OBVIOUS
  <2>1. s[i] = h[i]
    BY <1>12
  <2> QED BY <1>9, <2>1
<1>15. SubSeq(s, 5, Len(s)) = whole
  <2>1. 4 + l <= Len(s) /\ 4 + 1 = 5
    BY <1>12
  <2>2. PICK p \in Seq(Nat) : Piece(s, 4, l, p)
    BY <1>8, <1>10, <2>1, PieceIs, Zenon
  <2>3. p = SubSeq(s, 4 + 1, 4 + l) /\ Len(p) = l /\ \A i \in 1 .. l : p[i] = s[4 + i]
    BY <2>2, Zenon DEF Piece
  <2>4. \A i \in 1 .. l : p[i] = whole[i]
    BY <1>12, <2>3
  <2>5. p = whole
    BY <1>10, <2>2, <2>3, <2>4, SameElements, Zenon
  <2> QED BY <1>12, <2>1, <2>3, <2>5
<1> QED BY <1>5, <1>6, <1>7, <1>13, <1>14, <1>15, Zenon

\* The receiver finds every entry of a batch in its place, unaltered if its name
\* is shorter than the uint16_t's range, whatever names are next to it.
THEOREM MCReceiverRecovers == MCSpec => []ReceiverRecovers
<1>1. BatchInv => Batch!ReceiverRecovers
  <2> SUFFICES ASSUME BatchInv, sent.bytes # <<>> PROVE Batch!ReceiverRecovers
    BY DEF Batch!ReceiverRecovers
  <2> PICK batch \in Seq(Entries) : batch = sent.entries
    BY DEF BatchInv
  <2> PICK bytes : bytes = sent.bytes
    OBVIOUS
  <2>1. bytes = Batch!serialize(batch)
    BY DEF BatchInv
  <2> DEFINE frames == Batch!Cut(SubSeq(bytes, 5, Len(bytes)))
  <2>2. bytes[1] = Len(batch) /\ frames = Frames(batch)
    BY <2>1, ReceiverFinds, Zenon
  <2> HIDE DEF frames
  <2>3. /\ Len(frames) = Len(batch) /\ DOMAIN frames = 1 .. Len(batch)
        /\ \A i \in 1 .. Len(batch) : frames[i] = Batch!Frame(batch[i])
    <3> DEFINE G(i) == Batch!Frame(batch[i])
    <3>1. frames = [i \in 1 .. Len(batch) |-> G(i)]
      BY <2>2 DEF Frames
    <3> HIDE DEF G
    <3>2. /\ Len(frames) = Len(batch) /\ DOMAIN frames = 1 .. Len(batch)
          /\ \A i \in 1 .. Len(batch) : frames[i] = G(i)
      BY <3>1
    <3> QED BY <3>2 DEF G
  <2>4. ASSUME NEW i \in DOMAIN frames, Len(batch[i].name) < NameWrap
        PROVE  Batch!Parse(frames[i]) = batch[i]
    <3>1. batch[i] \in Entries /\ ShortName(batch[i])
      BY <2>3, <2>4 DEF ShortName
    <3> QED BY <2>3, <2>4, <3>1, ParseIs, Zenon
  <2> QED BY <2>2, <2>3, <2>4, Zenon DEF Batch!ReceiverRecovers, frames
<1> QED BY <1>1, BatchAlways, PTL DEF ReceiverRecovers
=============================================================================
