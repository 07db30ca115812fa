-------------------------- MODULE PayloadCompression --------------------------
(***************************************************************************)
(* payload_compression.hpp: the run-length and the dictionary coder, and   *)
(* the choice between them, as functions on sequences of bytes.  A byte is *)
(* two nibbles; everything that is derived from 0x0F, 0x7F, 0x80 and 0xFF  *)
(* in the code is derived from Nibble here.                                *)
(***************************************************************************)
EXTENDS Integers, Sequences, SequencesExt

CONSTANTS
  Nibble,       \* number of values of half a byte, 16 in the code
  MinSize       \* what compress_auto looks at, 64 in the code

\* A byte has a top bit, and the bits below it in its nibble.
ASSUME NibbleAssumption == Nibble \in Nat \ {0} /\ Nibble % 2 = 0

Byte == Nibble * Nibble
High == Byte \div 2
Escape == Byte - 1

Repeat(value, n) == [i \in 1 .. n |-> value]

\* What a coder's loop over n bytes puts out: at each index it comes by it
\* appends the bytes of the token there and goes on behind what the token
\* stands for.
PutOut(n, tokens) ==
  LET from[i \in 1 .. n + 1] ==
        IF i > n THEN <<>>
        ELSE LET token == tokens[i] IN token.bytes \o from[i + token.length]
  IN  from[1]

TokenOf(bytes, length) == [bytes |-> bytes, length |-> length]
-----------------------------------------------------------------------------
\* SimpleCompressor.  run_length of the byte at i, at most 255.
RunLength(data, i) ==
  CHOOSE n \in 1 .. Len(data) - i + 1 :
    /\ n <= Escape
    /\ \A k \in 0 .. n - 1 : data[i + k] = data[i]
    /\ n = Escape \/ i + n = Len(data) + 1 \/ data[i + n] # data[i]

UnescapedLiteral(b) == <<b>>                                            \* mutant
RleLiteral(b) == IF b = Escape THEN <<Escape, 0>> ELSE <<b>>

RleToken(data, i) ==
  LET n == RunLength(data, i)
  IN  IF n >= 3 THEN TokenOf(<<Escape, n, data[i]>>, n) ELSE TokenOf(RleLiteral(data[i]), 1)

RleCompress(data) == PutOut(Len(data), [i \in DOMAIN data |-> RleToken(data, i)])

\* An escape without its operands is skipped.
RleMeaning(data, i) ==
  IF data[i] # Escape THEN TokenOf(<<data[i]>>, 1)
  ELSE IF i + 1 <= Len(data) /\ data[i + 1] = 0 THEN TokenOf(<<Escape>>, 2)
  ELSE IF i + 2 <= Len(data) THEN TokenOf(Repeat(data[i + 2], data[i + 1]), 3)
  ELSE TokenOf(<<>>, 1)

RleDecompress(data) == PutOut(Len(data), [i \in DOMAIN data |-> RleMeaning(data, i)])
-----------------------------------------------------------------------------
\* DictionaryCompressor.
Window == Byte * Nibble
MinMatch == 3
MaxMatch == MinMatch + Nibble - 1

MatchLen(data, i, pos) ==
  CHOOSE n \in 0 .. MaxMatch :
    /\ pos + n <= Len(data) + 1
    /\ \A k \in 0 .. n - 1 : data[i + k] = data[pos + k]
    /\ n = MaxMatch \/ pos + n = Len(data) + 1 \/ data[i + n] # data[pos + n]

\* The longest match in the window, and of those the one that lies furthest
\* back.  A match may run on into what it is a match for.
find_match(data, pos) ==
  LET starts == (IF pos > Window THEN pos - Window ELSE 1) .. pos - 1
      long == {i \in starts : MatchLen(data, i, pos) >= MinMatch}
      best == CHOOSE i \in long : \A j \in long :
                \/ MatchLen(data, i, pos) > MatchLen(data, j, pos)
                \/ MatchLen(data, i, pos) = MatchLen(data, j, pos) /\ i <= j
  IN  IF long = {} THEN [offset |-> 0, length |-> 0]
      ELSE [offset |-> pos - best, length |-> MatchLen(data, best, pos)]

\* [1][offset:12bit][length:4bit], in three bytes.
\* Mutant: the length is stored as it is.
TokenFullLength(m) ==
  <<High + ((m.offset \div Byte) % Nibble), m.offset % Byte, m.length % Nibble>>
Token(m) ==
  <<High + ((m.offset \div Byte) % Nibble), m.offset % Byte, (m.length - MinMatch) % Nibble>>

\* data[pos] & 0x7F.
Literal(b) == b % High

DictToken(data, pos) ==
  LET m == find_match(data, pos)
  IN  IF m.length >= MinMatch THEN TokenOf(Token(m), m.length)
      ELSE TokenOf(<<Literal(data[pos])>>, 1)

DictCompress(data) == PutOut(Len(data), [pos \in DOMAIN data |-> DictToken(data, pos)])

\* A byte read from behind the vector, or from before it, is no byte at all;
\* a match that is cut off leaves i where it is, for ever.
Undefined == Byte
Diverges == <<-1>>

\* n bytes more, each a copy of the one that lies offset bytes before it.
CopyOut(out, offset, n) ==
  LET copy[k \in 1 .. n] ==
        IF offset \in 1 .. k - 1 THEN copy[k - offset]
        ELSE IF offset \in k .. Len(out) + k - 1 THEN out[Len(out) + k - offset]
        ELSE Undefined
  IN  out \o copy

\* One round of the decoder's loop.
DictRound(data, s) ==
  IF s.i > Len(data) THEN s
  ELSE IF data[s.i] < High THEN [i |-> s.i + 1, out |-> Append(s.out, data[s.i])]
  ELSE IF s.i + 2 > Len(data) THEN s
  ELSE LET offset == (data[s.i] % Nibble) * Byte + data[s.i + 1]
           length == (data[s.i + 2] % Nibble) + MinMatch
       IN  [i |-> s.i + 3, out |-> CopyOut(s.out, offset, length)]

DictDecompress(data) ==
  LET after[k \in 0 .. Len(data)] ==
        IF k = 0 THEN [i |-> 1, out |-> <<>>] ELSE DictRound(data, after[k - 1])
      end == after[Len(data)]
  IN  IF end.i > Len(data) THEN end.out ELSE Diverges
-----------------------------------------------------------------------------
\* PayloadCompressor: the smaller result, if it saves more than a tenth.
Saves(new, old) == 10 * new < 9 * old

compress_auto(data) ==
  LET rle == RleCompress(data)
      dict == DictCompress(data)
  IN  IF Len(data) < MinSize THEN [bytes |-> data, method |-> "None"]
      ELSE IF Len(rle) < Len(dict) /\ Saves(Len(rle), Len(data))
        THEN [bytes |-> rle, method |-> "RLE"]
      ELSE IF Saves(Len(dict), Len(data)) THEN [bytes |-> dict, method |-> "Dictionary"]
      ELSE [bytes |-> data, method |-> "None"]

decompress(data, method) ==
  CASE method = "RLE" -> RleDecompress(data)
    [] method = "Dictionary" -> DictDecompress(data)
    [] OTHER -> data
-----------------------------------------------------------------------------
\* Run-length coding is undone exactly, whatever the bytes: runs longer than
\* the count can hold, escapes among the data, in every combination.
RleRestores(data) == RleDecompress(RleCompress(data)) = data

\* The dictionary coder ends and gives back as many bytes as there were, and
\* the same bytes up to their top bit, however long data is, unless it has a match
\* a whole window back, whose offset does not fit into its 12 bits.
Restorable(data) == \A pos \in DOMAIN data : find_match(data, pos).offset < Window
DictRestores(data) ==
  LET restored == DictDecompress(DictCompress(data))
  IN  /\ Len(restored) = Len(data)
      /\ Restorable(data) => restored = [i \in DOMAIN data |-> Literal(data[i])]
=============================================================================
