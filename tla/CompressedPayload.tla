--------------------------- MODULE CompressedPayload ---------------------------
(***************************************************************************)
(* CompressedPayloadBuilder over BinaryPayloadBuilder: a builder makes     *)
(* payloads, a lossy link carries them, a receiver decodes their headers   *)
(* and decompresses them.  The link and the receiver's bookkeeping are not *)
(* part of the repository: they are what the header's fields are for.  A   *)
(* payload is its header, its method byte and the bytes after them.        *)
(***************************************************************************)
EXTENDS PayloadCompression

CONSTANTS
  Variables,    \* what may be sent: records of name, type and data, in bytes
  Times,        \* values of the clock
  MaxVars,      \* bound: variables in a batch
  MaxWire,      \* bound: payloads on the link
  SingleMin,    \* threshold of create_single_compressed, 128 in the code
  BatchMin,     \* threshold of create_batch_compressed, 256 in the code
  CountWrap,    \* values of variable_count, 2^16 in the code
  SeqWrap       \* values of sequence_number, 2^32 in the code

ASSUME PayloadAssumption ==
  /\ \A v \in Variables :
       /\ v.name \in Seq(0 .. Byte - 1) /\ v.data \in Seq(0 .. Byte - 1)
       /\ v.type \in 0 .. Byte - 1
  /\ Times \subseteq Nat
  /\ MaxVars \in Nat /\ MaxWire \in Nat
  /\ CountWrap \in Nat \ {0} /\ SeqWrap \in Nat \ {0}

VARIABLES
  enabled,            \* enable_compression
  sequence_counter,
  wire,               \* payloads on the link, each with its uncompressed form
  expected,           \* receiver: the number after the last one received
  lost                \* history: payloads lost since then

vars == <<enabled, sequence_counter, wire, expected, lost>>

Init ==
  /\ enabled \in BOOLEAN
  /\ sequence_counter = 0
  /\ wire = <<>>
  /\ expected = 0
  /\ lost = 0
-----------------------------------------------------------------------------
HeaderSize == 20      \* packed BinaryPayloadHeader

LittleEndian(n, width) ==
  LET rest[i \in 1 .. width] == IF i = 1 THEN n ELSE rest[i - 1] \div Byte
  IN  [i \in 1 .. width |-> rest[i] % Byte]

\* A packed VariableHeader, the name and the data.
VariableBytes(v, time) ==
  LittleEndian(Len(v.name), 2) \o <<v.type>> \o LittleEndian(Len(v.data), 4)
    \o LittleEndian(time, 8) \o v.name \o v.data

Payload(type, variables, time, seq) ==
  LET body == FlattenSeq([i \in DOMAIN variables |-> VariableBytes(variables[i], time)])
  IN  [header |-> [version |-> 1, type |-> type, variable_count |-> Len(variables) % CountWrap,
                   total_size |-> HeaderSize + Len(body), timestamp |-> time,
                   sequence_number |-> seq],
       method |-> "absent", bytes |-> body]

\* create_single and create_batch; get_timestamp_us() is taken not to advance
\* within one of them.
create_single(v, time) == Payload("Single", <<v>>, time, sequence_counter)
create_batch(variables, time) == Payload("Batch", variables, time, sequence_counter)
-----------------------------------------------------------------------------
Size(p) == HeaderSize + (IF p.method = "absent" THEN 0 ELSE 1) + Len(p.bytes)

\* The method byte counts.  Mutant: it is forgotten.
CompressedSizeNoMethod(bytes) == HeaderSize + Len(bytes)
CompressedSize(bytes) == HeaderSize + 1 + Len(bytes)

Compressed(p, threshold) ==
  LET result == compress_auto(p.bytes)
  IN  IF ~enabled \/ Size(p) < threshold \/ result.method = "None" THEN p
      ELSE [header |-> [p.header EXCEPT !.type = "Compressed",
                                        !.total_size = CompressedSize(result.bytes)],
            method |-> result.method, bytes |-> result.bytes]

Send(original, p) == wire' = Append(wire, [original |-> original, payload |-> p])

create_single_compressed ==
  /\ Len(wire) < MaxWire
  /\ \E v \in Variables, t \in Times :
       LET p == create_single(v, t) IN Send(p, Compressed(p, SingleMin))
  /\ sequence_counter' = (sequence_counter + 1) % SeqWrap
  /\ UNCHANGED <<enabled, expected, lost>>

\* Mutant: the payload is built again when compression is off.
create_batch_twice ==
  /\ Len(wire) < MaxWire
  /\ \E n \in 0 .. MaxVars, t \in Times : \E variables \in [1 .. n -> Variables] :
       LET p == create_batch(variables, t) IN Send(p, Compressed(p, BatchMin))
  /\ sequence_counter' = (sequence_counter + IF enabled THEN 1 ELSE 2) % SeqWrap
  /\ UNCHANGED <<enabled, expected, lost>>

\* Its second test, for a tenth saved, repeats compress_auto's.
create_batch_compressed ==
  /\ Len(wire) < MaxWire
  /\ \E n \in 0 .. MaxVars, t \in Times : \E variables \in [1 .. n -> Variables] :
       LET p == create_batch(variables, t) IN Send(p, Compressed(p, BatchMin))
  /\ sequence_counter' = (sequence_counter + 1) % SeqWrap
  /\ UNCHANGED <<enabled, expected, lost>>

set_compression_enabled ==
  /\ enabled' = ~enabled
  /\ UNCHANGED <<sequence_counter, wire, expected, lost>>
-----------------------------------------------------------------------------
\* The receiver's own count of what was lost, modulo SeqWrap, is right only
\* up to SeqWrap - 1 losses in a row: the bound.
Lose ==
  /\ wire # <<>> /\ lost < SeqWrap - 1
  /\ wire' = Tail(wire)
  /\ lost' = lost + 1
  /\ UNCHANGED <<enabled, sequence_counter, expected>>

decode_header(p) == p.header.version = 1

Receive ==
  /\ wire # <<>>
  /\ decode_header(Head(wire).payload)
  /\ wire' = Tail(wire)
  /\ expected' = (Head(wire).payload.header.sequence_number + 1) % SeqWrap
  /\ lost' = 0
  /\ UNCHANGED <<enabled, sequence_counter>>

\* decompress_payload(): whatever was compressed comes back as a batch.
decompress_payload(p) ==
  IF Size(p) < HeaderSize + 1 \/ p.header.type # "Compressed" THEN p
  ELSE LET bytes == decompress(p.bytes, p.method)
       IN  [header |-> [p.header EXCEPT !.type = "Batch",
                                        !.total_size = HeaderSize + Len(bytes)],
            method |-> "absent", bytes |-> bytes]

Next ==
  \/ create_single_compressed \/ create_batch_compressed \/ set_compression_enabled
  \/ Lose \/ Receive

Spec == Init /\ [][Next]_vars
-----------------------------------------------------------------------------
TypeOK ==
  /\ enabled \in BOOLEAN
  /\ sequence_counter \in 0 .. SeqWrap - 1 /\ expected \in 0 .. SeqWrap - 1
  /\ lost \in 0 .. SeqWrap - 1
  /\ Len(wire) <= MaxWire
  /\ \A i \in DOMAIN wire :
       \A b \in {wire[i].payload.bytes[k] : k \in DOMAIN wire[i].payload.bytes} : b \in 0 .. Byte - 1

\* A compressed payload says how long it is, is never longer than what it
\* stands for, and decompresses to as many bytes under the same header: the
\* same bytes after run-length coding, the same up to each byte's top bit after
\* dictionary coding (see DictRestores).  What was compressed has become a batch
\* (line 143), and nothing else has.
PayloadRestored ==
  \A i \in DOMAIN wire :
    LET p == wire[i].payload
        original == wire[i].original
        restored == decompress_payload(p)
    IN  /\ p.header.total_size = Size(p) /\ Size(p) <= Size(original)
        /\ restored.header = IF p.method = "absent" THEN original.header
                              ELSE [original.header EXCEPT !.type = "Batch"]
        /\ Len(restored.bytes) = Len(original.bytes)
        /\ CASE p.method # "Dictionary" -> restored.bytes = original.bytes
             [] OTHER -> Restorable(original.bytes) =>
                  restored.bytes = [k \in DOMAIN original.bytes |-> Literal(original.bytes[k])]

\* "Sequence fuer Lost-Detection" (BinaryPayloadHeader): the gap before the next
\* sequence number is the number of payloads that were lost, whatever mixture of
\* single and batch payloads, compressed or not, was sent.
LossesShow ==
  [][Receive => (Head(wire).payload.header.sequence_number - expected) % SeqWrap = lost]_vars

\* "Dekomprimiert Payload" (decompress_payload): what comes back is what went in.
BytesComeBack ==
  \A i \in DOMAIN wire :
    decompress_payload(wire[i].payload).bytes = wire[i].original.bytes
=============================================================================
