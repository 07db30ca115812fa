----------------------------- MODULE VariableBatch -----------------------------
(***************************************************************************)
(* VariableBatch: a caller adds variables, and when it is told to, sends   *)
(* what serialize() returns and calls clear(), as examples/example.cpp:119 *)
(* -125 does.  Fields are little-endian and their values fit into the      *)
(* first byte; the bytes of names and values tell the entries apart.  The  *)
(* receiver is not part of the repository: it is the format comment above  *)
(* serialize(), read literally.                                            *)
(***************************************************************************)
EXTENDS Integers, Sequences, SequencesExt

CONSTANTS
  NameSizes,    \* sizes of the variables' names
  DataSizes,    \* sizes of their values
  NameWrap,     \* number of values of the uint16_t name_len, 2^16 in the code
  MaxBatch,     \* max_batch_size
  Timeout,      \* batch_timeout, in ticks
  Numbers       \* bound: number of entries that are told apart

VARIABLES
  entries,      \* the batch; each entry has a number
  age,          \* time since last_flush, no further than Timeout
  full,         \* what the latest add_variable() returned
  next,         \* number of the next entry
  sent          \* history: the batch that was sent last

vars == <<entries, age, full, next, sent>>

Init ==
  /\ entries = <<>>
  /\ age = 0
  /\ full = FALSE
  /\ next = 0
  /\ sent = [entries |-> <<>>, bytes |-> <<>>]

Entry(id, name, data) ==
  [name |-> [i \in 1 .. name |-> 10 * (id + 1) + i],
   time |-> id,
   data |-> [i \in 1 .. data |-> 100 * (id + 1) + i]]
-----------------------------------------------------------------------------
Field(value, width) == <<value>> \o [i \in 1 .. width - 1 |-> 0]

Narrow(n) == n % NameWrap

\* [name_len:2][name][timestamp:8][data_len:4][data]
Frame(e) ==
  Field(Narrow(Len(e.name)), 2) \o e.name \o Field(e.time, 8)
    \o Field(Len(e.data), 4) \o e.data

\* entry_len is written back when the entry is complete.
\* Mutant: its own four bytes are counted too.
FramedWithLength(e) == Field(Len(Frame(e)) + 4, 4) \o Frame(e)
Framed(e) == Field(Len(Frame(e)), 4) \o Frame(e)

\* [count:4] and the entries.
serialize(batch) ==
  Field(Len(batch), 4) \o FlattenSeq([i \in DOMAIN batch |-> Framed(batch[i])])
-----------------------------------------------------------------------------
NeverFull(batch, elapsed) == elapsed > Timeout                          \* mutant
should_flush(batch, elapsed) == Len(batch) >= MaxBatch \/ elapsed >= Timeout

add_variable ==
  /\ ~full
  /\ \E n \in NameSizes, d \in DataSizes :
       entries' = Append(entries, Entry(next, n, d))
  /\ full' = should_flush(entries', age)
  /\ next' = (next + 1) % Numbers
  /\ UNCHANGED <<age, sent>>

\* Mutant: the batch is not emptied.
FlushKeeps ==
  /\ full
  /\ sent' = [entries |-> entries, bytes |-> serialize(entries)]
  /\ age' = 0
  /\ full' = FALSE
  /\ UNCHANGED <<entries, next>>

\* serialize(), then clear().
Flush ==
  /\ full
  /\ sent' = [entries |-> entries, bytes |-> serialize(entries)]
  /\ entries' = <<>>
  /\ age' = 0
  /\ full' = FALSE
  /\ UNCHANGED next

Tick ==
  /\ age < Timeout
  /\ age' = age + 1
  /\ UNCHANGED <<entries, full, next, sent>>

Next == add_variable \/ Flush \/ Tick

Spec == Init /\ [][Next]_vars
-----------------------------------------------------------------------------
TypeOK ==
  /\ age \in 0 .. Timeout
  /\ full \in BOOLEAN
  /\ next \in 0 .. Numbers - 1
  /\ Len(entries) <= MaxBatch

\* A receiver that follows the format comment: it cuts the entries out by
\* their entry_len, as far as the bytes go, then takes each apart.
Cut(bytes) ==
  LET from[i \in 1 .. Len(bytes) + 1] ==
        IF i + 3 > Len(bytes) \/ i + 3 + bytes[i] > Len(bytes) THEN <<>>
        ELSE <<SubSeq(bytes, i + 4, i + 3 + bytes[i])>> \o from[i + 4 + bytes[i]]
  IN  from[1]

Parse(frame) ==
  LET rest == SubSeq(frame, 3 + frame[1], Len(frame))
  IN  [name |-> SubSeq(frame, 3, 2 + frame[1]), time |-> rest[1],
       data |-> SubSeq(rest, 13, 12 + rest[9])]

\* The receiver finds every entry of a batch in its place, and each whose name
\* is shorter than 2^16 unaltered, whatever the names next to it.
ReceiverRecovers ==
  sent.bytes # <<>> =>
    LET frames == Cut(SubSeq(sent.bytes, 5, Len(sent.bytes)))
    IN  /\ sent.bytes[1] = Len(sent.entries) /\ Len(frames) = Len(sent.entries)
        /\ \A i \in DOMAIN frames :
             Len(sent.entries[i].name) < NameWrap => Parse(frames[i]) = sent.entries[i]

\* Each entry is sent once and in the order it was added: the numbers run on
\* through the batch that was sent last and the one that waits.
NoneLostOrRepeated ==
  LET all == sent.entries \o entries
  IN  \A i \in DOMAIN all :
        (all[i].time + Len(all) - i + 1) % Numbers = next
=============================================================================
