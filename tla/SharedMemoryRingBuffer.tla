----------------------- MODULE SharedMemoryRingBuffer -----------------------
(***************************************************************************)
(* The named shared-memory ring buffer of include/shared_memory.hpp, with  *)
(* one writing and one reading process.  Each message is stored as a       *)
(* length prefix of LenSize bytes followed by its payload; both cursors    *)
(* are offsets that wrap at BufferSize.                                    *)
(*                                                                         *)
(* A process may leave or crash between any two steps and attach again.    *)
(* Windows destroys the mapping with its last handle and hands out a new   *)
(* one filled with zeros.  Loads and stores of the header are single       *)
(* steps (they are atomics with acquire and release order), and a memcpy   *)
(* moves one byte a step, so a torn copy is visible.                       *)
(***************************************************************************)
EXTENDS Integers, Sequences

CONSTANTS
  BufferSize,   \* template parameter, bytes in the ring
  LenSize,      \* sizeof(uint32_t), bytes of a length prefix
  Messages,     \* the messages a writer may pass to write()
  Size,         \* the length in bytes of each message
  ReadCaps,     \* the buffer lengths a reader may pass to read()
  Creators      \* the processes that construct with create = true

Procs == {"writer", "reader"}

ASSUME RingAssumption ==
  /\ BufferSize \in Nat \ {0}
  /\ LenSize \in Nat \ {0}
  /\ Messages # {}
  /\ Size \in [Messages -> Nat]
  /\ ReadCaps \subseteq Nat
  /\ Creators \subseteq Procs

VARIABLES
  write_pos, read_pos,  \* Header: where the next byte goes, comes from
  data_buffer,          \* the bytes behind the header
  pc,                   \* for each process, the step it is at
  w,                    \* locals of write(): message, position, bytes copied
  r,                    \* locals of read(): positions, buffer length, bytes
  queue,                \* history: messages accepted, not yet delivered
  got                   \* history: bytes the last successful read() returned

vars == <<write_pos, read_pos, data_buffer, pc, w, r, queue, got>>
-----------------------------------------------------------------------------
Offsets == 0 .. BufferSize - 1
Advance(pos, n) == (pos + n) % BufferSize
RecordLen(m) == LenSize + Size[m]

\* Byte k of the record of message m; a fresh mapping holds zeros.
ByteOf(m, k) == <<m, k>>
Zero == <<>>
Bytes == {Zero} \union (Messages \X Nat)
Prefix(m) == [k \in 1 .. LenSize |-> ByteOf(m, k)]
Payload == [m \in Messages |-> [k \in 1 .. Size[m] |-> ByteOf(m, LenSize + k)]]

\* The length a prefix encodes; bytes of different prefixes make any number
\* (the bound is BufferSize).
Decodes(prefix) ==
  IF \E m \in Messages : prefix = Prefix(m)
    THEN {Size[m] : m \in {x \in Messages : prefix = Prefix(x)}}
    ELSE 0 .. BufferSize

\* The room write() computes from the positions it loaded.
SwappedAvailableWrite(wp, rp) ==
  IF rp <= wp THEN wp - rp ELSE BufferSize - (rp - wp)                  \* mutant
AvailableWrite(wp, rp) == IF rp <= wp THEN BufferSize - (wp - rp) ELSE rp - wp

Attached(p) == pc[p] # "gone"
Mapped == \E p \in Procs : Attached(p)
NoWrite == [msg |-> CHOOSE m \in Messages : TRUE, pos |-> 0, done |-> 0]
NoRead == [limit |-> 0, pos |-> 0, cap |-> 0, len |-> 0, buf |-> <<>>]

Goto(p, from, to) == pc[p] = from /\ pc' = [pc EXCEPT ![p] = to]

Blank == [o \in Offsets |-> Zero]

Init ==
  /\ write_pos = 0
  /\ read_pos = 0
  /\ data_buffer = Blank
  /\ queue = <<>>
  /\ pc = [p \in Procs |-> "gone"]
  /\ w = NoWrite
  /\ r = NoRead
  /\ got = <<>>
-----------------------------------------------------------------------------
\* Constructor: CreateFileMapping finds the mapping or makes it (only then
\* is_creator); OpenFileMapping throws when there is none.
Attach(p) ==
  /\ p \in Creators \/ Mapped
  /\ Goto(p, "gone", IF Mapped THEN "idle" ELSE "init_write_pos")
  /\ UNCHANGED <<write_pos, read_pos, data_buffer, w, r, queue, got>>

InitWritePos(p) ==
  /\ Goto(p, "init_write_pos", "init_read_pos")
  /\ write_pos' = 0
  /\ UNCHANGED <<read_pos, data_buffer, w, r, queue, got>>

InitReadPos(p) ==
  /\ Goto(p, "init_read_pos", "idle")
  /\ read_pos' = 0
  /\ UNCHANGED <<write_pos, data_buffer, w, r, queue, got>>

\* Destructor, or a crash anywhere in a call.
Detach(p) ==
  /\ Attached(p)
  /\ pc' = [pc EXCEPT ![p] = "gone"]
  /\ w' = IF p = "writer" THEN NoWrite ELSE w
  /\ r' = IF p = "reader" THEN NoRead ELSE r
  /\ IF \E q \in Procs \ {p} : Attached(q)
       THEN UNCHANGED <<write_pos, read_pos, data_buffer, queue>>
       ELSE /\ write_pos' = 0
            /\ read_pos' = 0
            /\ data_buffer' = Blank
            /\ queue' = <<>>
  /\ UNCHANGED got
-----------------------------------------------------------------------------
\* write(): a message above half the buffer is refused at once.
WriteLoadOwn(m) ==
  /\ Size[m] <= BufferSize \div 2
  /\ Goto("writer", "idle", "load_read_pos")
  /\ w' = [msg |-> m, pos |-> write_pos, done |-> 0]
  /\ UNCHANGED <<write_pos, read_pos, data_buffer, r, queue, got>>

NoRoomForPrefix(wp, rp, m) == AvailableWrite(wp, rp) >= Size[m]         \* mutant
HasRoom(wp, rp, m) == AvailableWrite(wp, rp) >= RecordLen(m)

WriteLoadOther ==
  /\ \/ /\ HasRoom(w.pos, read_pos, w.msg)
        /\ Goto("writer", "load_read_pos", "copy")
        /\ w' = w
     \/ /\ ~HasRoom(w.pos, read_pos, w.msg)
        /\ Goto("writer", "load_read_pos", "idle")
        /\ w' = NoWrite
  /\ UNCHANGED <<write_pos, read_pos, data_buffer, r, queue, got>>

WriteByte ==
  /\ pc["writer"] = "copy"
  /\ w.done < RecordLen(w.msg)
  /\ data_buffer' = [data_buffer EXCEPT
                       ![Advance(w.pos, w.done)] = ByteOf(w.msg, w.done + 1)]
  /\ w' = [w EXCEPT !.done = @ + 1]
  /\ UNCHANGED <<write_pos, read_pos, pc, r, queue, got>>

WriteStore ==
  /\ w.done = RecordLen(w.msg)
  /\ Goto("writer", "copy", "idle")
  /\ write_pos' = Advance(w.pos, RecordLen(w.msg))
  /\ w' = NoWrite
  /\ queue' = Append(queue, [msg |-> w.msg, at |-> w.pos])
  /\ UNCHANGED <<read_pos, data_buffer, r, got>>
-----------------------------------------------------------------------------
\* read(): write_pos is loaded first and is stale from then on.
ReadLoadOther(cap) ==
  /\ Goto("reader", "idle", "load_read_pos")
  /\ r' = [NoRead EXCEPT !.limit = write_pos, !.cap = cap]
  /\ UNCHANGED <<write_pos, read_pos, data_buffer, w, queue, got>>

\* Mutant: no check for an empty ring.
ReadLoadOwnUnchecked ==
  /\ Goto("reader", "load_read_pos", "prefix")
  /\ r' = [r EXCEPT !.pos = read_pos]
  /\ UNCHANGED <<write_pos, read_pos, data_buffer, w, queue, got>>

ReadLoadOwn ==
  /\ \/ /\ read_pos # r.limit
        /\ Goto("reader", "load_read_pos", "prefix")
        /\ r' = [r EXCEPT !.pos = read_pos]
     \/ /\ read_pos = r.limit
        /\ Goto("reader", "load_read_pos", "idle")
        /\ r' = NoRead
  /\ UNCHANGED <<write_pos, read_pos, data_buffer, w, queue, got>>

\* Bytes read_wrapped has still to copy: the prefix first, then the payload.
OneTooMany == 1 + IF pc["reader"] = "prefix" THEN LenSize ELSE LenSize + r.len \* mutant
ToCopy == IF pc["reader"] = "prefix" THEN LenSize ELSE LenSize + r.len

ReadByte ==
  /\ pc["reader"] \in {"prefix", "payload"}
  /\ Len(r.buf) < ToCopy
  /\ r' = [r EXCEPT !.buf = Append(@, data_buffer[Advance(r.pos, Len(@))])]
  /\ UNCHANGED <<write_pos, read_pos, data_buffer, pc, w, queue, got>>

\* A message longer than the caller's buffer stays where it is.
ReadLength ==
  /\ Len(r.buf) = LenSize
  /\ \E n \in Decodes(r.buf) :
       \/ /\ n <= r.cap
          /\ Goto("reader", "prefix", "payload")
          /\ r' = [r EXCEPT !.len = n]
       \/ /\ n > r.cap
          /\ Goto("reader", "prefix", "idle")
          /\ r' = NoRead
  /\ UNCHANGED <<write_pos, read_pos, data_buffer, w, queue, got>>

\* What the caller finds in its buffer; the mutant starts at the prefix.
FromPrefix == SubSeq(r.buf, 1, r.len)
Delivered == SubSeq(r.buf, LenSize + 1, LenSize + r.len)

ReadStore ==
  /\ Len(r.buf) = ToCopy
  /\ Goto("reader", "payload", "idle")
  /\ read_pos' = Advance(r.pos, LenSize + r.len)
  /\ r' = NoRead
  /\ got' = Delivered
  /\ queue' = IF queue = <<>> THEN <<>> ELSE Tail(queue)
  /\ UNCHANGED <<write_pos, data_buffer, w>>
-----------------------------------------------------------------------------
\* The owners of the two ends decide on calls; the rest of a call is the code's.
WriterCalls == \E m \in Messages : WriteLoadOwn(m)
ReaderCalls == \E cap \in ReadCaps : ReadLoadOther(cap)

InWrite == WriteLoadOther \/ WriteByte \/ WriteStore
InRead == ReadLoadOwn \/ ReadByte \/ ReadLength \/ ReadStore
InitHeader == \E p \in Procs : InitWritePos(p) \/ InitReadPos(p)

Next ==
  \/ \E p \in Procs : Attach(p) \/ Detach(p)
  \/ InitHeader
  \/ WriterCalls \/ InWrite
  \/ ReaderCalls \/ InRead

Spec == Init /\ [][Next]_vars

\* A process inside a call is scheduled again; nothing obliges it to call.
FairSpec == Spec /\ WF_vars(InWrite) /\ WF_vars(InRead) /\ WF_vars(InitHeader)
-----------------------------------------------------------------------------
Stored == [msg : Messages, at : Offsets]
LocalsOfWrite == [msg : Messages, pos : Offsets, done : Nat]
LocalsOfRead ==
  [limit : Offsets, pos : Offsets, cap : Nat, len : Nat, buf : Seq(Bytes)]

\* Every cursor and local stays in the range its C++ type and use give it.
TypeOK ==
  /\ write_pos \in Offsets
  /\ read_pos \in Offsets
  /\ data_buffer \in [Offsets -> Bytes]
  /\ pc \in [Procs -> {"gone", "init_write_pos", "init_read_pos", "idle",
                       "load_read_pos", "copy", "prefix", "payload"}]
  /\ pc["writer"] \notin {"prefix", "payload"} /\ pc["reader"] # "copy"
  /\ w \in LocalsOfWrite
  /\ r \in LocalsOfRead
  /\ Len(r.buf) <= LenSize + r.len
  /\ queue \in Seq(Stored)
  /\ got \in Seq(Bytes)

\* No message a write() accepted is damaged while it waits to be read, by a
\* later write or by a crash: each still has its length prefix and all of its
\* payload in the ring (write, read_wrapped).
RecordsIntact ==
  \A i \in DOMAIN queue : \A k \in 1 .. RecordLen(queue[i].msg) :
    data_buffer[Advance(queue[i].at, k - 1)] = ByteOf(queue[i].msg, k)

\* What a read() has copied so far is always the beginning of the oldest
\* accepted message, although it copies without a lock while the writer fills
\* other bytes of the ring (read, lines 121-133).
NoTornRead ==
  pc["reader"] \in {"prefix", "payload"} =>
    /\ queue # <<>>
    /\ \A k \in DOMAIN r.buf : r.buf[k] = ByteOf(Head(queue).msg, k)
    /\ pc["reader"] = "payload" => r.len = Size[Head(queue).msg]

\* read() and is_empty() take equal cursors to mean that the ring is empty
\* ("// Leer", line 119).
EqualCursorsMeanEmpty == write_pos = read_pos => queue = <<>>

\* The program is written for the behaviours in which no write takes exactly the
\* room that is left: one that does leaves equal cursors behind (line 99).
NeverFillsExactly == [][WriteStore => write_pos' # read_pos]_vars

Promise == INSTANCE MessageQueue WITH
  queue <- [i \in DOMAIN queue |-> queue[i].msg],
  attached <- {p \in Procs : Attached(p)}

\* The two processes see a FIFO of whole messages: each accepted message is
\* delivered once, in order and unaltered, and crashes of one side lose none.
DeliversInOrder == Promise!Spec

\* Full and empty never wedge the pair: of a writer and a reader that stay
\* attached and call again and again, whatever was refused before, one's write()
\* and the other's read() keep succeeding, if the buffers that the reader brings
\* are large enough for what it finds (lines 99 and 119).
BufferSuffices ==
  queue # <<>> /\ pc["reader"] = "prefix" => Size[Head(queue).msg] <= r.cap
KeepsMoving ==
  /\ <>[](BufferSuffices /\ \A p \in Procs : Attached(p))
  /\ []<><<WriterCalls>>_vars /\ []<><<ReaderCalls>>_vars
  => []<><<WriteStore>>_vars /\ []<><<ReadStore>>_vars
=============================================================================
