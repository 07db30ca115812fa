-------------------- MODULE SharedMemoryRingBufferProofs --------------------
(* Theorems about SharedMemoryRingBuffer, for every value of its constants. *)
EXTENDS SharedMemoryRingBuffer, TLAPS

-----------------------------------------------------------------------------
\* A cursor advanced by a record stays a cursor, and one wrap is enough.
LEMMA AdvanceWraps ==
  ASSUME NEW x \in Offsets, NEW n \in 0 .. BufferSize
  PROVE  /\ Advance(x, n) = IF x + n < BufferSize THEN x + n ELSE x + n - BufferSize
         /\ Advance(x, n) \in Offsets
BY RingAssumption, SMT DEF RingAssumption, Offsets, Advance

LEMMA AdvanceType ==
  ASSUME NEW x \in Offsets, NEW n \in Nat
  PROVE  Advance(x, n) \in Offsets
BY RingAssumption, SMT DEF RingAssumption, Offsets, Advance

LEMMA RecordLenType ==
  ASSUME NEW m \in Messages
  PROVE  RecordLen(m) \in Nat /\ RecordLen(m) >= LenSize /\ Size[m] \in Nat
BY RingAssumption DEF RingAssumption, RecordLen

LEMMA LocalsType ==
  /\ NoWrite \in LocalsOfWrite
  /\ NoRead \in LocalsOfRead
  /\ Len(NoRead.buf) = 0 /\ NoRead.len = 0 /\ NoRead.limit = 0
  /\ Blank \in [Offsets -> Bytes]
<1>1. (CHOOSE m \in Messages : TRUE) \in Messages
  BY RingAssumption DEF RingAssumption
<1>2. 0 \in Offsets
  BY RingAssumption DEF RingAssumption, Offsets
<1>3. Zero \in Bytes
  BY DEF Bytes
<1> QED BY <1>1, <1>2, <1>3 DEF NoWrite, NoRead, Blank, LocalsOfWrite, LocalsOfRead

\* A prefix is read as the length of some message, or as some number.
LEMMA DecodesType ==
  ASSUME NEW prefix, NEW n \in Decodes(prefix)
  PROVE  n \in Nat
BY RingAssumption DEF RingAssumption, Decodes
-----------------------------------------------------------------------------
\* Cursors, bytes and locals keep their types in every interleaving of the two
\* processes, crashes included.
THEOREM TypeCorrect == Spec => []TypeOK
<1>1. Init => TypeOK
  BY RingAssumption, LocalsType DEF RingAssumption, Init, TypeOK, Offsets, Procs, NoRead
<1>2. TypeOK /\ [Next]_vars => TypeOK'
  <2> SUFFICES ASSUME TypeOK, [Next]_vars PROVE TypeOK'
    OBVIOUS
  <2>0. /\ w \in LocalsOfWrite /\ r \in LocalsOfRead /\ queue \in Seq(Stored)
        /\ write_pos \in Offsets /\ read_pos \in Offsets /\ ReadCaps \subseteq Nat
        /\ LenSize \in Nat /\ Len(r.buf) <= LenSize + r.len
    BY RingAssumption DEF RingAssumption, TypeOK
  <2>1. ASSUME NEW p \in Procs, Attach(p) \/ Detach(p) PROVE TypeOK'
    <3>1. CASE Attach(p)
      BY <3>1 DEF Attach, Goto, TypeOK, Procs
    <3>2. CASE Detach(p)
      <4>1. w' \in LocalsOfWrite /\ r' \in LocalsOfRead /\ Len(r'.buf) <= LenSize + r'.len
        BY <3>2, <2>0, LocalsType DEF Detach
      <4>2. write_pos' \in Offsets /\ read_pos' \in Offsets /\ data_buffer' \in [Offsets -> Bytes]
        BY <3>2, <2>0, LocalsType, RingAssumption DEF RingAssumption, Detach, TypeOK, Offsets
      <4>3. queue' \in Seq(Stored)
        <5>1. queue' = queue \/ queue' = <<>>
          BY <3>2 DEF Detach
        <5>2. <<>> \in Seq(Stored)
          OBVIOUS
        <5> QED BY <5>1, <5>2, <2>0
      <4> QED BY <3>2, <4>1, <4>2, <4>3 DEF Detach, TypeOK, Procs
    <3> QED BY <2>1, <3>1, <3>2
  <2>2. ASSUME NEW p \in Procs, InitWritePos(p) \/ InitReadPos(p) PROVE TypeOK'
    BY <2>2, RingAssumption DEF RingAssumption, InitWritePos, InitReadPos, Goto, TypeOK, Procs, Offsets
  <2>3. ASSUME NEW m \in Messages, WriteLoadOwn(m) PROVE TypeOK'
    BY <2>3 DEF WriteLoadOwn, Goto, TypeOK, LocalsOfWrite, Procs
  <2>4. CASE WriteLoadOther
    BY <2>4, LocalsType DEF WriteLoadOther, Goto, TypeOK, Procs
  <2>5. CASE WriteByte
    <3>0. w.msg \in Messages /\ w.pos \in Offsets /\ w.done \in Nat
      BY DEF TypeOK, LocalsOfWrite
    <3>1. Advance(w.pos, w.done) \in Offsets /\ ByteOf(w.msg, w.done + 1) \in Bytes
      BY <3>0, AdvanceType DEF ByteOf, Bytes
    <3>2. data_buffer' \in [Offsets -> Bytes]
      BY <2>5, <3>1 DEF WriteByte, TypeOK
    <3>3. w' \in LocalsOfWrite
      <4>1. w' = [w EXCEPT !.done = w.done + 1]
        BY <2>5 DEF WriteByte
      <4> QED BY <4>1, <2>0 DEF LocalsOfWrite
    <3> QED BY <2>5, <3>2, <3>3 DEF WriteByte, TypeOK
  <2>6. CASE WriteStore
    <3>1. write_pos' \in Offsets
      BY <2>6, AdvanceType, RecordLenType DEF WriteStore, TypeOK, LocalsOfWrite
    <3>2. queue' \in Seq(Stored)
      BY <2>6 DEF WriteStore, TypeOK, LocalsOfWrite, Stored
    <3> QED BY <2>6, <3>1, <3>2, LocalsType DEF WriteStore, Goto, TypeOK, Procs
  <2>7. ASSUME NEW cap \in ReadCaps, ReadLoadOther(cap) PROVE TypeOK'
    <3>1. r' \in LocalsOfRead /\ Len(r'.buf) <= LenSize + r'.len
      <4>1. r' = [NoRead EXCEPT !.limit = write_pos, !.cap = cap] /\ cap \in Nat
        BY <2>0, <2>7 DEF ReadLoadOther
      <4>2. r'.buf = NoRead.buf /\ r' \in LocalsOfRead
        BY <4>1, <2>0, LocalsType DEF LocalsOfRead
      <4> QED BY <4>2, <2>0, LocalsType DEF LocalsOfRead
    <3> QED BY <2>7, <3>1 DEF ReadLoadOther, Goto, TypeOK, Procs
  <2>8. CASE ReadLoadOwn
    <3>1. r' \in LocalsOfRead /\ Len(r'.buf) <= LenSize + r'.len
      <4>1. r' = [r EXCEPT !.pos = read_pos] \/ r' = NoRead
        BY <2>8 DEF ReadLoadOwn
      <4> QED BY <4>1, <2>0, LocalsType DEF LocalsOfRead
    <3> QED BY <2>8, <3>1 DEF ReadLoadOwn, Goto, TypeOK, Procs
  <2>9. CASE ReadByte
    <3>1. data_buffer[Advance(r.pos, Len(r.buf))] \in Bytes
      BY AdvanceType DEF TypeOK, LocalsOfRead
    <3>2. /\ r'.buf \in Seq(Bytes) /\ Len(r'.buf) = Len(r.buf) + 1
          /\ r' = [r EXCEPT !.buf = r'.buf]
      BY <2>9, <3>1 DEF ReadByte, TypeOK, LocalsOfRead
    <3>3. Len(r'.buf) <= LenSize + r.len
      BY <2>0, <2>9, <3>2 DEF ReadByte, ToCopy, LocalsOfRead
    <3> QED BY <2>9, <3>2, <3>3 DEF ReadByte, TypeOK, LocalsOfRead
  <2>10. CASE ReadLength
    <3>1. r' \in LocalsOfRead /\ Len(r'.buf) <= LenSize + r'.len
      <4>1. CASE r' = NoRead
        BY <4>1, <2>0, LocalsType
      <4>2. ASSUME NEW n \in Decodes(r.buf), r' = [r EXCEPT !.len = n] PROVE r' \in LocalsOfRead /\ Len(r'.buf) <= LenSize + r'.len
        BY <2>0, <2>10, <4>2, DecodesType DEF ReadLength, LocalsOfRead
      <4> QED BY <2>10, <4>1, <4>2 DEF ReadLength
    <3> QED BY <2>10, <3>1 DEF ReadLength, Goto, TypeOK, Procs
  <2>11. CASE ReadStore
    <3>1. read_pos' \in Offsets
      BY <2>0, <2>11, AdvanceType DEF ReadStore, LocalsOfRead
    <3>2. got' \in Seq(Bytes)
      <4>1. LenSize + r.len = Len(r.buf)
        BY <2>11 DEF ReadStore, ToCopy, Goto
      <4>2. r.buf \in Seq(Bytes) /\ r.len \in Nat
        BY <2>0 DEF LocalsOfRead
      <4>3. SubSeq(r.buf, LenSize + 1, LenSize + r.len) \in Seq(Bytes)
        BY <2>0, <4>1, <4>2
      <4> QED BY <2>11, <4>3 DEF ReadStore, Delivered
    <3>3. queue' \in Seq(Stored)
      BY <2>0, <2>11 DEF ReadStore
    <3> QED BY <2>0, <2>11, <3>1, <3>2, <3>3, LocalsType DEF ReadStore, Goto, TypeOK, Procs
  <2>12. CASE UNCHANGED vars
    BY <2>12 DEF vars, TypeOK
  <2> QED
    BY <2>1, <2>2, <2>3, <2>4, <2>5, <2>6, <2>7, <2>8, <2>9, <2>10, <2>11, <2>12
    DEF Next, InitHeader, WriterCalls, InWrite, ReaderCalls, InRead
<1> QED BY <1>1, <1>2, PTL DEF Spec

-----------------------------------------------------------------------------
(***************************************************************************)
(* The ring implements its promise, for every buffer size, message set and *)
(* interleaving, crashes included, as long as only the writing process     *)
(* creates the mapping and no write fills the ring to the last byte.       *)
(***************************************************************************)

\* How far x lies ahead of from, going round the ring.
Gap(from, x) == IF x >= from THEN x - from ELSE x - from + BufferSize

Rec(i) == RecordLen(queue[i].msg)
EndOf(i) == IF i = Len(queue) THEN write_pos ELSE queue[i + 1].at
-----------------------------------------------------------------------------
(* The inductive invariant, in named parts.                                *)

\* The accepted records lie one behind the other from read_pos to write_pos.
Layout ==
  /\ queue = <<>> => write_pos = read_pos
  /\ queue # <<>> => queue[1].at = read_pos
  /\ \A i \in 1 .. Len(queue) :
       Gap(read_pos, queue[i].at) + Rec(i) = Gap(read_pos, EndOf(i))
  /\ \A i \in 1 .. Len(queue) :
       Gap(read_pos, queue[i].at) + Rec(i) <= Gap(read_pos, write_pos)
  /\ \A i, j \in 1 .. Len(queue) :
       i < j => Gap(read_pos, queue[i].at) + Rec(i) <= Gap(read_pos, queue[j].at)

\* The writer copies behind write_pos, into room that nobody else uses.
WriterInRoom ==
  /\ pc["writer"] \in {"load_read_pos", "copy"} => w.pos = write_pos
  /\ pc["writer"] = "load_read_pos" => w.done = 0
  /\ pc["writer"] = "copy" =>
       /\ Gap(read_pos, write_pos) + RecordLen(w.msg) <= BufferSize
       /\ w.done <= RecordLen(w.msg)
       /\ \A k \in 1 .. w.done :
            data_buffer[Advance(w.pos, k - 1)] = ByteOf(w.msg, k)

\* The reader's stale write_pos is only ever too old, and what it has copied
\* is the oldest record.
ReaderOnRecord ==
  /\ pc["reader"] = "load_read_pos" => r.buf = <<>> /\ (r.limit # read_pos => queue # <<>>)
  /\ pc["reader"] \in {"prefix", "payload"} => r.pos = read_pos
  /\ pc["reader"] = "prefix" => Len(r.buf) <= LenSize

\* A mapping nobody has initialised yet, or nobody holds, is blank.
FreshMapping ==
  /\ pc["reader"] \notin {"init_write_pos", "init_read_pos"}
  /\ pc["writer"] \in {"init_write_pos", "init_read_pos"} \/ ~Mapped =>
       queue = <<>> /\ write_pos = 0 /\ read_pos = 0

Inv ==
  /\ Layout
  /\ RecordsIntact
  /\ NoTornRead
  /\ WriterInRoom
  /\ ReaderOnRecord
  /\ FreshMapping
-----------------------------------------------------------------------------
(* Arithmetic of the ring.                                                 *)

LEMMA GapType ==
  ASSUME NEW from \in Offsets, NEW x \in Offsets
  PROVE  /\ Gap(from, x) \in Nat /\ Gap(from, x) < BufferSize
         /\ Gap(from, x) = 0 <=> x = from
BY RingAssumption, SMT DEF RingAssumption, Gap, Offsets

\* Going on from x moves away from `from`, up to one turn.
LEMMA GapAdvance ==
  ASSUME NEW from \in Offsets, NEW x \in Offsets, NEW n \in Nat,
         Gap(from, x) + n < BufferSize
  PROVE  Gap(from, Advance(x, n)) = Gap(from, x) + n
<1>1. n \in 0 .. BufferSize
  BY RingAssumption DEF RingAssumption, Gap, Offsets
<1>2. Advance(x, n) = IF x + n < BufferSize THEN x + n ELSE x + n - BufferSize
  BY <1>1, AdvanceWraps
<1> QED BY <1>1, <1>2, RingAssumption DEF RingAssumption, Gap, Offsets

\* Moving `from` on towards x shortens the way to x.
LEMMA GapShift ==
  ASSUME NEW from \in Offsets, NEW x \in Offsets, NEW n \in Nat,
         n <= Gap(from, x)
  PROVE  Gap(Advance(from, n), x) = Gap(from, x) - n
<1>1. n \in 0 .. BufferSize
  BY GapType, RingAssumption DEF RingAssumption
<1>2. Advance(from, n) = IF from + n < BufferSize THEN from + n ELSE from + n - BufferSize
  BY <1>1, AdvanceWraps
<1> QED BY <1>1, <1>2, RingAssumption DEF RingAssumption, Gap, Offsets

\* Two places less than a turn away from `from`, at different distances, differ.
LEMMA PlacesDiffer ==
  ASSUME NEW from \in Offsets, NEW x \in Offsets, NEW y \in Offsets,
         NEW n \in Nat, NEW k \in Nat,
         Gap(from, x) + n < Gap(from, y) + k, Gap(from, y) + k < BufferSize
  PROVE  Advance(x, n) # Advance(y, k)
<1>1. Gap(from, x) \in Nat /\ Gap(from, y) \in Nat /\ BufferSize \in Nat
  BY GapType, RingAssumption DEF RingAssumption
<1>2. Gap(from, Advance(x, n)) = Gap(from, x) + n
  BY <1>1, GapAdvance
<1>3. Gap(from, Advance(y, k)) = Gap(from, y) + k
  BY GapAdvance
<1> QED BY <1>1, <1>2, <1>3

LEMMA FullTurn ==
  ASSUME NEW from \in Offsets, NEW x \in Offsets, NEW n \in Nat,
         Gap(from, x) + n = BufferSize
  PROVE  Advance(x, n) = from
<1>1. n \in 0 .. BufferSize
  BY GapType, RingAssumption DEF RingAssumption
<1>2. Advance(x, n) = IF x + n < BufferSize THEN x + n ELSE x + n - BufferSize
  BY <1>1, AdvanceWraps
<1> QED BY <1>1, <1>2, RingAssumption DEF RingAssumption, Gap, Offsets

\* The room write() computes is what is left of one turn.
LEMMA RoomIsTheRest ==
  ASSUME NEW wp \in Offsets, NEW rp \in Offsets
  PROVE  AvailableWrite(wp, rp) = BufferSize - Gap(rp, wp)
BY RingAssumption, SMT DEF RingAssumption, Offsets, AvailableWrite, Gap

LEMMA QueueDomain == TypeOK => DOMAIN queue = 1 .. Len(queue)
BY DEF TypeOK

LEMMA QueueType ==
  ASSUME TypeOK, NEW i \in 1 .. Len(queue)
  PROVE  /\ queue[i].at \in Offsets /\ queue[i].msg \in Messages
         /\ Rec(i) \in Nat /\ Rec(i) >= LenSize /\ Size[queue[i].msg] \in Nat
<1>1. queue[i] \in Stored
  BY DEF TypeOK
<1> QED BY <1>1, RecordLenType DEF Stored, Rec
-----------------------------------------------------------------------------
(* Every step keeps the invariant.                                         *)

\* The records lie where they lay when no cursor moves.
LEMMA LayoutUnmoved ==
  ASSUME Layout, UNCHANGED <<write_pos, read_pos, queue>>
  PROVE  Layout'
BY DEF Layout, EndOf, Rec

LEMMA RecordsUnmoved ==
  ASSUME RecordsIntact, UNCHANGED <<data_buffer, queue>>
  PROVE  RecordsIntact'
BY DEF RecordsIntact

\* Attaching touches nothing, and only the writer initialises.
LEMMA AttachKeeps ==
  ASSUME Creators \subseteq {"writer"}, TypeOK, Inv, NEW p \in Procs, Attach(p)
  PROVE  Inv'
<1>1. Layout' /\ RecordsIntact'
  BY LayoutUnmoved, RecordsUnmoved DEF Attach, Inv
<1>2. p = "writer" \/ pc'["reader"] = "idle"
  BY DEF Attach, Goto, TypeOK, Procs
<1>3. NoTornRead'
  BY <1>2 DEF Attach, Goto, TypeOK, Procs, Inv, NoTornRead
<1>4. WriterInRoom' /\ ReaderOnRecord'
  BY DEF Attach, Goto, TypeOK, Procs, Inv, WriterInRoom, ReaderOnRecord
<1>5. FreshMapping'
  BY <1>2 DEF Attach, Goto, TypeOK, Procs, Inv, FreshMapping, Mapped, Attached
<1> QED BY <1>1, <1>3, <1>4, <1>5 DEF Inv

\* Leaving drops the locals of the one who leaves; the last one takes all.
LEMMA DetachKeeps ==
  ASSUME TypeOK, Inv, NEW p \in Procs, Detach(p)
  PROVE  Inv'
<1>1. CASE \E q \in Procs \ {p} : Attached(q)
  <2>1. UNCHANGED <<write_pos, read_pos, data_buffer, queue>>
    BY <1>1 DEF Detach
  <2>2. Layout' /\ RecordsIntact'
    BY <2>1, LayoutUnmoved, RecordsUnmoved DEF Inv
  <2>3. NoTornRead' /\ WriterInRoom' /\ ReaderOnRecord'
    BY <2>1 DEF Detach, TypeOK, Procs, Inv, NoTornRead, WriterInRoom, ReaderOnRecord
  <2>4. FreshMapping'
    BY <1>1, <2>1 DEF Detach, TypeOK, Procs, Inv, FreshMapping, Mapped, Attached
  <2> QED BY <2>2, <2>3, <2>4 DEF Inv
<1>2. CASE ~ \E q \in Procs \ {p} : Attached(q)
  <2>1. write_pos' = 0 /\ read_pos' = 0 /\ queue' = <<>>
    BY <1>2 DEF Detach
  <2>2. \A q \in Procs : pc'[q] = "gone"
    BY <1>2 DEF Detach, TypeOK, Procs, Attached
  <2>3. Layout' /\ RecordsIntact'
    BY <2>1 DEF Layout, RecordsIntact
  <2>4. NoTornRead' /\ WriterInRoom' /\ ReaderOnRecord' /\ FreshMapping'
    BY <2>1, <2>2 DEF Procs, NoTornRead, WriterInRoom, ReaderOnRecord, FreshMapping
  <2> QED BY <2>3, <2>4 DEF Inv
<1> QED BY <1>1, <1>2

\* The header of a fresh mapping holds zeros already.
LEMMA InitHeaderKeeps ==
  ASSUME TypeOK, Inv, NEW p \in Procs, InitWritePos(p) \/ InitReadPos(p)
  PROVE  Inv'
<1>1. p = "writer" /\ queue = <<>> /\ write_pos = 0 /\ read_pos = 0
  BY DEF InitWritePos, InitReadPos, Goto, TypeOK, Procs, Inv, FreshMapping
<1>2. UNCHANGED <<write_pos, read_pos, data_buffer, queue, w, r>>
  BY <1>1 DEF InitWritePos, InitReadPos
<1>3. Layout' /\ RecordsIntact'
  BY <1>2, LayoutUnmoved, RecordsUnmoved DEF Inv
<1>4. pc'["reader"] = pc["reader"] /\ pc'["writer"] \in {"init_read_pos", "idle"}
  BY <1>1 DEF InitWritePos, InitReadPos, Goto, TypeOK, Procs
<1>5. NoTornRead' /\ WriterInRoom' /\ ReaderOnRecord' /\ FreshMapping'
  BY <1>1, <1>2, <1>4 DEF Inv, NoTornRead, WriterInRoom, ReaderOnRecord, FreshMapping, Mapped, Attached, Procs
<1> QED BY <1>3, <1>5 DEF Inv

LEMMA WriteLoadsKeep ==
  ASSUME TypeOK, Inv, (\E m \in Messages : WriteLoadOwn(m)) \/ WriteLoadOther
  PROVE  Inv'
<1>1. UNCHANGED <<write_pos, read_pos, data_buffer, r, queue>> /\ pc'["reader"] = pc["reader"]
  BY DEF WriteLoadOwn, WriteLoadOther, Goto, TypeOK, Procs
<1>2. pc["writer"] \in {"idle", "load_read_pos"} /\ pc'["writer"] \in {"idle", "load_read_pos", "copy"}
  BY DEF WriteLoadOwn, WriteLoadOther, Goto, TypeOK, Procs
<1>3. Layout' /\ RecordsIntact'
  BY <1>1, LayoutUnmoved, RecordsUnmoved DEF Inv
<1>4. NoTornRead' /\ ReaderOnRecord'
  BY <1>1 DEF Inv, NoTornRead, ReaderOnRecord
<1>5. FreshMapping'
  BY <1>1, <1>2 DEF Inv, FreshMapping, Mapped, Attached, Procs
<1>6. WriterInRoom'
  <2>1. ASSUME NEW m \in Messages, WriteLoadOwn(m) PROVE WriterInRoom'
    BY <2>1 DEF WriteLoadOwn, Goto, TypeOK, Procs, WriterInRoom
  <2>2. CASE WriteLoadOther
    <3>1. CASE ~HasRoom(w.pos, read_pos, w.msg)
      BY <2>2, <3>1 DEF WriteLoadOther, Goto, TypeOK, Procs, WriterInRoom
    <3>2. CASE HasRoom(w.pos, read_pos, w.msg)
      <4>1. /\ w' = w /\ pc'["writer"] = "copy" /\ pc["writer"] = "load_read_pos"
            /\ w.done = 0 /\ w.pos = write_pos /\ w.msg \in Messages
        BY <2>2, <3>2 DEF WriteLoadOther, Goto, TypeOK, LocalsOfWrite, Procs, Inv, WriterInRoom
      <4>2. Gap(read_pos, write_pos) + RecordLen(w.msg) <= BufferSize
        <5>1. Gap(read_pos, write_pos) \in Int
          BY GapType DEF TypeOK
        <5> QED BY <3>2, <4>1, <5>1, RoomIsTheRest, RecordLenType, RingAssumption
                DEF HasRoom, TypeOK, RingAssumption
      <4> QED BY <1>1, <4>1, <4>2, RecordLenType DEF WriterInRoom
    <3> QED BY <3>1, <3>2
  <2> QED BY <2>1, <2>2
<1> QED BY <1>3, <1>4, <1>5, <1>6 DEF Inv

\* The byte the writer fills lies outside every accepted record, and behind
\* the bytes it has copied.
LEMMA WriteByteKeeps ==
  ASSUME TypeOK, Inv, WriteByte
  PROVE  Inv'
<1>0. /\ read_pos \in Offsets /\ write_pos \in Offsets /\ data_buffer \in [Offsets -> Bytes]
      /\ w.msg \in Messages /\ w.done \in Nat /\ w.pos = write_pos
      /\ pc["writer"] = "copy" /\ w.done < RecordLen(w.msg)
      /\ Gap(read_pos, write_pos) + RecordLen(w.msg) <= BufferSize
      /\ UNCHANGED <<write_pos, read_pos, pc, r, queue>>
  BY DEF TypeOK, LocalsOfWrite, WriteByte, Inv, WriterInRoom
<1> DEFINE here == Advance(w.pos, w.done)
<1>1. data_buffer' = [data_buffer EXCEPT ![here] = ByteOf(w.msg, w.done + 1)]
  BY DEF WriteByte
<1>2. Gap(read_pos, write_pos) \in Nat /\ BufferSize \in Nat /\ RecordLen(w.msg) \in Nat
  BY <1>0, GapType, RecordLenType, RingAssumption DEF RingAssumption
<1>3. here \in Offsets
  BY <1>0, AdvanceType
<1>4. Layout'
  BY <1>0, LayoutUnmoved DEF Inv
<1>5. RecordsIntact'
  <2> SUFFICES ASSUME NEW i \in 1 .. Len(queue), NEW k \in 1 .. RecordLen(queue[i].msg)
               PROVE  data_buffer'[Advance(queue[i].at, k - 1)] = ByteOf(queue[i].msg, k)
    BY <1>0, QueueDomain DEF RecordsIntact
  <2>1. queue[i].at \in Offsets /\ Rec(i) \in Nat /\ k - 1 \in Nat /\ k <= Rec(i)
    BY QueueType DEF Rec
  <2>2. Gap(read_pos, queue[i].at) \in Nat
    BY <1>0, <2>1, GapType
  <2>3. Gap(read_pos, queue[i].at) + Rec(i) <= Gap(read_pos, write_pos)
    BY DEF Inv, Layout
  <2>4. Advance(queue[i].at, k - 1) # here
    <3>1. Gap(read_pos, queue[i].at) + (k - 1) < Gap(read_pos, write_pos) + w.done
      BY <1>0, <1>2, <2>1, <2>2, <2>3
    <3>2. Gap(read_pos, write_pos) + w.done < BufferSize
      BY <1>0, <1>2
    <3> QED BY <1>0, <2>1, <3>1, <3>2, PlacesDiffer
  <2>5. Advance(queue[i].at, k - 1) \in Offsets
    BY <2>1, AdvanceType
  <2>6. data_buffer[Advance(queue[i].at, k - 1)] = ByteOf(queue[i].msg, k)
    BY QueueDomain DEF Inv, RecordsIntact
  <2> QED BY <1>0, <1>1, <2>4, <2>5, <2>6
<1>6. WriterInRoom'
  <2>1. w'.done = w.done + 1 /\ w'.msg = w.msg /\ w'.pos = w.pos
    BY DEF WriteByte, TypeOK, LocalsOfWrite
  <2>2. ASSUME NEW k \in 1 .. w'.done
        PROVE  data_buffer'[Advance(w'.pos, k - 1)] = ByteOf(w'.msg, k)
    <3>1. k - 1 \in Nat /\ Advance(w.pos, k - 1) \in Offsets
      BY <1>0, <2>1, AdvanceType
    <3>2. CASE k = w.done + 1
      BY <1>0, <1>1, <1>3, <2>1, <3>2
    <3>3. CASE k # w.done + 1
      <4>1. k \in 1 .. w.done
        BY <1>0, <2>1, <3>3
      <4>2. data_buffer[Advance(w.pos, k - 1)] = ByteOf(w.msg, k)
        BY <1>0, <4>1 DEF Inv, WriterInRoom
      <4>3. Advance(w.pos, k - 1) # here
        <5>1. Gap(read_pos, write_pos) + (k - 1) < Gap(read_pos, write_pos) + w.done
          BY <1>0, <1>2, <4>1
        <5>2. Gap(read_pos, write_pos) + w.done < BufferSize
          BY <1>0, <1>2
        <5> QED BY <1>0, <3>1, <5>1, <5>2, PlacesDiffer
      <4> QED BY <1>0, <1>1, <2>1, <3>1, <4>2, <4>3
    <3> QED BY <3>2, <3>3
  <2> QED BY <1>0, <1>2, <2>1, <2>2 DEF WriterInRoom
<1>7. NoTornRead' /\ ReaderOnRecord' /\ FreshMapping'
  BY <1>0 DEF Inv, NoTornRead, ReaderOnRecord, FreshMapping, Mapped, Attached
<1> QED BY <1>4, <1>5, <1>6, <1>7 DEF Inv

\* The accepted record takes its place behind the others.
LEMMA WriteStoreKeeps ==
  ASSUME TypeOK, TypeOK', Inv, WriteStore, write_pos' # read_pos
  PROVE  Inv'
<1> DEFINE n == RecordLen(w.msg)
           e == [msg |-> w.msg, at |-> w.pos]
<1>0. /\ read_pos \in Offsets /\ write_pos \in Offsets /\ queue \in Seq(Stored)
      /\ w.msg \in Messages /\ w.pos = write_pos /\ w.done = n
      /\ pc["writer"] = "copy" /\ pc'["writer"] = "idle" /\ pc'["reader"] = pc["reader"]
      /\ write_pos' = Advance(write_pos, n)
      /\ queue' = Append(queue, e)
      /\ UNCHANGED <<read_pos, data_buffer, r>>
  BY DEF TypeOK, LocalsOfWrite, WriteStore, Goto, Procs, Inv, WriterInRoom
<1>1. n \in Nat /\ BufferSize \in Nat /\ Gap(read_pos, write_pos) \in Nat
  BY <1>0, RecordLenType, GapType, RingAssumption DEF RingAssumption
<1>2. Gap(read_pos, write_pos) + n < BufferSize
  <2>1. Gap(read_pos, write_pos) + n <= BufferSize
    BY <1>0 DEF Inv, WriterInRoom
  <2>2. Gap(read_pos, write_pos) + n # BufferSize
    BY <1>0, <1>1, FullTurn
  <2> QED BY <1>1, <2>1, <2>2
<1>3. Gap(read_pos, write_pos') = Gap(read_pos, write_pos) + n
  BY <1>0, <1>1, <1>2, GapAdvance
<1>4. /\ Len(queue) \in Nat /\ Len(queue') = Len(queue) + 1
      /\ \A i \in 1 .. Len(queue) : queue'[i] = queue[i]
      /\ queue'[Len(queue) + 1].at = write_pos
      /\ queue'[Len(queue) + 1].msg = w.msg
      /\ DOMAIN queue' = 1 .. Len(queue) + 1
  <2>1. e \in Stored
    BY <1>0 DEF Stored
  <2>2. e.msg = w.msg /\ e.at = write_pos
    BY <1>0
  <2> QED BY <1>0, <2>1, <2>2
<1>5. \A i \in 1 .. Len(queue) :
        /\ Rec(i)' = Rec(i) /\ Rec(i) \in Nat /\ queue[i].at \in Offsets
        /\ Gap(read_pos, queue[i].at) \in Nat
  BY <1>0, <1>4, QueueType, GapType DEF Rec
<1>6. RecordLen(queue'[Len(queue) + 1].msg) = n
  BY <1>4
<1>7. Layout'
  <2>1. queue' # <<>> /\ queue'[1].at = read_pos
    <3>1. CASE queue = <<>>
      BY <1>0, <1>4, <3>1 DEF Inv, Layout
    <3>2. CASE queue # <<>>
      BY <1>0, <1>4, <3>2 DEF Inv, Layout
    <3> QED BY <3>1, <3>2
  <2>2. ASSUME NEW i \in 1 .. Len(queue')
        PROVE  Gap(read_pos, queue'[i].at) + Rec(i)' = Gap(read_pos, EndOf(i)')
    <3>1. CASE i = Len(queue) + 1
      BY <1>3, <1>4, <1>6, <3>1 DEF EndOf, Rec
    <3>2. CASE i # Len(queue) + 1
      <4>1. i \in 1 .. Len(queue)
        BY <1>4, <3>2
      <4>2. EndOf(i)' = EndOf(i)
        BY <1>4, <4>1 DEF EndOf
      <4> QED BY <1>0, <1>4, <1>5, <4>1, <4>2 DEF Inv, Layout
    <3> QED BY <3>1, <3>2
  <2>3. ASSUME NEW i \in 1 .. Len(queue')
        PROVE  Gap(read_pos, queue'[i].at) + Rec(i)' <= Gap(read_pos, write_pos')
    <3>1. CASE i = Len(queue) + 1
      BY <1>1, <1>3, <1>4, <1>6, <3>1 DEF Rec
    <3>2. CASE i # Len(queue) + 1
      <4>1. i \in 1 .. Len(queue)
        BY <1>4, <3>2
      <4>2. Gap(read_pos, queue[i].at) + Rec(i) <= Gap(read_pos, write_pos)
        BY <4>1 DEF Inv, Layout
      <4> QED BY <1>1, <1>3, <1>4, <1>5, <4>1, <4>2
    <3> QED BY <3>1, <3>2
  <2>4. ASSUME NEW i \in 1 .. Len(queue'), NEW j \in 1 .. Len(queue'), i < j
        PROVE  Gap(read_pos, queue'[i].at) + Rec(i)' <= Gap(read_pos, queue'[j].at)
    <3>1. i \in 1 .. Len(queue)
      BY <1>4, <2>4
    <3>2. CASE j = Len(queue) + 1
      BY <1>4, <1>5, <3>1, <3>2 DEF Inv, Layout
    <3>3. CASE j # Len(queue) + 1
      <4>1. j \in 1 .. Len(queue)
        BY <1>4, <3>3
      <4> QED BY <2>4, <1>4, <1>5, <3>1, <4>1 DEF Inv, Layout
    <3> QED BY <3>2, <3>3
  <2> QED BY <1>0, <2>1, <2>2, <2>3, <2>4 DEF Layout
<1>8. RecordsIntact'
  <2> SUFFICES ASSUME NEW i \in 1 .. Len(queue) + 1, NEW k \in 1 .. RecordLen(queue'[i].msg)
               PROVE  data_buffer[Advance(queue'[i].at, k - 1)] = ByteOf(queue'[i].msg, k)
    BY <1>0, <1>4 DEF RecordsIntact
  <2>1. CASE i = Len(queue) + 1
    BY <1>0, <1>4, <2>1 DEF Inv, WriterInRoom
  <2>2. CASE i # Len(queue) + 1
    <3>1. i \in 1 .. Len(queue)
      BY <1>4, <2>2
    <3> QED BY <1>4, <3>1, QueueDomain DEF Inv, RecordsIntact
  <2> QED BY <2>1, <2>2
<1>9. NoTornRead'
  <2> SUFFICES ASSUME pc["reader"] \in {"prefix", "payload"} PROVE NoTornRead'
    BY <1>0 DEF NoTornRead
  <2>1. queue # <<>>
    BY DEF Inv, NoTornRead
  <2>2. queue' # <<>> /\ Head(queue') = Head(queue)
    BY <1>0, <1>4, <2>1
  <2> QED BY <1>0, <2>2 DEF Inv, NoTornRead
<1>10. WriterInRoom'
  BY <1>0 DEF WriterInRoom
<1>11. ReaderOnRecord'
  BY <1>0, <1>4 DEF Inv, ReaderOnRecord
<1>12. FreshMapping'
  BY <1>0 DEF Inv, FreshMapping, Mapped, Attached, Procs
<1> QED BY <1>7, <1>8, <1>9, <1>10, <1>11, <1>12 DEF Inv

\* A position the reader loaded that differs from its own means a message.
LEMMA ReadLoadsKeep ==
  ASSUME TypeOK, Inv, (\E cap \in ReadCaps : ReadLoadOther(cap)) \/ ReadLoadOwn
  PROVE  Inv'
<1>1. UNCHANGED <<write_pos, read_pos, data_buffer, w, queue>> /\ pc'["writer"] = pc["writer"]
  BY DEF ReadLoadOther, ReadLoadOwn, Goto, TypeOK, Procs
<1>2. pc["reader"] \in {"idle", "load_read_pos"} /\ pc'["reader"] \in {"idle", "load_read_pos", "prefix"}
  BY DEF ReadLoadOther, ReadLoadOwn, Goto, TypeOK, Procs
<1>3. Layout' /\ RecordsIntact'
  BY <1>1, LayoutUnmoved, RecordsUnmoved DEF Inv
<1>4. WriterInRoom'
  BY <1>1 DEF Inv, WriterInRoom
<1>5. FreshMapping'
  BY <1>1, <1>2 DEF Inv, FreshMapping, Mapped, Attached, Procs
<1>6. NoTornRead' /\ ReaderOnRecord'
  <2>1. ASSUME NEW cap \in ReadCaps, ReadLoadOther(cap) PROVE NoTornRead' /\ ReaderOnRecord'
    <3>1. r'.buf = <<>> /\ r'.limit = write_pos /\ pc'["reader"] = "load_read_pos"
      BY <2>1 DEF ReadLoadOther, NoRead, Goto, TypeOK, Procs
    <3> QED BY <1>1, <3>1 DEF Inv, Layout, NoTornRead, ReaderOnRecord
  <2>2. CASE ReadLoadOwn
    <3>1. CASE read_pos = r.limit
      BY <2>2, <3>1 DEF ReadLoadOwn, Goto, TypeOK, Procs, NoTornRead, ReaderOnRecord
    <3>2. CASE read_pos # r.limit
      <4>1. pc'["reader"] = "prefix" /\ r.buf = <<>> /\ queue # <<>>
        BY <2>2, <3>2 DEF ReadLoadOwn, Goto, TypeOK, Procs, Inv, ReaderOnRecord
      <4>2. r'.buf = <<>> /\ r'.pos = read_pos
        BY <2>2, <3>2, <4>1 DEF ReadLoadOwn, TypeOK, LocalsOfRead
      <4>3. Len(<<>>) = 0 /\ DOMAIN <<>> = {} /\ LenSize \in Nat
        BY RingAssumption DEF RingAssumption
      <4> QED BY <1>1, <4>1, <4>2, <4>3 DEF NoTornRead, ReaderOnRecord
    <3> QED BY <3>1, <3>2
  <2> QED BY <2>1, <2>2
<1> QED BY <1>3, <1>4, <1>5, <1>6 DEF Inv

\* What the invariant says of a reader that is copying.
LEMMA Reading ==
  ASSUME TypeOK, Inv, pc["reader"] \in {"prefix", "payload"}
  PROVE  /\ queue # <<>> /\ Len(queue) \in Nat /\ 1 \in 1 .. Len(queue)
         /\ Head(queue) = queue[1] /\ queue[1].at = read_pos /\ r.pos = read_pos
         /\ Head(queue).msg \in Messages /\ Rec(1) = LenSize + Size[Head(queue).msg]
         /\ Size[Head(queue).msg] \in Nat /\ LenSize \in Nat /\ LenSize >= 1
         /\ r.buf \in Seq(Bytes) /\ r.len \in Nat
         /\ \A k \in 1 .. Len(r.buf) : r.buf[k] = ByteOf(Head(queue).msg, k)
         /\ pc["reader"] = "payload" => r.len = Size[Head(queue).msg]
         /\ Len(r.buf) <= ToCopy
<1>1. queue # <<>> /\ queue \in Seq(Stored) /\ r.buf \in Seq(Bytes) /\ r.len \in Nat
  BY DEF Inv, NoTornRead, TypeOK, LocalsOfRead
<1>2. Head(queue) = queue[1] /\ 1 \in 1 .. Len(queue) /\ Len(queue) \in Nat
  BY <1>1
<1>3. DOMAIN r.buf = 1 .. Len(r.buf)
  BY <1>1
<1>4. LenSize \in Nat /\ LenSize >= 1
  BY RingAssumption DEF RingAssumption
<1>5. Len(r.buf) <= ToCopy
  BY DEF TypeOK, Inv, ReaderOnRecord, ToCopy
<1>6. queue[1].msg \in Messages /\ Size[queue[1].msg] \in Nat
  BY <1>2, QueueType
<1> QED BY <1>1, <1>2, <1>3, <1>4, <1>5, <1>6
        DEF Inv, Layout, NoTornRead, ReaderOnRecord, Rec, RecordLen

\* Each byte it copies is one of the oldest record.
LEMMA ReadByteKeeps ==
  ASSUME TypeOK, Inv, ReadByte
  PROVE  Inv'
<1>0. /\ pc["reader"] \in {"prefix", "payload"} /\ Len(r.buf) < ToCopy
      /\ UNCHANGED <<write_pos, read_pos, data_buffer, pc, w, queue>>
  BY DEF ReadByte
<1> DEFINE b == data_buffer[Advance(r.pos, Len(r.buf))]
<1>1. /\ r'.buf = Append(r.buf, b)
      /\ r'.pos = r.pos /\ r'.len = r.len
  BY DEF ReadByte, TypeOK, LocalsOfRead
<1>2. Len(r.buf) \in Nat /\ Len(r.buf) + 1 <= Rec(1)
  BY <1>0, Reading DEF ToCopy
<1>3. b = ByteOf(Head(queue).msg, Len(r.buf) + 1)
  <2>1. Len(r.buf) + 1 \in 1 .. RecordLen(queue[1].msg)
    BY <1>0, <1>2, Reading DEF Rec
  <2>2. data_buffer[Advance(queue[1].at, (Len(r.buf) + 1) - 1)] = ByteOf(queue[1].msg, Len(r.buf) + 1)
    BY <1>0, <2>1, Reading, QueueDomain DEF Inv, RecordsIntact
  <2>3. (Len(r.buf) + 1) - 1 = Len(r.buf)
    BY <1>2
  <2> QED BY <1>0, <2>2, <2>3, Reading
<1>4. /\ Len(r'.buf) = Len(r.buf) + 1 /\ DOMAIN r'.buf = 1 .. Len(r.buf) + 1
      /\ \A k \in 1 .. Len(r.buf) : r'.buf[k] = r.buf[k]
      /\ r'.buf[Len(r.buf) + 1] = b
  <2>1. b \in Bytes
    BY <1>0, AdvanceType DEF TypeOK, LocalsOfRead
  <2> QED BY <1>0, <1>1, <2>1, Reading
<1>5. \A k \in DOMAIN r'.buf : r'.buf[k] = ByteOf(Head(queue).msg, k)
  <2> TAKE k \in DOMAIN r'.buf
  <2>1. CASE k = Len(r.buf) + 1
    BY <1>3, <1>4, <2>1
  <2>2. CASE k # Len(r.buf) + 1
    BY <1>0, <1>2, <1>4, <2>2, Reading
  <2> QED BY <2>1, <2>2
<1>6. NoTornRead'
  BY <1>0, <1>1, <1>5, Reading DEF NoTornRead
<1>7. ReaderOnRecord'
  BY <1>0, <1>1, <1>2, <1>4, Reading DEF ReaderOnRecord, ToCopy
<1>8. Layout' /\ RecordsIntact'
  BY <1>0, LayoutUnmoved, RecordsUnmoved DEF Inv
<1>9. WriterInRoom' /\ FreshMapping'
  BY <1>0 DEF Inv, WriterInRoom, FreshMapping, Mapped, Attached
<1> QED BY <1>6, <1>7, <1>8, <1>9 DEF Inv

\* A whole prefix tells its message.
LEMMA PrefixTells ==
  ASSUME NEW m \in Messages, NEW n \in Decodes(Prefix(m))
  PROVE  n = Size[m]
<1>1. 1 \in 1 .. LenSize
  BY RingAssumption DEF RingAssumption
<1>2. ASSUME NEW x \in Messages, Prefix(m) = Prefix(x) PROVE x = m
  <2>1. Prefix(m)[1] = <<m, 1>> /\ Prefix(x)[1] = <<x, 1>>
    BY <1>1 DEF Prefix, ByteOf
  <2> QED BY <1>2, <2>1
<1> QED BY <1>2 DEF Decodes

LEMMA ReadLengthKeeps ==
  ASSUME TypeOK, Inv, ReadLength
  PROVE  Inv'
<1>0. /\ UNCHANGED <<write_pos, read_pos, data_buffer, w, queue>>
      /\ pc'["writer"] = pc["writer"] /\ pc["reader"] = "prefix"
      /\ pc'["reader"] \in {"payload", "idle"} /\ Len(r.buf) = LenSize
  BY DEF ReadLength, Goto, TypeOK, Procs
<1> DEFINE m == Head(queue).msg
<1>1. r.buf = Prefix(m)
  <2>0. r.buf \in Seq(Bytes) /\ LenSize \in Nat
    BY <1>0, Reading
  <2>1. r.buf = [k \in 1 .. LenSize |-> r.buf[k]]
    BY <1>0, <2>0
  <2>2. \A k \in 1 .. LenSize : r.buf[k] = ByteOf(m, k)
    BY <1>0, Reading
  <2> QED BY <2>1, <2>2 DEF Prefix
<1>2. pc'["reader"] = "payload" =>
        r'.len = Size[m] /\ r'.buf = r.buf /\ r'.pos = r.pos
  <2>1. PICK n \in Decodes(r.buf) :
          \/ Goto("reader", "prefix", "payload") /\ r' = [r EXCEPT !.len = n]
          \/ Goto("reader", "prefix", "idle") /\ r' = NoRead
    BY DEF ReadLength
  <2>2. n = Size[m]
    BY <1>0, <1>1, <2>1, Reading, PrefixTells
  <2> SUFFICES ASSUME pc'["reader"] = "payload"
               PROVE  r'.len = Size[m] /\ r'.buf = r.buf /\ r'.pos = r.pos
    OBVIOUS
  <2>3. r' = [r EXCEPT !.len = n]
    BY <2>1 DEF Goto, TypeOK, Procs
  <2> QED BY <2>2, <2>3 DEF TypeOK, LocalsOfRead
<1>3. NoTornRead'
  BY <1>0, <1>2, Reading DEF NoTornRead
<1>4. ReaderOnRecord'
  BY <1>0, <1>2, Reading DEF ReaderOnRecord
<1>5. Layout' /\ RecordsIntact'
  BY <1>0, LayoutUnmoved, RecordsUnmoved DEF Inv
<1>6. WriterInRoom' /\ FreshMapping'
  BY <1>0 DEF Inv, WriterInRoom, FreshMapping, Mapped, Attached, Procs
<1> QED BY <1>3, <1>4, <1>5, <1>6 DEF Inv

\* The oldest record goes; the others are nearer to read_pos by its length.
LEMMA ReadStoreKeeps ==
  ASSUME TypeOK, TypeOK', Inv, ReadStore
  PROVE  Inv'
<1> DEFINE n == Rec(1)
<1>0. /\ pc["reader"] = "payload" /\ pc'["reader"] = "idle" /\ pc'["writer"] = pc["writer"]
      /\ read_pos \in Offsets /\ write_pos \in Offsets /\ queue \in Seq(Stored)
      /\ UNCHANGED <<write_pos, data_buffer, w>>
      /\ read_pos' = Advance(r.pos, LenSize + r.len)
      /\ queue # <<>> /\ queue' = Tail(queue)
  BY Reading DEF ReadStore, Goto, TypeOK, Procs
<1>1. n \in Nat /\ read_pos' = Advance(read_pos, n) /\ Gap(read_pos, read_pos) = 0
  BY <1>0, Reading, GapType
<1>2. /\ Len(queue) \in Nat /\ Len(queue') = Len(queue) - 1 /\ Len(queue) >= 1
      /\ \A i \in 1 .. Len(queue) - 1 : queue'[i] = queue[i + 1]
      /\ DOMAIN queue' = 1 .. Len(queue) - 1
  BY <1>0
<1>3. \A i \in 1 .. Len(queue) :
        /\ Rec(i) \in Nat /\ queue[i].at \in Offsets /\ Gap(read_pos, queue[i].at) \in Nat
  BY <1>0, QueueType, GapType
<1>4. Gap(read_pos', write_pos) = Gap(read_pos, write_pos) - n /\ Gap(read_pos, write_pos) \in Nat
  <2>1. n <= Gap(read_pos, write_pos)
    BY <1>0, <1>1, <1>2, Reading DEF Inv, Layout
  <2> QED BY <1>0, <1>1, <2>1, GapShift, GapType
<1>5. \A i \in 2 .. Len(queue) : Gap(read_pos', queue[i].at) = Gap(read_pos, queue[i].at) - n
  <2> TAKE i \in 2 .. Len(queue)
  <2>1. i \in 1 .. Len(queue) /\ 1 \in 1 .. Len(queue) /\ 1 < i
    BY <1>2
  <2>2. n <= Gap(read_pos, queue[i].at)
    BY <1>0, <1>1, <2>1, Reading DEF Inv, Layout
  <2> QED BY <1>0, <1>1, <1>3, <2>1, <2>2, GapShift
<1>6. \A i \in 1 .. Len(queue') :
        /\ i + 1 \in 2 .. Len(queue) /\ i + 1 \in 1 .. Len(queue)
        /\ queue'[i] = queue[i + 1] /\ Rec(i)' = Rec(i + 1)
        /\ EndOf(i)' = EndOf(i + 1)
  <2> TAKE i \in 1 .. Len(queue')
  <2>1. i \in Nat /\ i + 1 \in 2 .. Len(queue) /\ i + 1 \in 1 .. Len(queue)
    BY <1>2
  <2>2. queue'[i] = queue[i + 1]
    BY <1>2
  <2>3. i = Len(queue') <=> i + 1 = Len(queue)
    BY <1>2
  <2>4. i # Len(queue') => queue'[i + 1] = queue[i + 1 + 1]
    BY <1>2
  <2> QED BY <1>0, <2>1, <2>2, <2>3, <2>4 DEF Rec, EndOf
<1>7. Layout'
  <2>1. /\ queue' = <<>> => write_pos' = read_pos'
        /\ queue' # <<>> => queue'[1].at = read_pos'
    <3> DEFINE next == EndOf(1)
    <3>0. 1 \in 1 .. Len(queue) /\ (Len(queue) # 1 => 2 \in 1 .. Len(queue))
      BY <1>2
    <3>1. next \in Offsets /\ Gap(read_pos, next) = n
      <4>1. next \in Offsets
        BY <1>0, <1>3, <3>0 DEF EndOf
      <4>2. Gap(read_pos, queue[1].at) + Rec(1) = Gap(read_pos, EndOf(1))
        BY <3>0 DEF Inv, Layout
      <4> QED BY <1>0, <1>1, <4>1, <4>2, Reading
    <3>2. Gap(read_pos', next) = 0
      BY <1>0, <1>1, <3>1, GapShift
    <3>3. next = read_pos'
      BY <3>1, <3>2, GapType DEF TypeOK
    <3>4. queue' = <<>> => Len(queue) = 1
      BY <1>2
    <3>5. queue' # <<>> => Len(queue) # 1 /\ queue'[1] = queue[2]
      BY <1>0, <1>2
    <3> QED BY <1>0, <3>3, <3>4, <3>5 DEF EndOf
  <2>2. ASSUME NEW i \in 1 .. Len(queue')
        PROVE  Gap(read_pos', queue'[i].at) + Rec(i)' = Gap(read_pos', EndOf(i)')
    <3>1. Gap(read_pos, queue[i + 1].at) + Rec(i + 1) = Gap(read_pos, EndOf(i + 1))
      BY <1>6 DEF Inv, Layout
    <3>2. Gap(read_pos', EndOf(i + 1)) = Gap(read_pos, EndOf(i + 1)) - n
      BY <1>2, <1>4, <1>5, <1>6 DEF EndOf
    <3> QED BY <1>1, <1>3, <1>5, <1>6, <3>1, <3>2
  <2>3. ASSUME NEW i \in 1 .. Len(queue')
        PROVE  Gap(read_pos', queue'[i].at) + Rec(i)' <= Gap(read_pos', write_pos')
    <3>1. Gap(read_pos, queue[i + 1].at) + Rec(i + 1) <= Gap(read_pos, write_pos)
      BY <1>6 DEF Inv, Layout
    <3> QED BY <1>0, <1>1, <1>3, <1>4, <1>5, <1>6, <3>1
  <2>4. ASSUME NEW i \in 1 .. Len(queue'), NEW j \in 1 .. Len(queue'), i < j
        PROVE  Gap(read_pos', queue'[i].at) + Rec(i)' <= Gap(read_pos', queue'[j].at)
    <3>1. i + 1 \in 1 .. Len(queue) /\ j + 1 \in 1 .. Len(queue) /\ i + 1 < j + 1
      BY <1>6, <2>4
    <3>2. Gap(read_pos, queue[i + 1].at) + Rec(i + 1) <= Gap(read_pos, queue[j + 1].at)
      BY <3>1 DEF Inv, Layout
    <3>3. /\ Gap(read_pos', queue'[i].at) = Gap(read_pos, queue[i + 1].at) - n
          /\ Gap(read_pos', queue'[j].at) = Gap(read_pos, queue[j + 1].at) - n
          /\ Rec(i)' = Rec(i + 1)
      BY <1>5, <1>6
    <3>4. /\ Rec(i + 1) \in Nat
          /\ Gap(read_pos, queue[i + 1].at) \in Nat /\ Gap(read_pos, queue[j + 1].at) \in Nat
      BY <1>3, <3>1
    <3> QED BY <1>1, <3>2, <3>3, <3>4
  <2> QED BY <2>1, <2>2, <2>3, <2>4 DEF Layout
<1>8. RecordsIntact'
  BY <1>0, <1>2, <1>6, QueueDomain DEF Inv, RecordsIntact
<1>9. NoTornRead' /\ ReaderOnRecord'
  BY <1>0 DEF NoTornRead, ReaderOnRecord
<1>10. WriterInRoom'
  <2>1. ASSUME pc["writer"] = "copy"
        PROVE  Gap(read_pos', write_pos) + RecordLen(w.msg) <= BufferSize
    <3>1. Gap(read_pos, write_pos) + RecordLen(w.msg) <= BufferSize
      BY <2>1 DEF Inv, WriterInRoom
    <3>2. RecordLen(w.msg) \in Nat /\ BufferSize \in Nat
      BY RecordLenType, RingAssumption DEF RingAssumption, TypeOK, LocalsOfWrite
    <3> QED BY <1>1, <1>4, <3>1, <3>2
  <2> QED BY <1>0, <2>1 DEF Inv, WriterInRoom
<1>11. FreshMapping'
  BY <1>0 DEF Inv, FreshMapping, Mapped, Attached, Procs
<1> QED BY <1>7, <1>8, <1>9, <1>10, <1>11 DEF Inv

LEMMA InitInv == Init => Inv
<1> SUFFICES ASSUME Init PROVE Inv
  OBVIOUS
<1>1. \A p \in Procs : pc[p] = "gone"
  BY DEF Init
<1> QED
  BY <1>1 DEF Init, Procs, Inv, Layout, RecordsIntact, NoTornRead, WriterInRoom,
              ReaderOnRecord, FreshMapping

LEMMA NextKeeps ==
  ASSUME Creators \subseteq {"writer"}, TypeOK, TypeOK', Inv, [Next]_vars,
         WriteStore => write_pos' # read_pos
  PROVE  Inv'
<1>1. CASE UNCHANGED vars
  <2>1. UNCHANGED <<write_pos, read_pos, data_buffer, pc, w, r, queue>>
    BY <1>1 DEF vars
  <2>2. Layout' /\ RecordsIntact'
    BY <2>1, LayoutUnmoved, RecordsUnmoved DEF Inv
  <2>3. NoTornRead' /\ WriterInRoom' /\ ReaderOnRecord' /\ FreshMapping'
    BY <2>1 DEF Inv, NoTornRead, WriterInRoom, ReaderOnRecord, FreshMapping, Mapped, Attached
  <2> QED BY <2>2, <2>3 DEF Inv
<1>2. CASE \E p \in Procs : Attach(p) \/ Detach(p)
  BY <1>2, AttachKeeps, DetachKeeps
<1>3. CASE InitHeader
  BY <1>3, InitHeaderKeeps DEF InitHeader
<1>4. CASE WriterCalls \/ InWrite
  BY <1>4, WriteLoadsKeep, WriteByteKeeps, WriteStoreKeeps DEF WriterCalls, InWrite
<1>5. CASE ReaderCalls \/ InRead
  BY <1>5, ReadLoadsKeep, ReadByteKeeps, ReadLengthKeeps, ReadStoreKeeps DEF ReaderCalls, InRead
<1> QED BY <1>1, <1>2, <1>3, <1>4, <1>5 DEF Next
-----------------------------------------------------------------------------
LEMMA InvHolds ==
  ASSUME Creators \subseteq {"writer"}
  PROVE  Spec /\ NeverFillsExactly => []Inv
<1>1. Init => Inv
  BY InitInv
<1>2. TypeOK /\ TypeOK' /\ Inv /\ [Next]_vars /\ [WriteStore => write_pos' # read_pos]_vars
      => Inv'
  <2> SUFFICES ASSUME TypeOK, TypeOK', Inv, [Next]_vars,
                      [WriteStore => write_pos' # read_pos]_vars
               PROVE  Inv'
    OBVIOUS
  <2>1. CASE UNCHANGED vars
    <3>1. ~WriteStore
      BY <2>1 DEF WriteStore, Goto, TypeOK, Procs, vars
    <3> QED BY <3>1, NextKeeps
  <2>2. CASE WriteStore => write_pos' # read_pos
    BY <2>2, NextKeeps
  <2> QED BY <2>1, <2>2
<1>3. Spec => []TypeOK
  BY TypeCorrect
<1> QED BY <1>1, <1>2, <1>3, PTL DEF Spec, NeverFillsExactly

\* Why it is safe: at every step a record lies where the cursors say.
LEMMA InvMeansSafe ==
  ASSUME Creators \subseteq {"writer"}
  PROVE  Spec /\ NeverFillsExactly =>
           [](RecordsIntact /\ NoTornRead)
<1>1. Inv => RecordsIntact /\ NoTornRead
  BY DEF Inv
<1>2. Spec /\ NeverFillsExactly => []TypeOK /\ []Inv
  BY TypeCorrect, InvHolds
<1> QED BY <1>1, <1>2, PTL

\* What a write accepted stays whole in the ring until it is read, for every
\* buffer size and set of messages, when only the writer creates the mapping
\* and no write fills the ring exactly.
THEOREM RecordsStayIntact ==
  ASSUME Creators \subseteq {"writer"}
  PROVE  Spec /\ NeverFillsExactly => []RecordsIntact
BY InvMeansSafe, PTL

\* Under the same conditions no read returns or copies anything else.
THEOREM NoReadIsTorn ==
  ASSUME Creators \subseteq {"writer"}
  PROVE  Spec /\ NeverFillsExactly => []NoTornRead
BY InvMeansSafe, PTL

-----------------------------------------------------------------------------
(* The refinement: each step is a step of the queue, or none.              *)

Msgs == [i \in DOMAIN queue |-> queue[i].msg]
Present == {p \in Procs : Attached(p)}

LEMMA MessagesOf ==
  ASSUME NEW q \in Seq(Stored), NEW f, f = [i \in DOMAIN q |-> q[i].msg]
  PROVE  /\ f \in Seq(Messages) /\ Len(f) = Len(q) /\ Len(q) \in Nat
         /\ DOMAIN f = 1 .. Len(q)
         /\ \A i \in 1 .. Len(q) : f[i] = q[i].msg
<1>1. Len(q) \in Nat /\ DOMAIN q = 1 .. Len(q)
  OBVIOUS
<1>2. \A i \in 1 .. Len(q) : q[i].msg \in Messages
  <2>1. \A i \in 1 .. Len(q) : q[i] \in Stored
    OBVIOUS
  <2> QED BY <2>1 DEF Stored
<1>3. f = [i \in 1 .. Len(q) |-> q[i].msg]
  BY <1>1
<1>4. \A i \in 1 .. Len(q) : f[i] = q[i].msg
  BY <1>3
<1>5. f \in Seq(Messages)
  BY <1>1, <1>2, <1>3
<1>6. Len(f) = Len(q)
  BY <1>1, <1>3
<1> QED BY <1>1, <1>3, <1>4, <1>5, <1>6

\* Steps that keep the queue, what was delivered and who is there.
LEMMA Stutters ==
  ASSUME UNCHANGED <<queue, got>>, Present' = Present
  PROVE  UNCHANGED Promise!vars
BY DEF Promise!vars, Present

LEMMA SamePeople ==
  ASSUME TypeOK, NEW p \in Procs, NEW from, NEW to, Goto(p, from, to),
         from # "gone", to # "gone"
  PROVE  Present' = Present
BY DEF Goto, TypeOK, Procs, Present, Attached

LEMMA AttachRefines ==
  ASSUME TypeOK, NEW p \in Procs, Attach(p)
  PROVE  Promise!Attach(p)
<1>1. p \notin Present /\ Present' = Present \union {p}
  BY DEF Attach, Goto, TypeOK, Procs, Present, Attached
<1>2. UNCHANGED <<queue, got>>
  BY DEF Attach
<1> QED BY <1>1, <1>2 DEF Promise!Attach, Present

LEMMA DetachRefines ==
  ASSUME TypeOK, NEW p \in Procs, Detach(p)
  PROVE  Promise!Detach(p)
<1>1. p \in Present /\ Present' = Present \ {p} /\ got' = got
  BY DEF Detach, TypeOK, Procs, Present, Attached
<1>2. queue' = IF Present' = {} THEN <<>> ELSE queue
  <2>1. Present' = {} <=> ~ \E q \in Procs \ {p} : Attached(q)
    BY <1>1 DEF Present
  <2> QED BY <2>1 DEF Detach
<1>3. Msgs' = IF Present' = {} THEN <<>> ELSE Msgs
  BY <1>2 DEF Msgs
<1> QED BY <1>1, <1>3 DEF Promise!Detach, Present, Msgs

LEMMA WriteStoreRefines ==
  ASSUME TypeOK, Inv, WriteStore
  PROVE  \E m \in Messages : Promise!Send(m)
<1> DEFINE e == [msg |-> w.msg, at |-> w.pos]
<1>1. /\ w.msg \in Messages /\ e \in Stored /\ e.msg = w.msg
      /\ queue \in Seq(Stored) /\ queue' = Append(queue, e) /\ got' = got
  BY DEF WriteStore, TypeOK, LocalsOfWrite, Stored
<1>2. Present # {} /\ Present' = Present
  BY SamePeople DEF WriteStore, Goto, TypeOK, Procs, Present, Attached
<1>3. Msgs' = Append(Msgs, w.msg)
  <2>1. queue' \in Seq(Stored) /\ Len(queue') = Len(queue) + 1 /\ Len(queue) \in Nat
    BY <1>1
  <2>2. /\ Msgs \in Seq(Messages) /\ Len(Msgs) = Len(queue)
        /\ \A i \in 1 .. Len(queue) : Msgs[i] = queue[i].msg
    BY <1>1, MessagesOf DEF Msgs
  <2>3. /\ Msgs' \in Seq(Messages) /\ Len(Msgs') = Len(queue) + 1
        /\ \A i \in 1 .. Len(queue) + 1 : Msgs'[i] = queue'[i].msg
    BY <2>1, MessagesOf DEF Msgs
  <2>4. \A i \in 1 .. Len(queue) + 1 : Msgs'[i] = Append(Msgs, w.msg)[i]
    BY <1>1, <2>1, <2>2, <2>3
  <2>5. Append(Msgs, w.msg) \in Seq(Messages) /\ Len(Append(Msgs, w.msg)) = Len(queue) + 1
    BY <1>1, <2>2
  <2> QED BY <2>1, <2>3, <2>4, <2>5
<1> QED BY <1>1, <1>2, <1>3 DEF Promise!Send, Present, Msgs

LEMMA ReadStoreRefines ==
  ASSUME TypeOK, Inv, ReadStore
  PROVE  Promise!Receive
<1> DEFINE m == Head(queue).msg
<1>0. pc["reader"] = "payload" /\ queue \in Seq(Stored)
  BY DEF ReadStore, Goto, TypeOK
<1>1. queue # <<>> /\ queue' = Tail(queue)
  BY <1>0, Reading DEF ReadStore
<1>2. Present' = Present
  BY SamePeople DEF ReadStore, Procs
<1>3. got' = Payload[m]
  <2>1. /\ r.buf \in Seq(Bytes) /\ r.len = Size[m] /\ Len(r.buf) = LenSize + Size[m]
        /\ m \in Messages /\ Size[m] \in Nat /\ LenSize \in Nat
    BY <1>0, Reading DEF ReadStore, ToCopy
  <2>2. \A k \in 1 .. Size[m] : r.buf[LenSize + k] = ByteOf(m, LenSize + k)
    <3> TAKE k \in 1 .. Size[m]
    <3>1. LenSize + k \in 1 .. Len(r.buf)
      BY <2>1
    <3> QED BY <1>0, <3>1, Reading
  <2>3. got' = [k \in 1 .. Size[m] |-> r.buf[LenSize + k]]
    <3>1. got' = SubSeq(r.buf, LenSize + 1, LenSize + Size[m])
      BY <2>1 DEF ReadStore, Delivered
    <3> QED BY <2>1, <3>1
  <2> QED BY <2>1, <2>2, <2>3 DEF Payload
<1>4. Msgs # <<>> /\ Head(Msgs) = m /\ Msgs' = Tail(Msgs)
  <2>1. /\ DOMAIN queue = 1 .. Len(queue) /\ Len(queue) \in Nat /\ Len(queue) >= 1
        /\ Head(queue) = queue[1]
    BY <1>0, <1>1
  <2>2. /\ Msgs \in Seq(Messages) /\ Len(Msgs) = Len(queue)
        /\ \A i \in 1 .. Len(queue) : Msgs[i] = queue[i].msg
    BY <1>0, MessagesOf DEF Msgs
  <2>3. /\ queue' \in Seq(Stored) /\ Len(queue') = Len(queue) - 1
        /\ \A i \in 1 .. Len(queue) - 1 : queue'[i] = queue[i + 1]
    BY <1>0, <1>1
  <2>4. /\ Msgs' \in Seq(Messages) /\ Len(Msgs') = Len(queue) - 1
        /\ \A i \in 1 .. Len(queue) - 1 : Msgs'[i] = queue[i + 1].msg
    <3>1. /\ Msgs' \in Seq(Messages) /\ Len(Msgs') = Len(queue')
          /\ \A i \in 1 .. Len(queue') : Msgs'[i] = queue'[i].msg
      BY <2>3, MessagesOf DEF Msgs
    <3> QED BY <2>3, <3>1
  <2>5. /\ Tail(Msgs) \in Seq(Messages) /\ Len(Tail(Msgs)) = Len(queue) - 1
        /\ \A i \in 1 .. Len(queue) - 1 : Tail(Msgs)[i] = Msgs[i + 1]
    BY <2>1, <2>2
  <2>6. \A i \in 1 .. Len(queue) - 1 : Msgs'[i] = Tail(Msgs)[i]
    BY <2>1, <2>2, <2>4, <2>5
  <2>7. Msgs' = Tail(Msgs)
    BY <2>1, <2>4, <2>5, <2>6
  <2>8. Msgs # <<>> /\ Head(Msgs) = m
    BY <2>1, <2>2
  <2> QED BY <2>7, <2>8
<1> QED BY <1>2, <1>3, <1>4 DEF Promise!Receive, Present, Msgs

LEMMA NextRefines ==
  ASSUME TypeOK, Inv, [Next]_vars
  PROVE  [Promise!Next]_Promise!vars
<1>1. CASE UNCHANGED vars
  BY <1>1, Stutters DEF vars, Present, Attached
<1>2. ASSUME NEW p \in Procs, Attach(p) \/ Detach(p) PROVE Promise!Next
  BY <1>2, AttachRefines, DetachRefines DEF Promise!Next
<1>3. ASSUME NEW p \in Procs, InitWritePos(p) \/ InitReadPos(p) PROVE UNCHANGED Promise!vars
  BY <1>3, SamePeople, Stutters DEF InitWritePos, InitReadPos
<1>4. CASE WriteStore
  BY <1>4, WriteStoreRefines DEF Promise!Next
<1>5. CASE (\E m \in Messages : WriteLoadOwn(m)) \/ WriteLoadOther
  <2>1. Present' = Present
    BY <1>5, SamePeople DEF WriteLoadOwn, WriteLoadOther, Procs
  <2> QED BY <1>5, <2>1, Stutters DEF WriteLoadOwn, WriteLoadOther
<1>6. CASE WriteByte \/ ReadByte
  BY <1>6, Stutters DEF WriteByte, ReadByte, Present, Attached
<1>7. CASE (\E cap \in ReadCaps : ReadLoadOther(cap)) \/ ReadLoadOwn \/ ReadLength
  <2>1. Present' = Present
    BY <1>7, SamePeople DEF ReadLoadOther, ReadLoadOwn, ReadLength, Procs
  <2> QED BY <1>7, <2>1, Stutters DEF ReadLoadOther, ReadLoadOwn, ReadLength
<1>8. CASE ReadStore
  BY <1>8, ReadStoreRefines DEF Promise!Next
<1> QED BY <1>1, <1>2, <1>3, <1>4, <1>5, <1>6, <1>7, <1>8
        DEF Next, InitHeader, WriterCalls, InWrite, ReaderCalls, InRead

\* To the two processes the ring is a queue: each accepted message is delivered
\* once, in order and unaltered, and is only lost with the mapping itself.
THEOREM RingImplementsQueue ==
  ASSUME Creators \subseteq {"writer"}
  PROVE  Spec /\ NeverFillsExactly => DeliversInOrder
<1>1. Init => Promise!Init
  BY DEF Init, Promise!Init, Procs, Attached
<1>2. TypeOK /\ Inv /\ [Next]_vars => [Promise!Next]_Promise!vars
  BY NextRefines
<1>3. Spec /\ NeverFillsExactly => []TypeOK /\ []Inv
  BY TypeCorrect, InvHolds
<1> QED BY <1>1, <1>2, <1>3, PTL DEF Spec, DeliversInOrder, Promise!Spec
=============================================================================
