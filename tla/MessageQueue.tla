---------------------------- MODULE MessageQueue ----------------------------
(***************************************************************************)
(* What SharedMemoryRingBuffer promises to the two processes that share    *)
(* it, with no cursors and no bytes: a FIFO of whole messages that exists  *)
(* while at least one process is attached.  A message a write() accepted   *)
(* is delivered by exactly one read(), in order and unaltered, unless all  *)
(* processes leave first.                                                  *)
(***************************************************************************)
EXTENDS Sequences

CONSTANTS Messages,     \* what a caller may pass to write()
          Payload,      \* the bytes a reader receives for each message
          Procs         \* the processes that may attach

VARIABLES queue,        \* accepted and not yet delivered, oldest first
          got,          \* the bytes the last successful read() returned
          attached      \* the processes that hold the mapping

vars == <<queue, got, attached>>

Init ==
  /\ queue = <<>>
  /\ got = <<>>
  /\ attached = {}

Attach(p) ==
  /\ p \notin attached
  /\ attached' = attached \union {p}
  /\ UNCHANGED <<queue, got>>

\* The last process to leave, or to crash, takes the mapping with it.
Detach(p) ==
  /\ p \in attached
  /\ attached' = attached \ {p}
  /\ queue' = IF attached' = {} THEN <<>> ELSE queue
  /\ UNCHANGED got

Send(m) ==
  /\ attached # {}
  /\ queue' = Append(queue, m)
  /\ UNCHANGED <<got, attached>>

Receive ==
  /\ queue # <<>>
  /\ got' = Payload[Head(queue)]
  /\ queue' = Tail(queue)
  /\ UNCHANGED attached

Next ==
  \/ \E p \in Procs : Attach(p) \/ Detach(p)
  \/ \E m \in Messages : Send(m)
  \/ Receive

Spec == Init /\ [][Next]_vars
=============================================================================
