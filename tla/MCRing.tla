-------------------------------- MODULE MCRing --------------------------------
(* Small instances of SharedMemoryRingBuffer for TLC.  "huge" is longer than *)
(* half of a ring of 9 bytes; "long" does not fit into the smaller buffer.   *)
EXTENDS SharedMemoryRingBuffer

MCSize == [m \in Messages |-> CASE m = "empty" -> 0
                                [] m = "short" -> 2
                                [] m = "long"  -> 4
                                [] m = "huge"  -> 5]
=============================================================================
