---------------------------- MODULE RtssMemoryPool ----------------------------
(***************************************************************************)
(* RtssMemoryPool: threads allocate and return entries of a fixed pool     *)
(* without a lock.  A thread only returns an entry it was given.           *)
(***************************************************************************)
EXTENDS Integers

CONSTANTS
  Threads,
  PoolSize      \* template parameter

ASSUME PoolAssumption == PoolSize \in Nat \ {0}

Entries == 0 .. PoolSize - 1

VARIABLES
  in_use,       \* for each entry, its atomic flag
  next_index,   \* shared by all calls; kept modulo PoolSize, as it is used
  call,         \* for each thread: step of allocate(), entries tried, entry drawn
  held,         \* history: entries that allocate() returned and not yet given back
  free,         \* history: entries free ever since the thread's call began
  missed        \* history: what was free throughout the last call that failed

vars == <<in_use, next_index, call, held, free, missed>>

Idle == [pc |-> "idle", i |-> 0, idx |-> 0]

Init ==
  /\ in_use = [e \in Entries |-> FALSE]
  /\ next_index = 0
  /\ call = [t \in Threads |-> Idle]
  /\ held = [t \in Threads |-> {}]
  /\ free = [t \in Threads |-> {}]
  /\ missed = {}
-----------------------------------------------------------------------------
AllocateBegin(t) ==
  /\ call[t].pc = "idle"
  /\ call' = [call EXCEPT ![t] = [Idle EXCEPT !.pc = "draw"]]
  /\ free' = [free EXCEPT ![t] = {e \in Entries : ~in_use[e]}]
  /\ UNCHANGED <<in_use, next_index, held, missed>>

\* next_index_++; the mutant reads the counter after the increment, without %.
DrawPast(t) ==
  /\ call[t].pc = "draw"
  /\ call[t].i < PoolSize
  /\ call' = [call EXCEPT ![t].pc = "try", ![t].idx = next_index + 1]
  /\ next_index' = (next_index + 1) % PoolSize
  /\ UNCHANGED <<in_use, held, free, missed>>

Draw(t) ==
  /\ call[t].pc = "draw"
  /\ call[t].i < PoolSize
  /\ call' = [call EXCEPT ![t].pc = "try", ![t].idx = next_index]
  /\ next_index' = (next_index + 1) % PoolSize
  /\ UNCHANGED <<in_use, held, free, missed>>

\* compare_exchange_strong(false, true).  The mutant reads, then writes.
TakesUnchecked(t) == TRUE
Takes(t) == ~in_use[call[t].idx]

Take(t) ==
  /\ call[t].pc = "try"
  /\ Takes(t)
  /\ in_use' = [in_use EXCEPT ![call[t].idx] = TRUE]
  /\ held' = [held EXCEPT ![t] = @ \union {call[t].idx}]
  /\ free' = [u \in Threads |-> IF u = t THEN {} ELSE free[u] \ {call[t].idx}]
  /\ call' = [call EXCEPT ![t] = Idle]
  /\ UNCHANGED <<next_index, missed>>

Miss(t) ==
  /\ call[t].pc = "try"
  /\ ~Takes(t)
  /\ call' = [call EXCEPT ![t].pc = "draw", ![t].i = @ + 1, ![t].idx = 0]
  /\ UNCHANGED <<in_use, next_index, held, free, missed>>

\* All entries tried: nullptr.
Fail(t) ==
  /\ call[t].pc = "draw"
  /\ call[t].i = PoolSize
  /\ missed' = free[t]
  /\ free' = [free EXCEPT ![t] = {}]
  /\ call' = [call EXCEPT ![t] = Idle]
  /\ UNCHANGED <<in_use, next_index, held>>

\* Mutant: the search stops before the last entry.
DeallocateNotLast(t, e) ==
  /\ call[t].pc = "idle"
  /\ e \in held[t]
  /\ in_use' = IF e < PoolSize - 1 THEN [in_use EXCEPT ![e] = FALSE] ELSE in_use
  /\ held' = [held EXCEPT ![t] = @ \ {e}]
  /\ UNCHANGED <<next_index, call, free, missed>>

Deallocate(t, e) ==
  /\ call[t].pc = "idle"
  /\ e \in held[t]
  /\ in_use' = [in_use EXCEPT ![e] = FALSE]
  /\ held' = [held EXCEPT ![t] = @ \ {e}]
  /\ UNCHANGED <<next_index, call, free, missed>>

Next ==
  \E t \in Threads :
    \/ AllocateBegin(t) \/ Draw(t) \/ Take(t) \/ Miss(t) \/ Fail(t)
    \/ \E e \in Entries : Deallocate(t, e)

Spec == Init /\ [][Next]_vars
-----------------------------------------------------------------------------
TypeOK ==
  /\ in_use \in [Entries -> BOOLEAN]
  /\ next_index \in Entries
  /\ call \in [Threads -> [pc : {"idle", "draw", "try"}, i : 0 .. PoolSize, idx : Entries]]
  /\ held \in [Threads -> SUBSET Entries]
  /\ free \in [Threads -> SUBSET Entries]
  /\ missed \subseteq Entries

\* No entry is ever in the hands of two threads, whatever the interleaving of
\* allocate() and deallocate().
Exclusive == \A t, u \in Threads : t # u => held[t] \cap held[u] = {}

\* The flags are exact: an entry is in use if and only if some thread has it,
\* so that none is lost and none that is in use is given out.
FlagsExact == \A e \in Entries : in_use[e] <=> \E t \in Threads : e \in held[t]

\* "Pool exhausted" (allocate, line 173): nullptr is returned only when no
\* entry was free throughout the call.
FailsOnlyWhenExhausted == missed = {}
=============================================================================
