------------------------------ MODULE SampleFeed ------------------------------
(***************************************************************************)
(* What the bridge promises about the samples of a variable: each one that *)
(* the router reports reaches the broker at most once and in the order of  *)
(* the reports, or is lost; and none is reported before the variable is    *)
(* added or after the engine has stopped, which happens once.              *)
(***************************************************************************)
EXTENDS Integers, Sequences

VARIABLES
  feed,         \* before, open, closed
  reported,     \* number of the latest sample
  pending,      \* samples on their way, oldest first
  delivered     \* samples at the broker

vars == <<feed, reported, pending, delivered>>

Init ==
  /\ feed = "before"
  /\ reported = 0
  /\ pending = <<>>
  /\ delivered = <<>>

Open ==
  /\ feed = "before"
  /\ feed' = "open"
  /\ UNCHANGED <<reported, pending, delivered>>

\* The program may also end without ever having opened the feed.
Close ==
  /\ feed # "closed"
  /\ feed' = "closed"
  /\ UNCHANGED <<reported, pending, delivered>>

Report ==
  /\ feed = "open"
  /\ reported' = reported + 1
  /\ pending' = Append(pending, reported')
  /\ UNCHANGED <<feed, delivered>>

\* The link goes with all that is on it, or a publish() is refused: a run of
\* samples is lost.
Lose ==
  /\ \E i, j \in 0 .. Len(pending) :
       /\ i < j
       /\ pending' = SubSeq(pending, 1, i) \o SubSeq(pending, j + 1, Len(pending))
  /\ UNCHANGED <<feed, reported, delivered>>

Deliver ==
  /\ pending # <<>>
  /\ delivered' = Append(delivered, Head(pending))
  /\ pending' = Tail(pending)
  /\ UNCHANGED <<feed, reported>>

Next == Open \/ Close \/ Report \/ Lose \/ Deliver

Spec == Init /\ [][Next]_vars
=============================================================================
