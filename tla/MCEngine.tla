------------------------------ MODULE MCEngine ------------------------------
(* Small instances of AdsRealtimeEngine for TLC. *)
EXTENDS AdsRealtimeEngine

\* A destroyed engine stops for good, on purpose; any other stop is a deadlock.
Destroyed == phase = "dead" /\ UNCHANGED vars

MCSpec == Init /\ [][Next \/ Destroyed]_vars /\ Fairness
=============================================================================
