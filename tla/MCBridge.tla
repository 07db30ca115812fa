------------------------------- MODULE MCBridge -------------------------------
(* Bridge for TLC: the process may stop only when main has returned. *)
EXTENDS Bridge

MCSpec == Init /\ [][Next \/ (main = "done" /\ UNCHANGED vars)]_vars /\ Fairness
=============================================================================
