------------------------------- MODULE MCOCF -------------------------------
(* Small instances of OCF for TLC. *)
EXTENDS OCFProperties, TLC

\* Requests and sessions are named by interchangeable model values.
Symmetry == Permutations(Request) \cup Permutations(SessionId)
=============================================================================
