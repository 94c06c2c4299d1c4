------------------------------- MODULE MCOCS -------------------------------
(* Small instances of OCS for TLC. *)
EXTENDS OCS, TLC

\* Requests and threads are named by interchangeable model values.
Symmetry == Permutations(Request) \cup Permutations(Thread)
=============================================================================
