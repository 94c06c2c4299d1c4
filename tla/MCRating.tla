------------------------------ MODULE MCRating ------------------------------
(* Small instances of Rating for TLC. *)
EXTENDS Rating, TLC

\* Requests and threads are named by interchangeable model values.
Symmetry == Permutations(Request) \cup Permutations(Thread)
=============================================================================
