--------------------------- MODULE MCSessionStore ---------------------------
(* SessionStore for TLC.                                                   *)
EXTENDS SessionStore, TLC

\* Stores, sessions and files are alike.
Symmetry == Permutations(Writers) \cup Permutations(Sessions) \cup Permutations(Files)

=============================================================================
