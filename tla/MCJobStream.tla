----------------------------- MODULE MCJobStream -----------------------------
(* TLC instances of JobStream.                                             *)
EXTENDS JobStream

CONSTANTS c1, c2, tm1, tm2

\* Clients differ in nothing but their names.
MCSymmetry == Permutations(Clients)
=============================================================================
