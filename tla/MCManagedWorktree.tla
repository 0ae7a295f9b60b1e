-------------------------- MODULE MCManagedWorktree --------------------------
(* TLC instances of ManagedWorktree.                                       *)
EXTENDS ManagedWorktree

CONSTANTS c1, c2, r1, r2, q1, q2, t1
=============================================================================
