-------------------------- MODULE MCClientRequests --------------------------
(* TLC instances of ClientRequests.                                        *)
EXTENDS ClientRequests

CONSTANTS c1, c2, a1, q1, w1
=============================================================================
