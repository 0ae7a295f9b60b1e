---------------------------- MODULE MCBackground ----------------------------
(* TLC instances of BackgroundContinuation.                                *)
EXTENDS BackgroundContinuation

CONSTANTS t1, t2, j1
=============================================================================
