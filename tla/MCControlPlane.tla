--------------------------- MODULE MCControlPlane ---------------------------
(* TLC instances of ControlPlane.                                          *)
EXTENDS ControlPlane

CONSTANTS i1, i2, k1, k2
=============================================================================
