-------------------------- MODULE MCTurnScheduler --------------------------
(* TLC instances of TurnScheduler.                                         *)
EXTENDS TurnScheduler, TLC

CONSTANTS s1, s2, s3, t1, t2, t3, t4

MCSessions == {s1, s2, s3}
MCTurns == {t1, t2, t3, t4}
MCSessionOf == t1 :> s1 @@ t2 :> s1 @@ t3 :> s2 @@ t4 :> s3

\* The smallest instance in which one session could keep another one out.
TwoSessions == {s1, s2}
ThreeTurns == {t1, t2, t3}
SessionOfThree == t1 :> s1 @@ t2 :> s1 @@ t3 :> s2

\* The two turns of session s1 are interchangeable.
MCSymmetry == Permutations({t1, t2})
=============================================================================
