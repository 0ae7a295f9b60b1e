---------------------------- MODULE MCAutomation ----------------------------
(* TLC instances of Automation.                                            *)
EXTENDS Automation

CONSTANTS a1, a2

OneRecurring == {<<"recurring", 2>>}
OneOfEach == {<<"once", 2>>, <<"recurring", 2>>}
TwoRecurring == {<<"once", 2>>, <<"recurring", 2>>, <<"recurring", 3>>}
=============================================================================
