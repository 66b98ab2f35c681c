---------------------------- MODULE MCTestRunner ----------------------------
(* An instance of TestRunner for TLC.                                      *)
EXTENDS TestRunner

CONSTANTS w1, w2, w3

FiveCases == <<3, 5, 1, 2, 4>>

=============================================================================
