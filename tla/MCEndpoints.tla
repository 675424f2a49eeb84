---------------------------- MODULE MCEndpoints ----------------------------
(***************************************************************************)
(* Values of the constants of Endpoints for TLC.  The workers of the       *)
(* upload pool are interchangeable.                                        *)
(***************************************************************************)
EXTENDS Endpoints, TLC

CONSTANTS main, w1, w2

Workers == {main, w1, w2}
OneWorker == {main, w1}
Symmetry == Permutations({w1, w2})
=============================================================================
