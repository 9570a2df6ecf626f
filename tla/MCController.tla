---------------------------- MODULE MCController ----------------------------
(* Controller for TLC.                                                      *)
EXTENDS Controller, TLC

GoodSymmetry == Permutations(Good)
=============================================================================
