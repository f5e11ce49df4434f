----------------------------- MODULE MCApiKeys -----------------------------
(* A small instance of ApiKeys for TLC.                                     *)
EXTENDS ApiKeys, TLC

CONSTANTS w1, w2, k1, k2

WorkerSymmetry == Permutations(Worker)
=============================================================================
