---------------------------- MODULE MCApprovalGate ----------------------------
(* A small instance of ApprovalGate for TLC.                                 *)
EXTENDS ApprovalGate, TLC

CONSTANTS risky, lookup, o1, o2

MCSymmetry == Permutations({o1, o2})
=============================================================================
