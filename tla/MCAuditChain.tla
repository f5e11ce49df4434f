---------------------------- MODULE MCAuditChain ----------------------------
(* Small instances of AuditChain for TLC.                                   *)
EXTENDS AuditChain, TLC

CONSTANTS s1, s2, t1, t2, e1, e2, e3, e4

MCSymmetry == Permutations(Event) \cup Permutations(Tenant)
=============================================================================
