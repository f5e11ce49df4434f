---------------------------- MODULE MCDarkwebMonitor ----------------------------
(* Two scans that may overlap and two entries of one keyword.               *)
EXTENDS DarkwebMonitor, TLC

CONSTANTS s1, s2, t1, t2, k1

MCKeywordOf == [t \in Target |-> k1]

MCSymmetry == Permutations(Scan) \cup Permutations(Target)
=============================================================================
