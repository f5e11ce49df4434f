-------------------------------- MODULE MCApi --------------------------------
(* A small instance of Api for TLC: k1 and k2 belong to t1.                 *)
EXTENDS Api, TLC

CONSTANTS w1, w2, k1, k2, t1, t2

MCTenantOf == [k \in Key |-> t1]
MCSymmetry == Permutations(Thread)
=============================================================================
