-------------------------- MODULE MCSecuredDatabase --------------------------
(* A small instance of SecuredDatabase for TLC: one key for each tenant.    *)
EXTENDS SecuredDatabase, TLC

CONSTANTS s1, s2, c1, c2, k1, k2, t1, t2, investigations, audit_events, api_keys

MCTenantOf == k1 :> t1 @@ k2 :> t2
MCSymmetry == Permutations(Session) \cup Permutations(Connection)
=============================================================================
