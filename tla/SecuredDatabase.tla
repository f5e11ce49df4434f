---------------------------- MODULE SecuredDatabase ----------------------------
(***************************************************************************)
(* Tenants of a database that is being migrated: sessions of the role      *)
(* safenestt_app (TenantContext) on the catalogue that the migration job   *)
(* and the hardening script make and remake (Deployment).  Sessions need   *)
(* the role and the functions, which the job makes in one transaction, and *)
(* run on while it fails and is run again.                                 *)
(***************************************************************************)
EXTENDS TenantContext, Deployment

dbVars == <<vars, deployVars>>

DbTypeOK == TypeOK /\ DeployTypeOK

DbInit == Init /\ DeployInit

(* A session is opened by the role, and calls establish_tenant_context() or *)
(* clear_tenant_context() first, or get_current_tenant() in every policy.   *)
UseSessions ==
  /\ Next
  /\ session' # session => role /\ functions
  /\ UNCHANGED deployVars

Deploy == DeployNext /\ UNCHANGED vars

DbNext == UseSessions \/ Deploy

DbSpec == DbInit /\ [][DbNext]_dbVars

-----------------------------------------------------------------------------
(* The tenants whose rows of table t a session's statement reads.  (Rows of *)
(* audit_events that name no investigation belong to no tenant; the policy  *)
(* shows them to everyone.)                                                 *)
Reads(s, t) ==
  CASE "SELECT" \notin privilege[t] -> {}
    [] t \in secured                -> {Sees(s)} \ {NoTenant}
    [] OTHER                        -> Tenant

(* At any point of a migration, its failure, its repetition and the         *)
(* hardening, and whatever ran on the connection before: what a session     *)
(* reads of a protected table belongs to a tenant one of whose keys vouched *)
(* for the context, and had not ended an hour before.                       *)
ReadsAreVouchedFor ==
  \A s \in Session, t \in Protected :
     IsOpen(s) =>
        LET row == pending[session[s].connection] IN
        \A tenant \in Reads(s, t) :
           /\ row # None
           /\ TenantOf[row.key] = tenant
           /\ began[session[s].connection] < ended[row.key] + Hour
=============================================================================
