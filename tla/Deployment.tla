----------------------------- MODULE Deployment -----------------------------
(***************************************************************************)
(* The database's catalogue between the migration job (persistence/        *)
(* migrate.py), the hardening script (security/setup_security.py) and the  *)
(* API container that waits for the job (persistence/wait_for_migrate.py). *)
(*                                                                         *)
(* The job is four transactions, each one step here because PostgreSQL's   *)
(* DDL is transactional: others see all of it or nothing.  It may fail at  *)
(* any of them and may be run again.  The script's statements commit one   *)
(* by one, and a statement that fails is only reported.                    *)
(*                                                                         *)
(*   tables     tables that exist                                          *)
(*   role       does the role safenestt_app exist?                         *)
(*   functions  do the tenant context's functions exist, for that role?    *)
(*   privilege  what that role may do with each table                      *)
(*   secured    tables with row level security on and forced, and a policy *)
(*   default    are ALL privileges on new tables the role's by default?    *)
(*   job        the migration's next transaction, or how it ended          *)
(*   script     the hardening script's next statement                      *)
(*   api        the API container                                          *)
(*   waited     how often it has polled, of MaxPolls times                 *)
(***************************************************************************)
EXTENDS Naturals

CONSTANTS Protected,  \* the tables rls.py names
          Audit,      \* audit_events, one of them
          Plain,      \* api_keys, api_key_audit and rate_limits
          ContextTable,    \* _tenant_context
          Marker,     \* _migration_complete
          MaxPolls    \* polls within wait_for_migration's timeout

ASSUME TablesAssumption ==
  /\ Audit \in Protected /\ Protected \cap Plain = {}
  /\ ContextTable # Marker /\ {ContextTable, Marker} \cap (Protected \cup Plain) = {}
ASSUME BoundsAssumption == MaxPolls \in Nat

VARIABLES tables, role, functions, privilege, secured, default,
          job, script, api, waited

catalog == <<tables, role, functions, privilege, secured, default>>
deployVars    == <<catalog, job, script, api, waited>>

Model == Protected \cup Plain              \* Base.metadata
Table == Model \cup {ContextTable, Marker}
Use   == {"SELECT", "INSERT", "UPDATE", "DELETE"}
Done  == {"idle", "returned 0", "returned 1"}

DeployTypeOK ==
  /\ tables \subseteq Table /\ secured \subseteq tables
  /\ role \in BOOLEAN /\ functions \in BOOLEAN /\ default \in BOOLEAN
  /\ privilege \in [Table -> SUBSET Use]
  /\ \A t \in Table : privilege[t] # {} => role /\ t \in tables
  /\ job \in {"create", "context", "policies", "grants"} \cup Done
  /\ script \in {"idle", "revoke", "grant"}
  /\ api \in {"down", "waiting", "up", "exited"}
  /\ waited \in 0 .. MaxPolls

DeployInit ==
  /\ tables = {} /\ secured = {}
  /\ role = FALSE /\ functions = FALSE /\ default = FALSE
  /\ privilege = [t \in Table |-> {}]
  /\ job = "idle" /\ script = "idle"
  /\ api = "down" /\ waited = 0

-----------------------------------------------------------------------------
(* The migration job *)

(* Tables that a transaction creates, with the privileges of new tables.    *)
Created(new) ==
  /\ tables' = tables \cup new
  /\ privilege' = [t \in Table |-> IF default /\ t \in new \ tables THEN Use ELSE privilege[t]]

StartJob ==
  /\ job \in Done
  /\ job' = "create"
  /\ UNCHANGED <<catalog, script, api, waited>>

(* create_all: only what is missing is created.                             *)
CreateTables ==
  /\ job = "create"
  /\ Created(Model)
  /\ job' = "context"
  /\ UNCHANGED <<role, functions, secured, default, script, api, waited>>

(* A mutant: the grants come before the policies.                           *)
CreateContextThenGrant ==
  /\ job = "context"
  /\ role' = TRUE /\ functions' = TRUE
  /\ tables' = tables \cup {ContextTable}
  /\ privilege' = [privilege EXCEPT ![ContextTable] = {}]
  /\ job' = "grants"
  /\ UNCHANGED <<secured, default, script, api, waited>>

(* The role, _tenant_context without privileges for it, and the functions,  *)
(* which the role may execute and PUBLIC may not.                           *)
CreateContext ==
  /\ job = "context"
  /\ role' = TRUE /\ functions' = TRUE
  /\ tables' = tables \cup {ContextTable}
  /\ privilege' = [privilege EXCEPT ![ContextTable] = {}]
  /\ job' = "policies"
  /\ UNCHANGED <<secured, default, script, api, waited>>

(* apply_rls_policies: one missing table fails all of it.                   *)
ApplyPolicies ==
  /\ job = "policies"
  /\ Protected \subseteq tables /\ functions
  /\ secured' = Protected
  /\ job' = "grants"
  /\ UNCHANGED <<tables, role, functions, privilege, default, script, api, waited>>

(* A mutant: the privileges on _tenant_context are not revoked again.       *)
GrantPrivilegesToAll ==
  /\ job = "grants"
  /\ privilege' = [t \in Table |-> IF t \in tables THEN Use ELSE {}]
  /\ default' = TRUE
  /\ job' = "returned 0"
  /\ UNCHANGED <<tables, role, functions, secured, script, api, waited>>

(* GRANT ... ON ALL TABLES gives the role _tenant_context as well, until    *)
(* the transaction's last statements take it back.                          *)
GrantPrivileges ==
  /\ job = "grants"
  /\ privilege' = [t \in Table |-> IF t \in tables \ {ContextTable} THEN Use ELSE {}]
  /\ default' = TRUE
  /\ job' = "returned 0"
  /\ UNCHANGED <<tables, role, functions, secured, script, api, waited>>

(* A mutant: the exception is logged, and the job returns 0.                *)
FailJobQuietly ==
  /\ job \notin Done
  /\ job' = "returned 0"
  /\ UNCHANGED <<catalog, script, api, waited>>

(* Any exception ends the job, whatever its earlier transactions committed. *)
FailJob ==
  /\ job \notin Done
  /\ job' = "returned 1"
  /\ UNCHANGED <<catalog, script, api, waited>>

-----------------------------------------------------------------------------
(* The hardening script: it stops where audit_events does not exist.        *)

StartScript ==
  /\ script = "idle"
  /\ Audit \in tables
  /\ script' = "revoke"
  /\ UNCHANGED <<catalog, job, api, waited>>

(* Both statements fail, and are skipped, without the role or the table.    *)
RevokeAudit ==
  /\ script = "revoke"
  /\ script' = "grant"
  /\ privilege' = [privilege EXCEPT ![Audit] = @ \ {"UPDATE", "DELETE"}]
  /\ UNCHANGED <<tables, role, functions, secured, default, job, api, waited>>

GrantAudit ==
  LET works == role /\ Audit \in tables IN
  /\ script = "grant"
  /\ script' = "idle"
  /\ privilege' = [privilege EXCEPT ![Audit] = IF works THEN @ \cup {"INSERT"} ELSE @]
  /\ UNCHANGED <<tables, role, functions, secured, default, job, api, waited>>

-----------------------------------------------------------------------------
(* docker compose up starts the API container, which waits first.           *)
StartApi ==
  /\ api \in {"down", "exited"}
  /\ api' = "waiting" /\ waited' = 0
  /\ UNCHANGED <<catalog, job, script>>

(* wait_for_migration: one poll.  ensure_schema, which the API then runs as *)
(* safenestt_app, can create nothing and change no policy, and changes      *)
(* nothing.                                                                 *)
Poll ==
  /\ api = "waiting"
  /\ waited < MaxPolls
  /\ api' = IF Marker \in tables THEN "up"
            ELSE IF waited + 1 = MaxPolls THEN "exited" ELSE "waiting"
  /\ waited' = waited + 1
  /\ UNCHANGED <<catalog, job, script>>

-----------------------------------------------------------------------------
DeployNext ==
  \/ StartJob \/ CreateTables \/ CreateContext \/ ApplyPolicies \/ GrantPrivileges \/ FailJob
  \/ StartScript \/ RevokeAudit \/ GrantAudit
  \/ StartApi \/ Poll

DeploySpec == DeployInit /\ [][DeployNext]_deployVars

-----------------------------------------------------------------------------
(* Properties *)

(* In no committed state, of any run and rerun of the job, may the API's    *)
(* role touch the table that says which tenant a connection acts for.       *)
ContextIsPrivate == privilege[ContextTable] = {}

(* At no point between the job's transactions, also of a run that fails or  *)
(* is repeated, can the role read a table that rls.py protects without its  *)
(* policies.                                                                *)
NoReadsWithoutPolicies == \A t \in Protected : "SELECT" \in privilege[t] => t \in secured

ReadOrAdd == {"SELECT", "INSERT"}

(* A job that returns 0 leaves everything the API needs, whatever failed    *)
(* runs came before it and whatever the script did in between: all          *)
(* privileges on every table, of which the API's code uses but reading and  *)
(* adding on audit_events.                                                  *)
MigratedIsComplete ==
  [][job' = "returned 0" /\ job' # job
       => /\ Protected \subseteq secured' /\ role' /\ functions'
          /\ \A t \in Model \ {Audit} : privilege'[t] = Use
          /\ ReadOrAdd \subseteq privilege'[Audit]]_deployVars

(* What setup_security.py says of itself, run "ONCE to apply permanent      *)
(* security hardening": on a migrated database where the role may only read *)
(* and add audit events, nothing gives it more.  Not so, since a repeated   *)
(* migration grants all on all tables.                                      *)
AuditStaysInsertOnly ==
  [][default /\ privilege[Audit] = ReadOrAdd => privilege'[Audit] \subseteq ReadOrAdd]_deployVars
=============================================================================
