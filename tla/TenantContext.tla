---------------------------- MODULE TenantContext ----------------------------
(***************************************************************************)
(* The tenant context behind row level security: the _tenant_context table *)
(* and its functions (persistence/migrate.py), the policies that read it   *)
(* (persistence/rls.py) and the sessions that set it on pooled connections *)
(* (persistence/engine.py).                                                *)
(*                                                                         *)
(* The table has one row per backend process, that is per connection, and  *)
(* the row outlives the session that wrote it.  Some users of the pool     *)
(* (API key store, rate limiter, unit_of_work, PersistentStore) neither    *)
(* set nor clear it: they are "raw" sessions here.  A lost connection is a *)
(* rollback; its successor may get the same pid, and so finds the row.     *)
(*                                                                         *)
(*   clock    the database's clock                                         *)
(*   ended    per key, when it was revoked, deactivated or expired         *)
(*   context  the committed row of each connection                         *)
(*   pending  the row as the connection's open transaction sees it         *)
(*   began    NOW() of that transaction: the time it began                 *)
(*   session  per session, the connection and the scope it is open with    *)
(***************************************************************************)
EXTENDS Naturals

CONSTANTS Session, Connection, Tenant, Key,
          TenantOf,   \* api_keys.tenant_id by fingerprint
          Hour,       \* how long a context is valid
          MaxTime,    \* bound on the clock
          NoTenant, NoKey, NoConnection

ASSUME KeysAssumption == TenantOf \in [Key -> Tenant]
ASSUME NumbersAssumption == Hour \in Nat \ {0} /\ MaxTime \in Nat
ASSUME NoneAssumption == NoTenant \notin Tenant /\ NoKey \notin Key /\ NoConnection \notin Connection

VARIABLES clock, ended, context, pending, began, session

vars == <<clock, ended, context, pending, began, session>>

Never   == MaxTime + 1
Context == [tenant : Tenant, key : Key, expires : Hour .. MaxTime + Hour]
None    == [tenant |-> NoTenant, key |-> NoKey, expires |-> 0]
Closed  == [connection |-> NoConnection, kind |-> "raw", tenant |-> NoTenant]

TypeOK ==
  /\ clock \in 0 .. MaxTime
  /\ ended \in [Key -> 0 .. Never]
  /\ context \in [Connection -> Context \cup {None}]
  /\ pending \in [Connection -> Context \cup {None}]
  /\ began \in [Connection -> 0 .. MaxTime]
  /\ session \in [Session -> [connection : Connection \cup {NoConnection},
                              kind : {"scoped", "cleared", "raw"},
                              tenant : Tenant \cup {NoTenant}]]

Init ==
  /\ clock = 0
  /\ ended = [k \in Key |-> Never]
  /\ context = [c \in Connection |-> None]
  /\ pending = [c \in Connection |-> None]
  /\ began = [c \in Connection |-> 0]
  /\ session = [s \in Session |-> Closed]

IsOpen(s) == session[s].connection # NoConnection
Free(c)   == \A s \in Session : session[s].connection # c

-----------------------------------------------------------------------------
(* The functions of the database *)

(* A mutant: the context expires while a transaction runs.                  *)
SeesNow(s) ==
  LET r == pending[session[s].connection] IN
  IF r.expires > clock THEN r.tenant ELSE NoTenant

(* A mutant: expires_at is not looked at.                                   *)
SeesForEver(s) == pending[session[s].connection].tenant

(* get_current_tenant(): the rows of this tenant are the ones the policies  *)
(* let the session's transaction read and write.                            *)
Sees(s) ==
  LET c == session[s].connection IN
  IF pending[c].expires > began[c] THEN pending[c].tenant ELSE NoTenant

Active(key, tenant) == ended[key] = Never /\ TenantOf[key] = tenant

(* establish_tenant_context() inserts the row or overwrites all of it.      *)
Established(c, tenant, key) ==
  [tenant |-> tenant, key |-> key, expires |-> clock + Hour]

-----------------------------------------------------------------------------
(* Sessions *)

Start(s, c, kind, tenant, row) ==
  /\ ~IsOpen(s)
  /\ Free(c)
  /\ session' = [session EXCEPT ![s] = [connection |-> c, kind |-> kind, tenant |-> tenant]]
  /\ began' = [began EXCEPT ![c] = clock]
  /\ pending' = [pending EXCEPT ![c] = row]
  /\ UNCHANGED <<clock, ended, context>>

(* session_scope(tenant, fingerprint).  Without an active key of that       *)
(* tenant the function raises, and nothing but the connection was used.     *)
OpenScoped(s, c, tenant, key) ==
  /\ Active(key, tenant)
  /\ Start(s, c, "scoped", tenant, Established(c, tenant, key))

(* A mutant: nothing is cleared.                                            *)
OpenNotCleared(s, c) == Start(s, c, "cleared", NoTenant, context[c])

(* session_scope() without a tenant, and session_scope_bypass_rls()         *)
OpenCleared(s, c) == Start(s, c, "cleared", NoTenant, None)

OpenRaw(s, c) == Start(s, c, "raw", NoTenant, context[c])

Close(s) ==
  /\ IsOpen(s)
  /\ session' = [session EXCEPT ![s] = Closed]
  /\ pending' = [pending EXCEPT ![session[s].connection] = None]
  /\ UNCHANGED <<clock, ended, began>>

(* The body ends: commit, and the connection goes back to the pool with the *)
(* context on it.                                                           *)
Commit(s) ==
  /\ Close(s)
  /\ context' = [context EXCEPT ![session[s].connection] = pending[session[s].connection]]

(* The body raises: the context of an EARLIER session is on the connection  *)
(* again, also when this session had cleared it.                            *)
Rollback(s) == Close(s) /\ UNCHANGED context

-----------------------------------------------------------------------------
Tick ==
  /\ clock < MaxTime
  /\ clock' = clock + 1
  /\ UNCHANGED <<ended, context, pending, began, session>>

(* A key is revoked, deactivated or expires.                                *)
End(key) ==
  /\ ended[key] = Never
  /\ ended' = [ended EXCEPT ![key] = clock]
  /\ UNCHANGED <<clock, context, pending, began, session>>

Next ==
  \/ Tick
  \/ \E key \in Key : End(key)
  \/ \E s \in Session : Commit(s) \/ Rollback(s)
  \/ \E s \in Session, c \in Connection :
        \/ OpenCleared(s, c)
        \/ OpenRaw(s, c)
        \/ \E tenant \in Tenant, key \in Key : OpenScoped(s, c, tenant, key)

Spec == Init /\ [][Next]_vars

-----------------------------------------------------------------------------
(* Properties *)

(* Whatever ran on a pooled connection before, and however it ended: a      *)
(* session with a tenant sees that tenant, one without sees none.           *)
ScopeDecidesSight ==
  \A s \in Session :
     IsOpen(s) /\ session[s].kind # "raw" => Sees(s) = session[s].tenant

(* Any session, raw ones included, sees a tenant only by a context that a   *)
(* key of that tenant vouched for, and no longer than an hour after the key *)
(* has ended.                                                               *)
SightIsVouchedFor ==
  \A s \in Session :
     IsOpen(s) /\ Sees(s) # NoTenant =>
        LET c == session[s].connection IN
        /\ TenantOf[pending[c].key] = Sees(s)
        /\ began[c] < ended[pending[c].key] + Hour

(* What an open session sees does not change under it: not when time passes *)
(* or its key ends, nor when others open and close sessions.                *)
SightIsStable ==
  [][\A s \in Session : IsOpen(s) /\ session'[s] = session[s] => Sees(s)' = Sees(s)]_vars
=============================================================================
