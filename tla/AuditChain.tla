----------------------------- MODULE AuditChain -----------------------------
(***************************************************************************)
(* The hash chain of audit_events: AuditEventRepository of                 *)
(* safenestt/persistence/repositories.py, used by sessions of several      *)
(* tenants under the row-level security of safenestt/persistence/rls.py.   *)
(*                                                                         *)
(* record() reads the chain_hash of the latest row its session can see,    *)
(* hashes the event onto it and inserts; the caller commits later.  ids    *)
(* come from a sequence, which a rollback does not rewind.  SHA-256 is     *)
(* taken to be injective: a hash is the sequence of what was hashed.       *)
(* decision stands for the five columns that are hashed with the event,    *)
(* risk_level for those that are not.                                      *)
(*                                                                         *)
(*   table     the committed rows                                          *)
(*   pending   per session, rows it has inserted and not committed         *)
(*   nextId    the id sequence                                             *)
(*   drawn     events that have been recorded (event_id is a fresh uuid)   *)
(*   recorded  history: the rows as they were committed                    *)
(*   edited    history: a row was changed or deleted behind the code's back*)
(*   apart     history: tenants that saw other rows than the session that  *)
(*             hashed a shared event onto what it saw                      *)
(***************************************************************************)
EXTENDS Naturals, SequencesExt

CONSTANTS Session, Tenant,
          Event,    \* event ids
          Owners,   \* "mine": events of an investigation of the tenant;
                    \* "shared": events whose investigation_id is NULL
          Limit,    \* the limit list_all is called with
          MaxEdits  \* rows that are not as they were recorded (a bound)

VARIABLES table, pending, nextId, drawn, pc, tenant, event, owner, previous,
          recorded, edited, apart

history == <<recorded, edited, apart>>
vars == <<table, pending, nextId, drawn, pc, tenant, event, owner, previous, history>>

Shared == "shared"
ASSUME TenantAssumption == Shared \notin Tenant
ASSUME LimitAssumption  == Limit \in Nat

Hashed == [event : Event, decision : {"ALLOW", "DENY"}]
Data   == [event : Event, decision : {"ALLOW", "DENY"}, risk_level : {"LOW", "HIGH"}]
RowOwner == Tenant \cup {Shared}
Row    == [id : Nat, data : Data, owner : RowOwner, chain_hash : Seq(Hashed)]

Init ==
  /\ table = {}
  /\ pending = [s \in Session |-> {}]
  /\ nextId = 1
  /\ drawn = {}
  /\ pc = [s \in Session |-> "closed"]
  /\ tenant \in [Session -> Tenant]
  /\ event \in [Session -> [event : Event, decision : {"ALLOW"}, risk_level : {"LOW"}]]
  /\ owner = tenant
  /\ previous = [s \in Session |-> <<>>]
  /\ recorded = {}
  /\ edited = FALSE
  /\ apart = {}

-----------------------------------------------------------------------------
(* ORDER BY id: a row's place is the number of rows up to it.               *)
Place(rows, r) == Cardinality({q \in rows : q.id =< r.id})
InOrder(rows) ==
  [n \in 1 .. Cardinality(rows) |-> CHOOSE r \in rows : Place(rows, r) = n]

(* What a session of tenant t sees of a set of rows.                        *)
Visible(rows, t) == {r \in rows : r.owner \in {t, Shared}}
Seen(rows, t) == InOrder(Visible(rows, t))

(* The columns that record() and verify_chain_integrity() hash.             *)
event_data(data) == [event |-> data.event, decision |-> data.decision]

(* The hash of the empty sequence stands for None, hashed as "GENESIS".     *)
compute_hash(prev, data) == Append(prev, event_data(data))

(* A mutant: the latest row of the table, whoever may see it.               *)
get_previous_hash_any(s) ==
  LET rows == InOrder(table \cup pending[s]) IN
  IF rows = <<>> THEN <<>> ELSE Last(rows).chain_hash

get_previous_hash(s) ==
  LET rows == Seen(table \cup pending[s], tenant[s]) IN
  IF rows = <<>> THEN <<>> ELSE Last(rows).chain_hash

list_all(t) ==
  LET rows == Seen(table, t) IN
  SubSeq(rows, 1, IF Len(rows) < Limit THEN Len(rows) ELSE Limit)

(* A mutant: a row's data is not compared, only the length of the chain.    *)
verify_length(rows) ==
  \A n \in DOMAIN rows : Len(rows[n].chain_hash) = n

(* verify_chain_integrity: each stored hash is the one expected after all   *)
(* the rows before it, hashed from the data those rows have now.            *)
verify_chain_integrity(rows) ==
  LET expected == [n \in 0 .. Len(rows) |-> [m \in 1 .. n |-> event_data(rows[m].data)]] IN
  \A n \in DOMAIN rows :
     rows[n].chain_hash = compute_hash(expected[n - 1], rows[n].data)

-----------------------------------------------------------------------------
Goto(s, from, to) == pc[s] = from /\ pc' = [pc EXCEPT ![s] = to]

(* set_tenant_context                                                       *)
Begin(s, t) ==
  /\ Goto(s, "closed", "open")
  /\ tenant' = [tenant EXCEPT ![s] = t]
  /\ UNCHANGED <<table, pending, nextId, drawn, event, owner, previous, history>>

(* Tenants that do not see what session s sees.                             *)
NotSeeing(s) ==
  {t \in Tenant : Visible(table \cup pending[s], t)
                    # Visible(table \cup pending[s], tenant[s])}

(* record(e), first half: the previous hash is read.                        *)
ReadPrevious(s, d, o) ==
  /\ d.event \notin drawn
  /\ Goto(s, "open", "recording")
  /\ drawn' = drawn \cup {d.event}
  /\ event' = [event EXCEPT ![s] = d]
  /\ owner' = [owner EXCEPT ![s] = IF o = "shared" THEN Shared ELSE tenant[s]]
  /\ previous' = [previous EXCEPT ![s] = get_previous_hash(s)]
  /\ apart' = IF o = "shared" THEN apart \cup NotSeeing(s) ELSE apart
  /\ UNCHANGED <<table, pending, nextId, tenant, recorded, edited>>

(* record(e), second half: add and flush.                                   *)
Insert(s) ==
  /\ Goto(s, "recording", "open")
  /\ pending' = [pending EXCEPT ![s] = @ \cup
       {[id |-> nextId, data |-> event[s], owner |-> owner[s],
         chain_hash |-> compute_hash(previous[s], event[s])]}]
  /\ nextId' = nextId + 1
  /\ UNCHANGED <<table, drawn, tenant, event, owner, previous, history>>

Commit(s) ==
  /\ Goto(s, "open", "closed")
  /\ table' = table \cup pending[s]
  /\ pending' = [pending EXCEPT ![s] = {}]
  /\ recorded' = recorded \cup pending[s]
  /\ UNCHANGED <<nextId, drawn, tenant, event, owner, previous, edited, apart>>

(* An error, a lost connection or a crash before the commit.                *)
Rollback(s) ==
  /\ pc[s] # "closed"
  /\ pc' = [pc EXCEPT ![s] = "closed"]
  /\ pending' = [pending EXCEPT ![s] = {}]
  /\ UNCHANGED <<table, nextId, drawn, tenant, event, owner, previous, history>>

(* The database owner, whom the REVOKE of the app role does not bind, puts  *)
(* other values in the columns of a committed row, hashed or not, or moves  *)
(* the row to an investigation of another tenant or of none.  The chain is  *)
(* left alone: against hashes computed again it is no protection.           *)
Edit(r, d, o) ==
  /\ Cardinality(recorded \ table) < MaxEdits
  /\ d.event = r.data.event
  /\ table' = (table \ {r}) \cup {[r EXCEPT !.data = d, !.owner = o]}
  /\ edited' = TRUE
  /\ UNCHANGED <<pending, nextId, drawn, pc, tenant, event, owner, previous, recorded, apart>>

Delete(r) ==
  /\ Cardinality(recorded \ table) < MaxEdits
  /\ table' = table \ {r}
  /\ edited' = TRUE
  /\ UNCHANGED <<pending, nextId, drawn, pc, tenant, event, owner, previous, recorded, apart>>

Next ==
  \/ \E s \in Session :
       \/ \E t \in Tenant : Begin(s, t)
       \/ \E d \in Data, o \in Owners : ReadPrevious(s, d, o)
       \/ Insert(s) \/ Commit(s) \/ Rollback(s)
  \/ \E r \in table :
       \/ \E d \in Data, o \in RowOwner : Edit(r, d, o)
       \/ Delete(r)

Spec == Init /\ [][Next]_vars

-----------------------------------------------------------------------------
(* Properties *)

TypeOK ==
  /\ table \subseteq Row
  /\ pending \in [Session -> SUBSET Row]
  /\ nextId \in Nat
  /\ drawn \subseteq Event
  /\ pc \in [Session -> {"closed", "open", "recording"}]
  /\ tenant \in [Session -> Tenant]
  /\ event \in [Session -> Data]
  /\ owner \in [Session -> RowOwner]
  /\ previous \in [Session -> Seq(Hashed)]
  /\ recorded \subseteq Row
  /\ edited \in BOOLEAN
  /\ apart \subseteq Tenant

(* As long as nobody edits the table, what a tenant lists verifies: also    *)
(* after rollbacks, with several events in one transaction and gaps in the  *)
(* ids.  Not so for tenants for whom a shared event was hashed onto other   *)
(* rows than they see.                                                      *)
ChainVerifies ==
  ~edited => \A t \in Tenant \ apart : verify_chain_integrity(list_all(t))

(* What the tests of the chain take for granted: it verifies for everybody. *)
EveryChainVerifies ==
  ~edited => \A t \in Tenant : verify_chain_integrity(list_all(t))

(* If a list verifies, every event that a hash in it was built on is still  *)
(* in it, under its id and with the hashed columns it was recorded with:    *)
(* none was changed in these, deleted or moved away, whatever was recorded  *)
(* before and after.  Other columns, rows that no listed hash was built on, *)
(* such as deleted ones at the end, and rows beyond the limit are not seen. *)
TamperingIsDetected ==
  \A t \in Tenant : verify_chain_integrity(list_all(t)) =>
    \A n \in DOMAIN list_all(t), r \in recorded :
       IsPrefix(r.chain_hash, list_all(t)[n].chain_hash) =>
         \E m \in 1 .. n :
            /\ list_all(t)[m].id = r.id
            /\ event_data(list_all(t)[m].data) = event_data(r.data)

(* What the class says of itself: a historical row that is no longer what   *)
(* was recorded makes the verification fail when rows follow it.            *)
HistoryIsTamperEvident ==
  \A t \in Tenant :
     (\E n \in DOMAIN list_all(t) :
        n < Len(list_all(t)) /\ list_all(t)[n] \notin recorded)
       => ~verify_chain_integrity(list_all(t))
=============================================================================
