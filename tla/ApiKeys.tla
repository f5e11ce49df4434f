------------------------------ MODULE ApiKeys ------------------------------
(***************************************************************************)
(* APIKeyStore of safenestt/security/api_keys.py, used by several workers. *)
(*                                                                         *)
(* Every method is one transaction on the api_keys and api_key_audit       *)
(* tables: it reads the rows, spends its time verifying Argon2 hashes, and *)
(* then writes, at its commit, the columns it assigned.  Reading and       *)
(* writing are two actions, and what was read may be stale by then.        *)
(* rotate_key is three transactions: validate_key, revoke_key, create_key. *)
(*                                                                         *)
(*   rows     per raw key, its committed row (a hash matches one key only) *)
(*   audit    per key and action, how many audit rows are committed        *)
(*   expired  keys whose expires_at has passed                             *)
(*   op, key  per worker, the method it runs and the key it was given      *)
(*   snap     per worker, the rows it read                                 *)
(*   due      per worker, the keys expired at its own time now             *)
(*   new      per worker, the key its rotation created                     *)
(*   back     history: keys for which a revocation has returned True       *)
(*   late     history, per worker: its key was in back when it was called  *)
(*   calls    history: calls made, bounded by MaxCalls                     *)
(***************************************************************************)
EXTENDS Naturals

CONSTANTS Worker, Key,
          Expiring,   \* keys created with an expires_at
          MaxCalls    \* bound on the number of calls

ASSUME ExpiringAssumption == Expiring \subseteq Key
ASSUME MaxCallsAssumption == MaxCalls \in Nat

VARIABLES rows, audit, expired, pc, op, key, snap, due, new, back, late, calls

tables  == <<rows, audit>>
worker  == <<op, key, snap, due, new>>
history == <<back, late, calls>>
vars    == <<tables, expired, pc, worker, history>>

Action == {"create", "revoke", "validate_success", "validate_revoked",
           "validate_expired", "validate_inactive", "cleanup_expired"}
Method == {"create_key", "revoke_key", "validate_key", "rotate_key", "cleanup_expired"}
Row    == [exists : BOOLEAN, active : BOOLEAN, revoked : BOOLEAN, use_count : Nat]
Busy   == {"validate", "validating", "revoke", "revoking", "create", "cleanup", "cleaning"}
Stopped == {"idle", "valid", "invalid", "revoked", "unknown", "created", "rotated",
            "cleaned", "failed"}

NoRow  == [exists |-> FALSE, active |-> FALSE, revoked |-> FALSE, use_count |-> 0]
NewRow == [exists |-> TRUE, active |-> TRUE, revoked |-> FALSE, use_count |-> 0]

TypeOK ==
  /\ rows \in [Key -> Row]
  /\ audit \in [Key -> [Action -> Nat]]
  /\ expired \subseteq Expiring
  /\ pc \in [Worker -> Busy \cup Stopped]
  /\ op \in [Worker -> Method]
  /\ key \in [Worker -> Key]
  /\ snap \in [Worker -> [Key -> Row]]
  /\ due \in [Worker -> SUBSET Expiring]
  /\ new \in [Worker -> Key]
  /\ back \subseteq Key
  /\ late \in [Worker -> BOOLEAN]
  /\ calls \in Nat

Init ==
  /\ rows = [k \in Key |-> NoRow]
  /\ audit = [k \in Key |-> [a \in Action |-> 0]]
  /\ expired = {}
  /\ pc = [w \in Worker |-> "idle"]
  /\ op = [w \in Worker |-> "create_key"]
  /\ key \in [Worker -> Key]
  /\ snap = [w \in Worker |-> rows]
  /\ due = [w \in Worker |-> {}]
  /\ new = key
  /\ back = {}
  /\ late = [w \in Worker |-> FALSE]
  /\ calls = 0

Goto(w, from, to) == pc[w] = from /\ pc' = [pc EXCEPT ![w] = to]

(* _record_audit: an audit row for k, in the same transaction.              *)
Record(k, a) == audit' = [audit EXCEPT ![k][a] = @ + 1]

-----------------------------------------------------------------------------
(* The calls *)

FirstStep == [m \in Method |->
  CASE m = "create_key" -> "create"
    [] m = "revoke_key" -> "revoke"
    [] m \in {"validate_key", "rotate_key"} -> "validate"
    [] m = "cleanup_expired" -> "cleanup"]

Call(w, m, k) ==
  /\ pc[w] \in Stopped
  /\ calls < MaxCalls
  /\ calls' = calls + 1
  /\ pc' = [pc EXCEPT ![w] = FirstStep[m]]
  /\ op' = [op EXCEPT ![w] = m]
  /\ key' = [key EXCEPT ![w] = k]
  /\ due' = [due EXCEPT ![w] = expired]
  /\ late' = [late EXCEPT ![w] = k \in back]
  /\ UNCHANGED <<tables, expired, snap, new, back>>

(* The clock passes expires_at.                                             *)
Expire(k) ==
  /\ k \in Expiring
  /\ expired' = expired \cup {k}
  /\ UNCHANGED <<tables, pc, worker, history>>

(* A mutant: rows a worker has read before are served from its cache.       *)
ReadCached(w, from, to) ==
  /\ Goto(w, from, to)
  /\ snap' = [snap EXCEPT ![w] = [k \in Key |-> IF snap[w][k].exists THEN snap[w][k] ELSE rows[k]]]
  /\ UNCHANGED <<tables, expired, op, key, due, new, history>>

(* The SELECT at the head of a method.                                      *)
Read(w, from, to) ==
  /\ Goto(w, from, to)
  /\ snap' = [snap EXCEPT ![w] = rows]
  /\ UNCHANGED <<tables, expired, op, key, due, new, history>>

-----------------------------------------------------------------------------
(* validate_key: revoked, then expired, then inactive, then good            *)

Verdict(r, k) ==
  CASE r.revoked -> "validate_revoked"
    [] ~r.revoked /\ k \in expired -> "validate_expired"
    [] ~r.revoked /\ k \notin expired /\ ~r.active -> "validate_inactive"
    [] OTHER -> "validate_success"

KeyNotFound(w) ==
  /\ ~snap[w][key[w]].exists
  /\ Goto(w, "validating", IF op[w] = "rotate_key" THEN "failed" ELSE "invalid")
  /\ UNCHANGED <<tables, expired, worker, history>>

Reject(w) ==
  LET r == snap[w][key[w]]  v == Verdict(r, key[w]) IN
  /\ r.exists
  /\ v # "validate_success"
  /\ Goto(w, "validating", IF op[w] = "rotate_key" THEN "failed" ELSE "invalid")
  /\ Record(key[w], v)
  /\ UNCHANGED <<rows, expired, worker, history>>

(* A mutant: the whole row that was read is written back.                   *)
AcceptWholeRow(w) ==
  LET r == snap[w][key[w]] IN
  /\ r.exists
  /\ Verdict(r, key[w]) = "validate_success"
  /\ Goto(w, "validating", IF op[w] = "rotate_key" THEN "revoke" ELSE "valid")
  /\ rows' = [rows EXCEPT ![key[w]] = [r EXCEPT !.use_count = @ + 1]]
  /\ Record(key[w], "validate_success")
  /\ UNCHANGED <<expired, worker, history>>

(* A mutant: rotate_key creates the new key without revoking the old one.   *)
AcceptNoRevoke(w) ==
  LET r == snap[w][key[w]] IN
  /\ r.exists
  /\ Verdict(r, key[w]) = "validate_success"
  /\ Goto(w, "validating", IF op[w] = "rotate_key" THEN "create" ELSE "valid")
  /\ rows' = [rows EXCEPT ![key[w]].use_count = r.use_count + 1]
  /\ Record(key[w], "validate_success")
  /\ UNCHANGED <<expired, worker, history>>

(* use_count is incremented from the value that was read; a rotation then   *)
(* goes on to revoke_key.                                                   *)
Accept(w) ==
  LET r == snap[w][key[w]] IN
  /\ r.exists
  /\ Verdict(r, key[w]) = "validate_success"
  /\ Goto(w, "validating", IF op[w] = "rotate_key" THEN "revoke" ELSE "valid")
  /\ rows' = [rows EXCEPT ![key[w]].use_count = r.use_count + 1]
  /\ Record(key[w], "validate_success")
  /\ UNCHANGED <<expired, worker, history>>

-----------------------------------------------------------------------------
(* revoke_key, create_key and cleanup_expired                               *)

(* A mutant: the audit row is forgotten.                                    *)
RevokeUnaudited(w) ==
  /\ snap[w][key[w]].active
  /\ Goto(w, "revoking", IF op[w] = "rotate_key" THEN "create" ELSE "revoked")
  /\ rows' = [rows EXCEPT ![key[w]].revoked = TRUE, ![key[w]].active = FALSE]
  /\ back' = back \cup {key[w]}
  /\ UNCHANGED <<audit, expired, worker, late, calls>>

Revoke(w) ==
  /\ snap[w][key[w]].active
  /\ Goto(w, "revoking", IF op[w] = "rotate_key" THEN "create" ELSE "revoked")
  /\ rows' = [rows EXCEPT ![key[w]].revoked = TRUE, ![key[w]].active = FALSE]
  /\ Record(key[w], "revoke")
  /\ back' = back \cup {key[w]}
  /\ UNCHANGED <<expired, worker, late, calls>>

(* No active row matches: False is returned, which rotate_key ignores.      *)
NothingToRevoke(w) ==
  /\ ~snap[w][key[w]].active
  /\ Goto(w, "revoking", IF op[w] = "rotate_key" THEN "create" ELSE "unknown")
  /\ UNCHANGED <<tables, expired, worker, history>>

Create(w) ==
  /\ op[w] = "create_key"
  /\ ~rows[key[w]].exists
  /\ Goto(w, "create", "created")
  /\ rows' = [rows EXCEPT ![key[w]] = NewRow]
  /\ Record(key[w], "create")
  /\ UNCHANGED <<expired, worker, history>>

(* key_hash and key_fingerprint are unique.                                 *)
CreateCollides(w) ==
  /\ op[w] = "create_key"
  /\ rows[key[w]].exists
  /\ Goto(w, "create", "failed")
  /\ UNCHANGED <<tables, expired, worker, history>>

(* rotate_key creates a key that was just generated, without expires_at.    *)
CreateRotated(w) ==
  /\ op[w] = "rotate_key"
  /\ Goto(w, "create", "rotated")
  /\ \E k \in Key \ Expiring :
        /\ ~rows[k].exists
        /\ rows' = [rows EXCEPT ![k] = NewRow]
        /\ Record(k, "create")
        /\ new' = [new EXCEPT ![w] = k]
  /\ UNCHANGED <<expired, op, key, snap, due, back, late, calls>>

(* Every key that was active when read and expired before that is           *)
(* deactivated, in one transaction.                                         *)
Cleanup(w) ==
  LET C == {k \in due[w] : snap[w][k].active} IN
  /\ Goto(w, "cleaning", "cleaned")
  /\ rows' = [k \in Key |-> IF k \in C THEN [rows[k] EXCEPT !.active = FALSE] ELSE rows[k]]
  /\ audit' = [k \in Key |->
       IF k \in C THEN [audit[k] EXCEPT !["cleanup_expired"] = @ + 1] ELSE audit[k]]
  /\ UNCHANGED <<expired, worker, history>>

(* A statement fails or the process dies: the transaction is rolled back.   *)
Abort(w) ==
  /\ pc[w] \in Busy
  /\ pc' = [pc EXCEPT ![w] = "failed"]
  /\ UNCHANGED <<tables, expired, worker, history>>

-----------------------------------------------------------------------------
Step(w) ==
  \/ Read(w, "validate", "validating") \/ KeyNotFound(w) \/ Reject(w) \/ Accept(w)
  \/ Read(w, "revoke", "revoking") \/ Revoke(w) \/ NothingToRevoke(w)
  \/ Create(w) \/ CreateCollides(w) \/ CreateRotated(w)
  \/ Read(w, "cleanup", "cleaning") \/ Cleanup(w)

Next ==
  \/ \E k \in Key : Expire(k)
  \/ \E w \in Worker : Step(w) \/ Abort(w) \/ \E m \in Method, k \in Key : Call(w, m, k)

Spec == Init /\ [][Next]_vars

-----------------------------------------------------------------------------
(* Properties *)

(* A key whose revocation has returned is refused by every call made after  *)
(* that, by whatever worker: "Revocation is immediate and persistent".      *)
RevocationIsImmediate ==
  \A w \in Worker : late[w] => pc[w] \notin {"valid", "rotated"}

(* No write of a transaction that read the row before it was revoked undoes *)
(* the revocation.                                                          *)
RevokedStaysRevoked ==
  [][\A k \in Key : rows[k].revoked => rows'[k].revoked /\ ~rows'[k].active]_vars

(* The audit trail tells the history of a key: one creation, a revocation   *)
(* iff it is revoked, and no use that was not recorded as a success.  (Two  *)
(* concurrent validations may count one use between them.)                  *)
AuditMatchesRows ==
  \A k \in Key :
    /\ audit[k]["create"] = IF rows[k].exists THEN 1 ELSE 0
    /\ rows[k].revoked <=> audit[k]["revoke"] > 0
    /\ rows[k].use_count =< audit[k]["validate_success"]
    /\ audit[k]["validate_success"] > 0 => rows[k].use_count > 0
    /\ rows[k].exists /\ ~rows[k].active =>
         rows[k].revoked \/ (k \in expired /\ audit[k]["cleanup_expired"] > 0)

(* When rotate_key returns, the old key is dead and the new one exists,     *)
(* also when another call revoked or deactivated the old one meanwhile.     *)
RotationReplaces ==
  \A w \in Worker : pc[w] = "rotated" => ~rows[key[w]].active /\ rows[new[w]].exists
=============================================================================
