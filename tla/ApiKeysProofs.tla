----------------------------- MODULE ApiKeysProofs -----------------------------
(***************************************************************************)
(* Theorems about ApiKeys, for any workers and keys, any keys that expire  *)
(* and any number of calls.                                                *)
(***************************************************************************)
EXTENDS ApiKeys, TLAPS

(* An inactive row is never an active one again, and only a row that exists *)
(* was ever used.                                                           *)
RowsAreSound ==
  \A k \in Key :
    /\ rows[k].revoked => rows[k].exists /\ ~rows[k].active
    /\ rows[k].active => rows[k].exists
    /\ ~rows[k].exists => audit[k]["validate_success"] = 0

(* What a worker read is what a row was once: since then it may have come   *)
(* to exist, been revoked or deactivated, or used, and no more.             *)
ReadEarlier ==
  \A w \in Worker, k \in Key :
    LET r == snap[w][k] IN
    /\ r.exists => rows[k].exists
    /\ r.active => r.exists
    /\ r.exists /\ ~r.active => ~rows[k].active
    /\ r.revoked => rows[k].revoked /\ ~r.active
    /\ r.use_count =< audit[k]["validate_success"]

(* A call that came after a revocation reads it, and goes no further.       *)
LateCallsFail ==
  /\ \A k \in back : rows[k].revoked
  /\ \A w \in Worker : late[w] =>
       /\ key[w] \in back
       /\ pc[w] = "validating" => snap[w][key[w]].revoked
       /\ pc[w] \notin {"valid", "rotated"}
       /\ op[w] = "rotate_key" => pc[w] \notin {"revoke", "revoking", "create"}

(* A rotation goes on with a key that exists, and creates the new one when  *)
(* that is inactive.                                                        *)
RotationsGoOn ==
  \A w \in Worker :
    /\ op[w] = "rotate_key" /\ pc[w] \in {"revoke", "revoking", "create"}
         => rows[key[w]].exists
    /\ op[w] = "rotate_key" /\ pc[w] = "revoking" => snap[w][key[w]].exists
    /\ op[w] = "rotate_key" /\ pc[w] = "create" => ~rows[key[w]].active
    /\ pc[w] = "rotated" => rows[key[w]].exists

IInv ==
  /\ TypeOK
  /\ \A w \in Worker : due[w] \subseteq expired
  /\ RowsAreSound
  /\ ReadEarlier
  /\ LateCallsFail
  /\ RotationsGoOn
  /\ RevocationIsImmediate
  /\ AuditMatchesRows
  /\ RotationReplaces

-----------------------------------------------------------------------------
(* Where a call starts.                                                     *)
LEMMA FirstStepType == \A m \in Method : FirstStep[m] \in Busy \ {"validating", "revoking", "cleaning"}
BY DEF FirstStep, Method, Busy

(* The verdict on a row is an action that is recorded.                      *)
LEMMA VerdictType == \A r, k : Verdict(r, k) \in Action
BY DEF Verdict, Action

(* An initial state has no rows, no audit rows and no calls.                *)
LEMMA InitInv == Init => IInv
<1> SUFFICES ASSUME Init PROVE IInv
  OBVIOUS
<1>1. TypeOK
  BY DEF Init, TypeOK, NoRow, Row, Method, Stopped
<1>2. RowsAreSound /\ ReadEarlier /\ AuditMatchesRows
  BY <1>1 DEF Init, NoRow, RowsAreSound, ReadEarlier, AuditMatchesRows, Action
<1>3. LateCallsFail /\ RotationsGoOn /\ RevocationIsImmediate /\ RotationReplaces
  BY DEF Init, LateCallsFail, RotationsGoOn, RevocationIsImmediate, RotationReplaces
<1>4. QED
  BY <1>1, <1>2, <1>3 DEF Init, IInv

(* Every step keeps the types.                                              *)
LEMMA TypeStep == TypeOK /\ [Next]_vars => TypeOK'
<1> SUFFICES ASSUME TypeOK, [Next]_vars PROVE TypeOK'
  OBVIOUS
<1> USE DEF TypeOK
<1>1. CASE \E k \in Key : Expire(k)
  BY <1>1 DEF Expire, tables, worker, history
<1>2. ASSUME NEW w \in Worker, NEW m \in Method, NEW k \in Key, Call(w, m, k)
      PROVE  TypeOK'
  <2>1. pc' \in [Worker -> Busy \cup Stopped]
    BY <1>2, FirstStepType DEF Call
  <2>2. QED
    BY <1>2, <2>1 DEF Call, tables
<1>3. ASSUME NEW w \in Worker, Abort(w) PROVE TypeOK'
  BY <1>3 DEF Abort, tables, worker, history, Stopped
<1>4. ASSUME NEW w \in Worker, NEW from, NEW to \in Busy, Read(w, from, to)
      PROVE  TypeOK'
  BY <1>4 DEF Read, Goto, tables, history
<1>5. ASSUME NEW w \in Worker, KeyNotFound(w) \/ NothingToRevoke(w) \/ CreateCollides(w)
      PROVE  TypeOK'
  BY <1>5 DEF KeyNotFound, NothingToRevoke, CreateCollides, Goto, tables, worker, history,
              Busy, Stopped
<1>6. ASSUME NEW k \in Key, NEW a \in Action, Record(k, a)
      PROVE  audit' \in [Key -> [Action -> Nat]]
  BY <1>6 DEF Record
<1>7. ASSUME NEW w \in Worker, Reject(w) PROVE TypeOK'
  <2>1. audit' \in [Key -> [Action -> Nat]]
    BY <1>6, <1>7, VerdictType DEF Reject
  <2>2. QED
    BY <1>7, <2>1 DEF Reject, Goto, worker, history, Stopped
<1>8. ASSUME NEW w \in Worker, Accept(w) PROVE TypeOK'
  <2>1. audit' \in [Key -> [Action -> Nat]]
    BY <1>6, <1>8 DEF Accept, Action
  <2>2. rows' \in [Key -> Row]
    <3>1. snap[w][key[w]].use_count + 1 \in Nat
      BY DEF Row
    <3>2. rows' = [rows EXCEPT ![key[w]].use_count = snap[w][key[w]].use_count + 1]
      BY <1>8 DEF Accept
    <3>3. QED
      BY <3>1, <3>2 DEF Row
  <2>3. QED
    BY <1>8, <2>1, <2>2 DEF Accept, Goto, worker, history, Busy, Stopped
<1>9. ASSUME NEW w \in Worker, Revoke(w) PROVE TypeOK'
  <2>1. audit' \in [Key -> [Action -> Nat]]
    BY <1>6, <1>9 DEF Revoke, Action
  <2>2. rows' \in [Key -> Row]
    BY <1>9 DEF Revoke, Row
  <2>3. QED
    BY <1>9, <2>1, <2>2 DEF Revoke, Goto, worker, Busy, Stopped
<1>10. ASSUME NEW w \in Worker, Create(w) PROVE TypeOK'
  <2>1. audit' \in [Key -> [Action -> Nat]]
    BY <1>6, <1>10 DEF Create, Action
  <2>2. QED
    BY <1>10, <2>1 DEF Create, Goto, worker, history, Stopped, Row, NewRow
<1>11. ASSUME NEW w \in Worker, CreateRotated(w) PROVE TypeOK'
  <2>1. PICK k \in Key \ Expiring :
           /\ rows' = [rows EXCEPT ![k] = NewRow]
           /\ Record(k, "create")
           /\ new' = [new EXCEPT ![w] = k]
    BY <1>11 DEF CreateRotated
  <2>2. audit' \in [Key -> [Action -> Nat]]
    BY <1>6, <2>1 DEF Action
  <2>3. QED
    BY <1>11, <2>1, <2>2 DEF CreateRotated, Goto, Stopped, Row, NewRow
<1>12. ASSUME NEW w \in Worker, Cleanup(w) PROVE TypeOK'
  <2>1. rows' \in [Key -> Row]
    BY <1>12 DEF Cleanup, Row
  <2>2. audit' \in [Key -> [Action -> Nat]]
    BY <1>12 DEF Cleanup, Action
  <2>3. QED
    BY <1>12, <2>1, <2>2 DEF Cleanup, Goto, worker, history, Stopped
<1>13. CASE UNCHANGED vars
  BY <1>13 DEF vars, tables, worker, history
<1>14. QED
  BY <1>1, <1>2, <1>3, <1>4, <1>5, <1>7, <1>8, <1>9, <1>10, <1>11, <1>12, <1>13
     DEF Next, Step, Busy

-----------------------------------------------------------------------------
(* What is committed *)

(* The steps that write rows, or audit rows that explain them.              *)
LEMMA Writes ==
  ASSUME TypeOK, [Next]_vars
  PROVE  \/ \E w \in Worker : Accept(w) \/ Revoke(w) \/ Create(w) \/ CreateRotated(w) \/ Cleanup(w)
         \/ /\ rows' = rows
            /\ \A k \in Key, a \in {"create", "revoke", "validate_success", "cleanup_expired"} :
                 audit'[k][a] = audit[k][a]
<1>1. CASE \E w \in Worker : Reject(w)
  <2>1. PICK w \in Worker : Reject(w)
    BY <1>1
  <2> DEFINE v == Verdict(snap[w][key[w]], key[w])
  <2>2. /\ rows' = rows
        /\ audit' = [audit EXCEPT ![key[w]][v] = @ + 1]
        /\ v # "validate_success"
    BY <2>1 DEF Reject, Record
  <2>3. v \notin {"create", "revoke", "validate_success", "cleanup_expired"}
    BY <2>2 DEF Verdict
  <2> HIDE DEF v
  <2>4. QED
    BY <2>2, <2>3 DEF TypeOK, Action
<1>2. CASE UNCHANGED tables
  BY <1>2 DEF tables
<1>3. QED
  BY <1>1, <1>2
     DEF Next, Step, Expire, Call, Abort, Read, KeyNotFound, NothingToRevoke, CreateCollides,
         vars

(* What each of these steps makes of a key's row and of its audit rows.     *)
Unwritten(k) ==
  /\ rows'[k] = rows[k]
  /\ \A a \in {"create", "revoke", "validate_success", "cleanup_expired"} :
       audit'[k][a] = audit[k][a]
Accepted(k) ==
  /\ rows[k].exists
  /\ \E n \in Nat : /\ rows'[k] = [rows[k] EXCEPT !.use_count = n + 1]
                    /\ n =< audit[k]["validate_success"]
  /\ audit'[k] = [audit[k] EXCEPT !["validate_success"] = @ + 1]
Revoked(k) ==
  /\ rows[k].exists
  /\ rows'[k] = [rows[k] EXCEPT !.revoked = TRUE, !.active = FALSE]
  /\ audit'[k] = [audit[k] EXCEPT !["revoke"] = @ + 1]
Created(k) ==
  /\ ~rows[k].exists
  /\ rows'[k] = NewRow
  /\ audit'[k] = [audit[k] EXCEPT !["create"] = @ + 1]
Cleaned(k) ==
  /\ rows[k].exists /\ k \in expired
  /\ rows'[k] = [rows[k] EXCEPT !.active = FALSE]
  /\ audit'[k] = [audit[k] EXCEPT !["cleanup_expired"] = @ + 1]

LEMMA WritesOfKey ==
  ASSUME IInv, [Next]_vars, NEW k \in Key
  PROVE  Unwritten(k) \/ Accepted(k) \/ Revoked(k) \/ Created(k) \/ Cleaned(k)
<1> USE DEF IInv
<1>0. rows'[k] = rows[k] /\ audit'[k] = audit[k] => Unwritten(k)
  BY DEF Unwritten
<1>1. ASSUME NEW w \in Worker, Accept(w) PROVE Unwritten(k) \/ Accepted(k)
  <2>1. /\ snap[w][key[w]].exists
        /\ rows' = [rows EXCEPT ![key[w]].use_count = snap[w][key[w]].use_count + 1]
        /\ audit' = [audit EXCEPT ![key[w]]["validate_success"] = @ + 1]
    BY <1>1 DEF Accept, Record
  <2>2. /\ key[w] \in Key
        /\ snap[w][key[w]].use_count \in Nat
        /\ rows[key[w]].exists
        /\ snap[w][key[w]].use_count =< audit[key[w]]["validate_success"]
    BY <2>1 DEF TypeOK, Row, ReadEarlier
  <2>3. QED
    BY <1>0, <2>1, <2>2 DEF TypeOK, Accepted
<1>2. ASSUME NEW w \in Worker, Revoke(w) PROVE Unwritten(k) \/ Revoked(k)
  <2>1. key[w] \in Key /\ rows[key[w]].exists
    BY <1>2 DEF Revoke, TypeOK, ReadEarlier
  <2>2. QED
    BY <1>0, <1>2, <2>1 DEF Revoke, Record, TypeOK, Revoked
<1>3. ASSUME NEW w \in Worker, Create(w) \/ CreateRotated(w) PROVE Unwritten(k) \/ Created(k)
  <2>1. PICK c \in Key : /\ ~rows[c].exists
                         /\ rows' = [rows EXCEPT ![c] = NewRow]
                         /\ Record(c, "create")
    BY <1>3 DEF Create, CreateRotated, TypeOK
  <2>2. QED
    BY <1>0, <2>1 DEF Record, TypeOK, Created
<1>4. ASSUME NEW w \in Worker, Cleanup(w) PROVE Unwritten(k) \/ Cleaned(k)
  <2>1. CASE k \in due[w] /\ snap[w][k].active
    <3>1. rows[k].exists /\ k \in expired
      BY <2>1 DEF ReadEarlier
    <3>2. QED
      BY <1>4, <2>1, <3>1 DEF Cleanup, Cleaned
  <2>2. CASE ~(k \in due[w] /\ snap[w][k].active)
    BY <1>0, <1>4, <2>2 DEF Cleanup
  <2>3. QED
    BY <2>1, <2>2
<1>5. CASE \E w \in Worker : Accept(w) \/ Revoke(w) \/ Create(w) \/ CreateRotated(w) \/ Cleanup(w)
  BY <1>1, <1>2, <1>3, <1>4, <1>5
<1>6. CASE /\ rows' = rows
           /\ \A c \in Key, a \in {"create", "revoke", "validate_success", "cleanup_expired"} :
                audit'[c][a] = audit[c][a]
  BY <1>6 DEF Unwritten
<1>7. TypeOK
  OBVIOUS
<1> HIDE DEF IInv
<1>8. QED
  BY <1>5, <1>6, <1>7, Writes

(* Rows only age: what exists stays, what is revoked or inactive too, and   *)
(* audit rows of successes are never lost.                                  *)
LEMMA RowsOnlyAge ==
  ASSUME IInv, [Next]_vars, NEW k \in Key
  PROVE  /\ rows[k].exists => rows'[k].exists
         /\ rows[k].revoked => rows'[k].revoked
         /\ rows[k].exists /\ ~rows[k].active => ~rows'[k].active
         /\ audit[k]["validate_success"] =< audit'[k]["validate_success"]
<1>1. rows[k] \in Row /\ audit[k] \in [Action -> Nat] /\ (rows[k].revoked => rows[k].exists)
  BY DEF IInv, TypeOK, RowsAreSound
<1>2. CASE Unwritten(k)
  BY <1>1, <1>2 DEF Unwritten, Action
<1>3. CASE Accepted(k)
  BY <1>1, <1>3 DEF Accepted, Row, Action
<1>4. CASE Revoked(k)
  BY <1>1, <1>4 DEF Revoked, Row, Action
<1>5. CASE Created(k)
  BY <1>1, <1>5 DEF Created, NewRow, Action
<1>6. CASE Cleaned(k)
  BY <1>1, <1>6 DEF Cleaned, Row, Action
<1>7. QED
  BY <1>2, <1>3, <1>4, <1>5, <1>6, WritesOfKey

(* Every step keeps the rows sound and the audit trail telling.             *)
LEMMA RowsStep ==
  ASSUME IInv, [Next]_vars
  PROVE  RowsAreSound' /\ AuditMatchesRows'
<1> SUFFICES ASSUME NEW k \in Key
             PROVE  /\ rows'[k].revoked => rows'[k].exists /\ ~rows'[k].active
                    /\ rows'[k].active => rows'[k].exists
                    /\ ~rows'[k].exists => audit'[k]["validate_success"] = 0
                    /\ audit'[k]["create"] = IF rows'[k].exists THEN 1 ELSE 0
                    /\ rows'[k].revoked <=> audit'[k]["revoke"] > 0
                    /\ rows'[k].use_count =< audit'[k]["validate_success"]
                    /\ audit'[k]["validate_success"] > 0 => rows'[k].use_count > 0
                    /\ rows'[k].exists /\ ~rows'[k].active =>
                         \/ rows'[k].revoked
                         \/ k \in expired' /\ audit'[k]["cleanup_expired"] > 0
  BY DEF RowsAreSound, AuditMatchesRows
<1>1. rows[k] \in Row /\ audit[k] \in [Action -> Nat]
  BY DEF IInv, TypeOK
<1>2. /\ rows[k].revoked => rows[k].exists /\ ~rows[k].active
      /\ rows[k].active => rows[k].exists
      /\ ~rows[k].exists => audit[k]["validate_success"] = 0
      /\ audit[k]["create"] = IF rows[k].exists THEN 1 ELSE 0
      /\ rows[k].revoked <=> audit[k]["revoke"] > 0
      /\ rows[k].use_count =< audit[k]["validate_success"]
      /\ audit[k]["validate_success"] > 0 => rows[k].use_count > 0
      /\ rows[k].exists /\ ~rows[k].active =>
           rows[k].revoked \/ (k \in expired /\ audit[k]["cleanup_expired"] > 0)
  BY DEF IInv, RowsAreSound, AuditMatchesRows
<1>3. k \in expired => k \in expired'
  BY DEF Next, Step, vars, Expire, Call, Abort, Read, KeyNotFound, Reject, Accept, Revoke,
         NothingToRevoke, Create, CreateCollides, CreateRotated, Cleanup
<1>4. CASE Unwritten(k)
  BY <1>1, <1>2, <1>3, <1>4 DEF Unwritten, Action
<1>5. CASE Accepted(k)
  BY <1>1, <1>2, <1>3, <1>5 DEF Accepted, Row, Action
<1>6. CASE Revoked(k)
  BY <1>1, <1>2, <1>3, <1>6 DEF Revoked, Row, Action
<1>7. CASE Created(k)
  BY <1>1, <1>2, <1>3, <1>7 DEF Created, NewRow, Action
<1>8. CASE Cleaned(k)
  BY <1>1, <1>2, <1>3, <1>8 DEF Cleaned, Row, Action
<1>9. QED
  BY <1>4, <1>5, <1>6, <1>7, <1>8, WritesOfKey

-----------------------------------------------------------------------------
(* What workers know *)

(* Every step keeps what workers have read behind the rows: a read takes    *)
(* them as they are, and rows only age.                                     *)
LEMMA ReadStep ==
  ASSUME IInv, [Next]_vars
  PROVE  ReadEarlier' /\ \A w \in Worker : due'[w] \subseteq expired'
<1> USE DEF IInv
<1>1. ASSUME NEW w \in Worker
      PROVE  snap'[w] = snap[w] \/ (snap'[w] = rows /\ UNCHANGED tables)
  BY DEF TypeOK, Next, Step, vars, worker, history, Expire, Call, Abort, Read, KeyNotFound, Reject,
         Accept, Revoke, NothingToRevoke, Create, CreateCollides, CreateRotated, Cleanup
<1>2. ASSUME NEW w \in Worker, NEW k \in Key
      PROVE  LET r == snap'[w][k] IN
             /\ r.exists => rows'[k].exists
             /\ r.active => r.exists
             /\ r.exists /\ ~r.active => ~rows'[k].active
             /\ r.revoked => rows'[k].revoked /\ ~r.active
             /\ r.use_count =< audit'[k]["validate_success"]
  <2>1. CASE snap'[w] = snap[w]
    <3>1. /\ snap[w][k].use_count \in Nat
          /\ audit[k]["validate_success"] \in Nat /\ audit'[k]["validate_success"] \in Nat
      BY TypeStep DEF TypeOK, Row, Action
    <3>2. QED
      BY <2>1, <3>1, RowsOnlyAge DEF ReadEarlier
  <2>2. CASE snap'[w] = rows /\ UNCHANGED tables
    BY <2>2 DEF tables, RowsAreSound, AuditMatchesRows
  <2>3. QED
    BY <1>1, <2>1, <2>2
<1>3. expired \subseteq expired'
      /\ \A w \in Worker : due'[w] = due[w] \/ due'[w] = expired
  BY DEF TypeOK, Next, Step, vars, worker, history, Expire, Call, Abort, Read, KeyNotFound, Reject,
         Accept, Revoke, NothingToRevoke, Create, CreateCollides, CreateRotated, Cleanup
<1>4. QED
  BY <1>2, <1>3 DEF ReadEarlier

(* Every step keeps late calls from succeeding.                             *)
LEMMA LateStep ==
  ASSUME IInv, [Next]_vars
  PROVE  LateCallsFail' /\ RevocationIsImmediate'
<1> USE DEF IInv
<1>1. ASSUME NEW k \in back' PROVE rows'[k].revoked
  <2>1. CASE k \in back
    BY <2>1, RowsOnlyAge DEF LateCallsFail, TypeOK
  <2>2. CASE k \notin back
    <3>1. PICK w \in Worker : Revoke(w) /\ k = key[w]
      BY <2>2 DEF Next, Step, vars, history, Expire, Call, Abort, Read, KeyNotFound, Reject,
         Accept, Revoke, NothingToRevoke, Create, CreateCollides, CreateRotated, Cleanup
    <3>2. QED
      BY <3>1 DEF Revoke, TypeOK, Row
  <2>3. QED
    BY <2>1, <2>2
<1> DEFINE Fails(w) ==
      late[w] =>
       /\ key[w] \in back
       /\ pc[w] = "validating" => snap[w][key[w]].revoked
       /\ pc[w] \notin {"valid", "rotated"}
       /\ op[w] = "rotate_key" => pc[w] \notin {"revoke", "revoking", "create"}
<1>2. ASSUME NEW w \in Worker PROVE Fails(w)'
  <2>0. Fails(w)
    BY DEF LateCallsFail
  <2>1. back \subseteq back'
    BY DEF Next, Step, vars, history, Expire, Call, Abort, Read, KeyNotFound, Reject,
         Accept, Revoke, NothingToRevoke, Create, CreateCollides, CreateRotated, Cleanup
  <2>2. CASE UNCHANGED <<pc[w], op[w], key[w], snap[w], late[w]>>
    BY <2>0, <2>1, <2>2
  <2>3. ASSUME NEW m \in Method, NEW k \in Key, Call(w, m, k) PROVE Fails(w)'
    <3>1. /\ pc'[w] = FirstStep[m] /\ op'[w] = m /\ key'[w] = k /\ late'[w] = (k \in back)
      BY <2>3 DEF Call, TypeOK
    <3>2. /\ FirstStep[m] \notin {"validating", "valid", "rotated", "revoking"}
          /\ m = "rotate_key" => FirstStep[m] = "validate"
      BY FirstStepType DEF FirstStep, Method, Busy
    <3>3. QED
      BY <2>1, <3>1, <3>2
  <2>4. CASE Read(w, "validate", "validating")
    BY <2>0, <2>1, <2>4 DEF Read, Goto, history, TypeOK, LateCallsFail
  <2>5. CASE Read(w, "revoke", "revoking") \/ Read(w, "cleanup", "cleaning")
    BY <2>0, <2>1, <2>5 DEF Read, Goto, history, TypeOK
  <2>6. CASE Accept(w)
    BY <2>0, <2>1, <2>6 DEF Accept, Goto, worker, history, TypeOK, Verdict
  <2>7. CASE KeyNotFound(w) \/ Reject(w)
    BY <2>0, <2>1, <2>7 DEF KeyNotFound, Reject, Goto, worker, history, TypeOK
  <2>8. CASE Revoke(w) \/ NothingToRevoke(w)
    BY <2>0, <2>1, <2>8 DEF Revoke, NothingToRevoke, Goto, worker, history, TypeOK
  <2>9. CASE Create(w) \/ CreateCollides(w) \/ CreateRotated(w) \/ Cleanup(w) \/ Abort(w)
    BY <2>0, <2>1, <2>9
       DEF Create, CreateCollides, CreateRotated, Cleanup, Abort, Goto, worker, history, TypeOK
  <2>10. QED
    <3>1. ASSUME NEW v \in Worker, v # w, \/ Step(v) \/ Abort(v)
                                         \/ \E m \in Method, k \in Key : Call(v, m, k)
          PROVE  UNCHANGED <<pc[w], op[w], key[w], snap[w], late[w]>>
      BY <3>1 DEF TypeOK, Step, Goto, worker, history, Call, Abort, Read, KeyNotFound, Reject,
         Accept, Revoke, NothingToRevoke, Create, CreateCollides, CreateRotated, Cleanup
    <3>2. CASE UNCHANGED vars \/ \E k \in Key : Expire(k)
      BY <2>2, <3>2 DEF vars, worker, history, Expire
    <3>3. QED
      BY <2>2, <2>3, <2>4, <2>5, <2>6, <2>7, <2>8, <2>9, <3>1, <3>2 DEF Next, Step
<1>3. QED
  BY <1>1, <1>2 DEF LateCallsFail, RevocationIsImmediate

(* Every step keeps the rotations on their way, and what they achieved.     *)
LEMMA RotationStep ==
  ASSUME IInv, [Next]_vars
  PROVE  RotationsGoOn' /\ RotationReplaces'
<1> USE DEF IInv
<1> DEFINE GoesOn(w) ==
      /\ op[w] = "rotate_key" /\ pc[w] \in {"revoke", "revoking", "create"}
           => rows[key[w]].exists
      /\ op[w] = "rotate_key" /\ pc[w] = "revoking" => snap[w][key[w]].exists
      /\ op[w] = "rotate_key" /\ pc[w] = "create" => ~rows[key[w]].active
      /\ pc[w] = "rotated" => /\ rows[key[w]].exists /\ ~rows[key[w]].active
                              /\ rows[new[w]].exists
<1>1. ASSUME NEW w \in Worker PROVE GoesOn(w)'
  <2>0. GoesOn(w)
    BY DEF RotationsGoOn, RotationReplaces
  <2>1. ASSUME NEW k \in Key
        PROVE  /\ rows[k].exists => rows'[k].exists
               /\ rows[k].exists /\ ~rows[k].active => ~rows'[k].active
    BY RowsOnlyAge
  <2>2. CASE UNCHANGED <<pc[w], op[w], key[w], snap[w], new[w]>>
    <3>1. key[w] \in Key /\ new[w] \in Key
      BY DEF TypeOK
    <3>2. QED
      BY <2>0, <2>1, <2>2, <3>1
  <2>3. ASSUME NEW m \in Method, NEW k \in Key, Call(w, m, k) PROVE GoesOn(w)'
    <3>1. /\ pc'[w] = FirstStep[m] /\ op'[w] = m
          /\ FirstStep[m] # "rotated" /\ (m = "rotate_key" => FirstStep[m] = "validate")
      BY <2>3, FirstStepType DEF Call, TypeOK, FirstStep, Method, Busy
    <3>2. QED
      BY <3>1
  <2>4. CASE Read(w, "validate", "validating") \/ Read(w, "cleanup", "cleaning")
    BY <2>4 DEF Read, Goto, TypeOK
  <2>5. CASE Read(w, "revoke", "revoking")
    BY <2>0, <2>5 DEF Read, Goto, history, tables, TypeOK
  <2>6. CASE Accept(w)
    <3>1. key[w] \in Key /\ rows[key[w]].exists
      BY <2>6 DEF Accept, ReadEarlier, TypeOK
    <3>2. pc'[w] \in {"revoke", "valid"} /\ key' = key
      BY <2>6 DEF Accept, Goto, worker, TypeOK
    <3>3. QED
      BY <2>1, <3>1, <3>2
  <2>7. CASE KeyNotFound(w) \/ Reject(w)
    BY <2>7 DEF KeyNotFound, Reject, Goto, TypeOK
  <2>8. CASE Revoke(w)
    <3>1. key[w] \in Key /\ rows[key[w]].exists
      BY <2>8 DEF Revoke, ReadEarlier, TypeOK
    <3>2. /\ pc'[w] \in {"create", "revoked"} /\ key' = key
          /\ ~rows'[key[w]].active
      BY <2>8, <3>1 DEF Revoke, Goto, worker, TypeOK, Row
    <3>3. QED
      BY <2>1, <3>1, <3>2
  <2>9. CASE NothingToRevoke(w)
    <3>1. /\ pc'[w] \in {"create", "unknown"} /\ UNCHANGED <<key, op, rows>>
          /\ pc[w] = "revoking"
      BY <2>9 DEF NothingToRevoke, Goto, worker, tables, TypeOK
    <3>2. op[w] = "rotate_key" => rows[key[w]].exists /\ ~rows[key[w]].active
      BY <2>0, <2>9, <3>1 DEF NothingToRevoke, ReadEarlier, TypeOK
    <3>3. QED
      BY <3>1, <3>2
  <2>10. CASE CreateRotated(w)
    <3>1. key[w] \in Key /\ rows[key[w]].exists /\ ~rows[key[w]].active
      BY <2>0, <2>10 DEF CreateRotated, Goto, TypeOK
    <3>2. pc'[w] = "rotated" /\ key' = key /\ rows'[new'[w]].exists
      BY <2>10 DEF CreateRotated, Goto, TypeOK, NewRow
    <3>3. QED
      BY <2>1, <3>1, <3>2
  <2>11. CASE Create(w) \/ CreateCollides(w) \/ Cleanup(w) \/ Abort(w)
    BY <2>11 DEF Create, CreateCollides, Cleanup, Abort, Goto, TypeOK
  <2>12. QED
    <3>1. ASSUME NEW v \in Worker, v # w, \/ Step(v) \/ Abort(v)
                                         \/ \E m \in Method, k \in Key : Call(v, m, k)
          PROVE  UNCHANGED <<pc[w], op[w], key[w], snap[w], new[w]>>
      BY <3>1 DEF TypeOK, Step, Goto, worker, history, Call, Abort, Read, KeyNotFound, Reject,
         Accept, Revoke, NothingToRevoke, Create, CreateCollides, CreateRotated, Cleanup
    <3>2. CASE UNCHANGED vars \/ \E k \in Key : Expire(k)
      BY <2>2, <3>2 DEF vars, worker, history, Expire
    <3>3. QED
      BY <2>2, <2>3, <2>4, <2>5, <2>6, <2>7, <2>8, <2>9, <2>10, <2>11, <3>1, <3>2
         DEF Next, Step
<1>2. QED
  BY <1>1 DEF RotationsGoOn, RotationReplaces

-----------------------------------------------------------------------------
(* The inductive invariant always holds.                                    *)
THEOREM Invariant == Spec => []IInv
<1>1. IInv /\ [Next]_vars => IInv'
  BY TypeStep, RowsStep, ReadStep, LateStep, RotationStep DEF IInv
<1>2. QED
  BY InitInv, <1>1, PTL DEF Spec

(* Every variable always has its type.                                      *)
THEOREM TypeCorrect == Spec => []TypeOK
<1>1. IInv => TypeOK
  BY DEF IInv
<1>2. QED
  BY <1>1, Invariant, PTL

(* No call that is made after a revocation returned accepts the key, or     *)
(* replaces it, however many workers had read its row before.               *)
THEOREM RevocationImmediate == Spec => []RevocationIsImmediate
<1>1. IInv => RevocationIsImmediate
  BY DEF IInv
<1>2. QED
  BY <1>1, Invariant, PTL

(* The audit rows say of every key whether it was created and revoked, and  *)
(* why it is inactive; no use is without one.                               *)
THEOREM AuditTells == Spec => []AuditMatchesRows
<1>1. IInv => AuditMatchesRows
  BY DEF IInv
<1>2. QED
  BY <1>1, Invariant, PTL

(* A rotation that returns leaves the old key dead and the new one there.   *)
THEOREM RotationKills == Spec => []RotationReplaces
<1>1. IInv => RotationReplaces
  BY DEF IInv
<1>2. QED
  BY <1>1, Invariant, PTL

(* No transaction writes an active row over a revoked one.                  *)
THEOREM RevocationIsPermanent == Spec => RevokedStaysRevoked
<1>1. IInv /\ [Next]_vars => [\A k \in Key : rows[k].revoked => rows'[k].revoked /\ ~rows'[k].active]_vars
  BY RowsOnlyAge DEF IInv, RowsAreSound
<1>2. QED
  BY <1>1, Invariant, PTL DEF Spec, RevokedStaysRevoked
=============================================================================
