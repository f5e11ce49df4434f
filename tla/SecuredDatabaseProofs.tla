------------------------- MODULE SecuredDatabaseProofs -------------------------
(***************************************************************************)
(* Theorems about the sessions (TenantContext), for any sessions,          *)
(* connections, tenants and keys and any bound on the clock, about the     *)
(* catalogue (Deployment), for any sets of tables and any number of polls, *)
(* and about the sessions that run on it while it is migrated              *)
(* (SecuredDatabase): both components keep what each promises, and together *)
(* what a session reads was vouched for.                                   *)
(***************************************************************************)
EXTENDS SecuredDatabase, TLAPS

(* TenantContext: sessions and the context row                              *)

(* A row of _tenant_context was vouched for by an active key of its tenant, *)
(* at most an hour before it expires.                                       *)
Vouched(row) ==
  row # None =>
    /\ TenantOf[row.key] = row.tenant
    /\ row.expires =< clock + Hour
    /\ row.expires =< ended[row.key] + Hour

(* No two sessions share a connection: the pool gives each one its own.     *)
Exclusive ==
  \A s, r \in Session : IsOpen(s) /\ session[r].connection = session[s].connection => r = s

(* The row as an open session's transaction sees it is what the session     *)
(* made of it.                                                              *)
Fits(s) ==
  LET c == session[s].connection IN
  /\ session[s].kind = "scoped" =>
       pending[c].tenant = session[s].tenant /\ pending[c].expires = began[c] + Hour
  /\ session[s].kind = "cleared" => pending[c] = None /\ session[s].tenant = NoTenant

IInv ==
  /\ TypeOK
  /\ Exclusive
  /\ \A c \in Connection : Vouched(context[c]) /\ Vouched(pending[c])
  /\ \A s \in Session : IsOpen(s) => Fits(s)

Row == Context \cup {None}

(* The rows that sessions write are rows.                                   *)
LEMMA RowTypes ==
  ASSUME TypeOK, NEW c \in Connection, NEW tenant \in Tenant, NEW key \in Key
  PROVE  Established(c, tenant, key) \in Row /\ None \in Row /\ Established(c, tenant, key) # None
<1>1. clock + Hour \in Hour .. MaxTime + Hour /\ clock + Hour # 0
  BY NumbersAssumption DEF TypeOK
<1>2. QED
  BY <1>1 DEF Established, Context, None, Row

(* An open session has one of the connections.                              *)
LEMMA OpenHasConnection ==
  ASSUME TypeOK, NEW s \in Session, IsOpen(s)
  PROVE  session[s].connection \in Connection
  BY DEF TypeOK, IsOpen

(* What a session that starts leaves in the variables.                      *)
LEMMA StartTypes ==
  ASSUME TypeOK, NEW s \in Session, NEW c \in Connection, NEW kind \in {"scoped", "cleared", "raw"},
         NEW tenant \in Tenant \cup {NoTenant}, NEW row \in Row, Start(s, c, kind, tenant, row)
  PROVE  TypeOK'
<1>1. [connection |-> c, kind |-> kind, tenant |-> tenant]
        \in [connection : Connection \cup {NoConnection}, kind : {"scoped", "cleared", "raw"},
             tenant : Tenant \cup {NoTenant}]
  OBVIOUS
<1>2. session' \in [Session -> [connection : Connection \cup {NoConnection},
                                kind : {"scoped", "cleared", "raw"},
                                tenant : Tenant \cup {NoTenant}]]
  BY <1>1 DEF TypeOK, Start
<1>3. pending' \in [Connection -> Row] /\ began' \in [Connection -> 0 .. MaxTime]
  BY DEF TypeOK, Start, Row
<1>4. QED
  BY <1>2, <1>3 DEF TypeOK, Start, Row

(* Every step preserves the types.                                          *)
LEMMA TypeStep == TypeOK /\ [Next]_vars => TypeOK'
<1> SUFFICES ASSUME TypeOK, [Next]_vars PROVE TypeOK'
  OBVIOUS
<1>1. CASE Tick
  BY <1>1, NumbersAssumption DEF Tick, TypeOK
<1>2. ASSUME NEW key \in Key, End(key) PROVE TypeOK'
  <2>1. clock \in 0 .. Never
    BY NumbersAssumption DEF TypeOK, Never
  <2>2. QED
    BY <1>2, <2>1 DEF End, TypeOK
<1>3. ASSUME NEW s \in Session, Close(s), context' \in [Connection -> Row] PROVE TypeOK'
  <2>1. Closed \in [connection : Connection \cup {NoConnection}, kind : {"scoped", "cleared", "raw"},
                    tenant : Tenant \cup {NoTenant}]
    BY DEF Closed
  <2>2. pending' \in [Connection -> Row]
    BY <1>3 DEF Close, TypeOK, Row
  <2>3. QED
    BY <1>3, <2>1, <2>2 DEF Close, TypeOK, Row
<1>4. ASSUME NEW s \in Session, Commit(s) PROVE TypeOK'
  <2>1. session[s].connection \in Connection
    BY <1>4, OpenHasConnection DEF Commit, Close
  <2>2. context' \in [Connection -> Row]
    BY <1>4, <2>1 DEF Commit, TypeOK, Row
  <2>3. QED
    BY <1>3, <1>4, <2>2 DEF Commit
<1>5. ASSUME NEW s \in Session, Rollback(s) PROVE TypeOK'
  <2>1. context' \in [Connection -> Row]
    BY <1>5 DEF Rollback, TypeOK, Row
  <2>2. QED
    BY <1>3, <1>5, <2>1 DEF Rollback
<1>6. ASSUME NEW s \in Session, NEW c \in Connection, OpenCleared(s, c) PROVE TypeOK'
  BY <1>6, StartTypes DEF OpenCleared, Row
<1>7. ASSUME NEW s \in Session, NEW c \in Connection, OpenRaw(s, c) PROVE TypeOK'
  <2>1. context[c] \in Row
    BY DEF TypeOK, Row
  <2>2. QED
    BY <1>7, <2>1, StartTypes DEF OpenRaw
<1>8. ASSUME NEW s \in Session, NEW c \in Connection, NEW tenant \in Tenant, NEW key \in Key,
             OpenScoped(s, c, tenant, key)
      PROVE  TypeOK'
  BY <1>8, RowTypes, StartTypes DEF OpenScoped
<1>9. CASE UNCHANGED vars
  BY <1>9 DEF vars, TypeOK
<1>10. QED
  BY <1>1, <1>2, <1>4, <1>5, <1>6, <1>7, <1>8, <1>9 DEF Next

(* Time passing and keys ending keep what a key vouched for: a key that is  *)
(* active ends no earlier than now.                                         *)
LEMMA VouchedKept ==
  ASSUME TypeOK, NEW row \in Row, Vouched(row)
  PROVE  /\ Tick => Vouched(row)'
         /\ \A key \in Key : End(key) => Vouched(row)'
         /\ UNCHANGED <<clock, ended>> => Vouched(row)'
<1>1. CASE row = None
  BY <1>1 DEF Vouched
<1>2. CASE row # None
  <2>1. row.key \in Key /\ row.expires \in Nat
    BY <1>2, NumbersAssumption DEF Row, Context
  <2>2. clock \in Nat /\ Hour \in Nat /\ ended[row.key] \in Nat
    BY <2>1, NumbersAssumption DEF TypeOK, Never
  <2>3. ASSUME Tick PROVE Vouched(row)'
    BY <1>2, <2>1, <2>2, <2>3 DEF Tick, Vouched
  <2>4. ASSUME NEW key \in Key, End(key) PROVE Vouched(row)'
    BY <1>2, <2>1, <2>2, <2>4 DEF End, Vouched, TypeOK
  <2>5. ASSUME UNCHANGED <<clock, ended>> PROVE Vouched(row)'
    BY <1>2, <2>5 DEF Vouched
  <2>6. QED
    BY <2>3, <2>4, <2>5
<1>3. QED
  BY <1>1, <1>2

(* Every row that is written was vouched for.                               *)
LEMMA RowsStep ==
  IInv /\ [Next]_vars => \A c \in Connection : (Vouched(context[c]) /\ Vouched(pending[c]))'
<1> SUFFICES ASSUME IInv, [Next]_vars, NEW c \in Connection
             PROVE  Vouched(context[c])' /\ Vouched(pending[c])'
  OBVIOUS
<1>1. TypeOK /\ \A d \in Connection :
        context[d] \in Row /\ pending[d] \in Row /\ Vouched(context[d]) /\ Vouched(pending[d])
  BY DEF IInv, TypeOK, Row
<1>2. Vouched(None)'
  BY DEF Vouched
<1>3. CASE Tick
  <2>1. context'[c] = context[c] /\ pending'[c] = pending[c]
    BY <1>3 DEF Tick
  <2>2. Vouched(context[c])' /\ Vouched(pending[c])'
    BY <1>1, <1>3, <2>1, VouchedKept DEF Tick
  <2>3. QED
    BY <2>2
<1>4. ASSUME NEW key \in Key, End(key) PROVE Vouched(context[c])' /\ Vouched(pending[c])'
  <2>1. context'[c] = context[c] /\ pending'[c] = pending[c]
    BY <1>4 DEF End
  <2>2. QED
    BY <1>1, <1>4, <2>1, VouchedKept
<1>5. ASSUME UNCHANGED <<clock, ended>>,
             \A d \in Connection : context'[d] \in {context[d], pending[d]},
             \A d \in Connection : pending'[d] \in {context[d], pending[d], None}
      PROVE  Vouched(context[c])' /\ Vouched(pending[c])'
  <2>1. \A row \in Row : Vouched(row) => Vouched(row)'
    BY <1>1, <1>5, VouchedKept
  <2>2. QED
    BY <1>1, <1>2, <1>5, <2>1
<1>6. ASSUME NEW s \in Session, Commit(s) \/ Rollback(s)
      PROVE  Vouched(context[c])' /\ Vouched(pending[c])'
  <2>1. session[s].connection \in Connection
    BY <1>1, <1>6, OpenHasConnection DEF Commit, Rollback, Close
  <2>2. /\ \A d \in Connection : context'[d] \in {context[d], pending[d]}
        /\ \A d \in Connection : pending'[d] \in {pending[d], None}
    BY <1>1, <1>6, <2>1 DEF Commit, Rollback, Close, TypeOK
  <2>3. QED
    BY <1>5, <1>6, <2>2 DEF Commit, Rollback, Close
<1>7. ASSUME NEW s \in Session, NEW d \in Connection, OpenCleared(s, d) \/ OpenRaw(s, d)
      PROVE  Vouched(context[c])' /\ Vouched(pending[c])'
  <2>1. /\ \A e \in Connection : context'[e] = context[e]
        /\ \A e \in Connection : pending'[e] \in {context[e], pending[e], None}
    BY <1>1, <1>7 DEF OpenCleared, OpenRaw, Start, TypeOK
  <2>2. QED
    BY <1>5, <1>7, <2>1 DEF OpenCleared, OpenRaw, Start
<1>8. ASSUME NEW s \in Session, NEW d \in Connection, NEW tenant \in Tenant, NEW key \in Key,
             OpenScoped(s, d, tenant, key)
      PROVE  Vouched(context[c])' /\ Vouched(pending[c])'
  <2>1. clock \in Nat /\ clock =< MaxTime /\ Hour \in Nat /\ MaxTime \in Nat
    BY <1>1, NumbersAssumption DEF TypeOK
  <2>2. Vouched(Established(d, tenant, key))
    <3>1. TenantOf[key] = tenant /\ ended[key] = MaxTime + 1
      BY <1>8 DEF OpenScoped, Active, Never
    <3>2. QED
      BY <2>1, <3>1 DEF Vouched, Established
  <2>3. Established(d, tenant, key) \in Row /\ UNCHANGED <<clock, ended>>
    BY <1>1, <1>8, RowTypes DEF OpenScoped, Start
  <2>4. \A row \in Row : Vouched(row) => Vouched(row)'
    BY <1>1, <2>3, VouchedKept
  <2>5. context'[c] = context[c] /\ pending'[c] \in {pending[c], Established(d, tenant, key)}
    BY <1>1, <1>8 DEF OpenScoped, Start, TypeOK
  <2>6. QED
    BY <1>1, <2>2, <2>3, <2>4, <2>5
<1>9. CASE UNCHANGED vars
  BY <1>5, <1>9 DEF vars
<1>10. QED
  BY <1>3, <1>4, <1>6, <1>7, <1>8, <1>9 DEF Next

(* A session that starts takes a connection that no other has, and leaves   *)
(* the others' alone.                                                       *)
LEMMA StartStep ==
  ASSUME IInv, NEW s \in Session, NEW c \in Connection, NEW kind, NEW tenant, NEW row,
         Start(s, c, kind, tenant, row)
  PROVE  /\ Exclusive'
         /\ \A r \in Session \ {s} : session'[r] = session[r]
         /\ \A r \in Session \ {s} :
              IsOpen(r) => /\ pending'[session[r].connection] = pending[session[r].connection]
                           /\ began'[session[r].connection] = began[session[r].connection]
         /\ session'[s] = [connection |-> c, kind |-> kind, tenant |-> tenant]
         /\ pending'[c] = row /\ began'[c] = clock
<1>1. /\ session'[s] = [connection |-> c, kind |-> kind, tenant |-> tenant]
      /\ \A r \in Session \ {s} : session'[r] = session[r]
      /\ pending'[c] = row /\ began'[c] = clock
  BY DEF IInv, TypeOK, Start
<1>2. \A r \in Session : session[r].connection # c
  BY DEF Start, Free
<1>3. Exclusive'
  BY <1>1, <1>2 DEF IInv, Exclusive, IsOpen
<1>4. \A d \in Connection \ {c} : pending'[d] = pending[d] /\ began'[d] = began[d]
  BY DEF IInv, TypeOK, Start
<1>5. ASSUME NEW r \in Session \ {s}, IsOpen(r)
      PROVE  /\ pending'[session[r].connection] = pending[session[r].connection]
             /\ began'[session[r].connection] = began[session[r].connection]
  BY <1>2, <1>4, <1>5, OpenHasConnection DEF IInv
<1>6. QED
  BY <1>1, <1>3, <1>5

(* A session that ends leaves the others' connections alone.                *)
LEMMA CloseStep ==
  ASSUME IInv, NEW s \in Session, Close(s)
  PROVE  /\ Exclusive'
         /\ session'[s] = Closed
         /\ \A r \in Session \ {s} : session'[r] = session[r]
         /\ \A r \in Session \ {s} :
              IsOpen(r) => /\ pending'[session[r].connection] = pending[session[r].connection]
                           /\ began'[session[r].connection] = began[session[r].connection]
<1>1. session'[s] = Closed /\ \A r \in Session \ {s} : session'[r] = session[r]
  BY DEF IInv, TypeOK, Close
<1>2. Exclusive'
  BY <1>1 DEF IInv, Exclusive, IsOpen, Closed
<1>3. ASSUME NEW r \in Session \ {s}, IsOpen(r)
      PROVE  /\ pending'[session[r].connection] = pending[session[r].connection]
             /\ began'[session[r].connection] = began[session[r].connection]
  <2>1. session[r].connection # session[s].connection
    BY <1>3 DEF IInv, Exclusive, Close
  <2>2. QED
    BY <1>3, <2>1, OpenHasConnection DEF IInv, TypeOK, Close
<1>4. QED
  BY <1>1, <1>2, <1>3

(* A step that does not touch a session, its connection's row or the start  *)
(* of its transaction keeps what it made of the row.                        *)
LEMMA FitsKept ==
  ASSUME NEW s \in Session, Fits(s), session'[s] = session[s],
         pending'[session[s].connection] = pending[session[s].connection],
         began'[session[s].connection] = began[session[s].connection]
  PROVE  Fits(s)'
  BY DEF Fits

(* Every step preserves what the open sessions made of their rows.          *)
LEMMA SessionStep ==
  IInv /\ [Next]_vars => Exclusive' /\ \A r \in Session : (IsOpen(r) => Fits(r))'
<1> SUFFICES ASSUME IInv, [Next]_vars
             PROVE  Exclusive' /\ \A r \in Session : IsOpen(r)' => Fits(r)'
  OBVIOUS
<1>1. ASSUME UNCHANGED <<pending, began, session>>
      PROVE  Exclusive' /\ \A r \in Session : IsOpen(r)' => Fits(r)'
  BY <1>1 DEF IInv, Exclusive, IsOpen, Fits
<1>2. ASSUME NEW s \in Session, Close(s)
      PROVE  Exclusive' /\ \A r \in Session : IsOpen(r)' => Fits(r)'
  <2>1. ASSUME NEW r \in Session, IsOpen(r)' PROVE Fits(r)'
    <3>1. r # s
      BY <1>2, <2>1, CloseStep DEF IsOpen, Closed
    <3>2. IsOpen(r) /\ session'[r] = session[r]
      BY <1>2, <2>1, <3>1, CloseStep DEF IsOpen
    <3>3. QED
      BY <1>2, <3>1, <3>2, CloseStep, FitsKept DEF IInv
  <2>2. QED
    BY <1>2, <2>1, CloseStep
<1>3. ASSUME NEW s \in Session, NEW c \in Connection, NEW kind, NEW tenant, NEW row,
             Start(s, c, kind, tenant, row), Fits(s)'
      PROVE  Exclusive' /\ \A r \in Session : IsOpen(r)' => Fits(r)'
  <2>1. ASSUME NEW r \in Session, IsOpen(r)', r # s PROVE Fits(r)'
    <3>1. IsOpen(r) /\ session'[r] = session[r]
      BY <1>3, <2>1, StartStep DEF IsOpen
    <3>2. /\ pending'[session[r].connection] = pending[session[r].connection]
          /\ began'[session[r].connection] = began[session[r].connection]
      <4>1. \A q \in Session \ {s} :
              IsOpen(q) => /\ pending'[session[q].connection] = pending[session[q].connection]
                           /\ began'[session[q].connection] = began[session[q].connection]
        BY <1>3, StartStep
      <4>2. QED
        BY <2>1, <3>1, <4>1
    <3>3. QED
      BY <3>1, <3>2, FitsKept DEF IInv
  <2>2. QED
    BY <1>3, <2>1, StartStep
<1>4. ASSUME NEW s \in Session, NEW c \in Connection, OpenCleared(s, c)
      PROVE  Exclusive' /\ \A r \in Session : IsOpen(r)' => Fits(r)'
  <2>1. Start(s, c, "cleared", NoTenant, None)
    BY <1>4 DEF OpenCleared
  <2>2. /\ session'[s] = [connection |-> c, kind |-> "cleared", tenant |-> NoTenant]
        /\ pending'[c] = None /\ began'[c] = clock
    BY <2>1, StartStep
  <2>3. Fits(s)'
    BY <2>2 DEF Fits
  <2>4. QED
    BY <1>3, <2>1, <2>3
<1>5. ASSUME NEW s \in Session, NEW c \in Connection, OpenRaw(s, c)
      PROVE  Exclusive' /\ \A r \in Session : IsOpen(r)' => Fits(r)'
  <2>1. Start(s, c, "raw", NoTenant, context[c])
    BY <1>5 DEF OpenRaw
  <2>2. /\ session'[s] = [connection |-> c, kind |-> "raw", tenant |-> NoTenant]
        /\ pending'[c] = context[c] /\ began'[c] = clock
    BY <2>1, StartStep
  <2>3. Fits(s)'
    BY <2>2 DEF Fits
  <2>4. QED
    BY <1>3, <2>1, <2>3
<1>6. ASSUME NEW s \in Session, NEW c \in Connection, NEW tenant \in Tenant, NEW key \in Key,
             OpenScoped(s, c, tenant, key)
      PROVE  Exclusive' /\ \A r \in Session : IsOpen(r)' => Fits(r)'
  <2>1. Start(s, c, "scoped", tenant, Established(c, tenant, key))
    BY <1>6 DEF OpenScoped
  <2>2. /\ session'[s] = [connection |-> c, kind |-> "scoped", tenant |-> tenant]
        /\ pending'[c] = Established(c, tenant, key) /\ began'[c] = clock
    BY <2>1, StartStep
  <2>3. Fits(s)'
    BY <2>2 DEF Fits, Established
  <2>4. QED
    BY <1>3, <2>1, <2>3
<1>7. QED
  BY <1>1, <1>2, <1>4, <1>5, <1>6 DEF Next, vars, Tick, End, Commit, Rollback

(* Init establishes the invariant.                                          *)
LEMMA InitInv == Init => IInv
<1> SUFFICES ASSUME Init PROVE IInv
  OBVIOUS
<1>1. clock \in 0 .. MaxTime /\ 0 \in 0 .. MaxTime /\ Never \in 0 .. Never
  BY NumbersAssumption DEF Init, Never
<1>2. Closed \in [connection : Connection \cup {NoConnection}, kind : {"scoped", "cleared", "raw"},
                  tenant : Tenant \cup {NoTenant}]
  BY DEF Closed
<1>3. TypeOK
  BY <1>1, <1>2 DEF Init, TypeOK
<1>4. \A s \in Session : ~IsOpen(s)
  BY DEF Init, IsOpen, Closed
<1>5. \A c \in Connection : Vouched(context[c]) /\ Vouched(pending[c])
  BY DEF Init, Vouched
<1>6. QED
  BY <1>3, <1>4, <1>5 DEF IInv, Exclusive

LEMMA StepInv == IInv /\ [Next]_vars => IInv'
<1> SUFFICES ASSUME IInv, [Next]_vars PROVE IInv'
  OBVIOUS
<1>1. TypeOK'
  BY TypeStep DEF IInv
<1>2. \A c \in Connection : Vouched(context[c])' /\ Vouched(pending[c])'
  BY RowsStep
<1>3. Exclusive' /\ \A s \in Session : IsOpen(s)' => Fits(s)'
  BY SessionStep
<1>4. QED
  BY <1>1, <1>2, <1>3 DEF IInv

LEMMA Invariant == Spec => []IInv
  BY InitInv, StepInv, PTL DEF Spec

(* The types, for any sessions, connections, tenants and keys.              *)
THEOREM TypeCorrect == Spec => []TypeOK
  BY Invariant, PTL DEF IInv

(* A session opened for a tenant sees that tenant and one opened without    *)
(* sees none, whatever earlier sessions left on the pooled connection.      *)
THEOREM ScopesDecide == Spec => []ScopeDecidesSight
<1>1. IInv => ScopeDecidesSight
  <2> SUFFICES ASSUME IInv, NEW s \in Session, IsOpen(s), session[s].kind # "raw"
               PROVE  Sees(s) = session[s].tenant
    BY DEF ScopeDecidesSight
  <2>1. began[session[s].connection] \in Nat /\ session[s].kind \in {"scoped", "cleared"}
    BY OpenHasConnection, NumbersAssumption DEF IInv, TypeOK
  <2>2. CASE session[s].kind = "scoped"
    BY <2>1, <2>2, NumbersAssumption DEF IInv, Fits, Sees
  <2>3. CASE session[s].kind = "cleared"
    BY <2>1, <2>3 DEF IInv, Fits, Sees, None
  <2>4. QED
    BY <2>1, <2>2, <2>3
<1>2. QED
  BY <1>1, Invariant, PTL

(* What a session sees is in a row that is there and that a key of that     *)
(* tenant vouched for.                                                      *)
LEMMA VouchedSight ==
  ASSUME IInv, NEW s \in Session, IsOpen(s), Sees(s) # NoTenant
  PROVE  LET c == session[s].connection IN
         /\ pending[c] # None
         /\ TenantOf[pending[c].key] = Sees(s)
         /\ began[c] < ended[pending[c].key] + Hour
<1> DEFINE c == session[s].connection
<1>1. c \in Connection /\ pending[c] \in Row /\ Vouched(pending[c])
  BY OpenHasConnection DEF IInv, TypeOK, Row
<1>2. pending[c] # None /\ pending[c].expires > began[c] /\ Sees(s) = pending[c].tenant
  BY DEF Sees, None
<1>3. pending[c].key \in Key /\ pending[c].expires \in Nat
  BY <1>1, <1>2, NumbersAssumption DEF Row, Context
<1>4. began[c] \in Nat /\ ended[pending[c].key] \in Nat
  BY <1>1, <1>3, NumbersAssumption DEF IInv, TypeOK, Never
<1>5. QED
  BY <1>1, <1>2, <1>3, <1>4, NumbersAssumption DEF Vouched

(* Whatever tenant a session sees, raw sessions included, was vouched for   *)
(* by a key of that tenant that had ended less than an hour before.         *)
THEOREM SightIsVouched == Spec => []SightIsVouchedFor
<1>1. IInv => SightIsVouchedFor
  BY VouchedSight DEF SightIsVouchedFor
<1>2. QED
  BY <1>1, Invariant, PTL

(* What an open session sees never changes under it.                        *)
THEOREM SightStays == Spec => SightIsStable
<1>1. IInv /\ [Next]_vars =>
        [\A s \in Session : IsOpen(s) /\ session'[s] = session[s] => Sees(s)' = Sees(s)]_vars
  <2> SUFFICES ASSUME IInv, Next, NEW s \in Session, IsOpen(s), session'[s] = session[s]
               PROVE  Sees(s)' = Sees(s)
    OBVIOUS
  <2> DEFINE c == session[s].connection
  <2>1. ASSUME pending'[c] = pending[c], began'[c] = began[c] PROVE Sees(s)' = Sees(s)
    BY <2>1 DEF Sees
  <2>2. ASSUME NEW r \in Session, Close(r) PROVE Sees(s)' = Sees(s)
    <3>1. r # s
      BY <2>2, CloseStep DEF IsOpen, Closed
    <3>2. QED
      BY <2>1, <2>2, <3>1, CloseStep
  <2>3. ASSUME NEW r \in Session, NEW d \in Connection, NEW kind, NEW tenant, NEW row,
               Start(r, d, kind, tenant, row)
        PROVE  Sees(s)' = Sees(s)
    <3>1. r # s
      BY <2>3 DEF Start
    <3>2. pending'[c] = pending[c] /\ began'[c] = began[c]
      <4>1. \A q \in Session \ {r} :
              IsOpen(q) => /\ pending'[session[q].connection] = pending[session[q].connection]
                           /\ began'[session[q].connection] = began[session[q].connection]
        BY <2>3, StartStep
      <4>2. QED
        BY <3>1, <4>1
    <3>3. QED
      BY <2>1, <3>2
  <2>4. CASE UNCHANGED <<pending, began>>
    BY <2>1, <2>4
  <2>5. QED
    BY <2>2, <2>3, <2>4 DEF Next, Tick, End, Commit, Rollback, OpenCleared, OpenRaw, OpenScoped
<1>2. QED
  BY <1>1, Invariant, PTL DEF Spec, SightIsStable

-----------------------------------------------------------------------------
(* Deployment: the catalogue; SecuredDatabase: sessions on it               *)

(* What a transaction finds made by those before it: the policies need the  *)
(* tables and the functions, the grants need the policies.                  *)
Prepared ==
  /\ job \in {"context", "policies", "grants"} => Model \subseteq tables
  /\ job \in {"policies", "grants"} => role /\ functions /\ ContextTable \in tables
  /\ job = "grants" => Protected \subseteq secured

(* The role has no privilege that came before the policies.  What matters   *)
(* most are the defaults: they are given after the policies were applied,   *)
(* when no table is missing any more that a rerun could create readable.    *)
Granted ==
  /\ default => Table \ {Marker} \subseteq tables
  /\ default => Protected \subseteq secured
  /\ ~default => \A t \in Model : "SELECT" \notin privilege[t]

DeployIInv == DeployTypeOK /\ Prepared /\ Granted /\ ContextIsPrivate /\ api # "up" /\ Marker \notin tables

(* The tables are distinct, as TablesAssumption has it.                     *)
LEMMA Tables ==
  /\ Audit \in Model /\ Audit \in Table /\ Audit # ContextTable
  /\ Model \subseteq Table \ {ContextTable, Marker}
  /\ ContextTable \in Table /\ ContextTable # Marker /\ Protected \subseteq Model
  BY TablesAssumption DEF Model, Table

(* DeployInit establishes the invariant.                                          *)
LEMMA DeployInitInv == DeployInit => DeployIInv
<1> SUFFICES ASSUME DeployInit PROVE DeployIInv
  OBVIOUS
<1>1. privilege[ContextTable] = {} /\ \A t \in Table : privilege[t] = {}
  BY Tables DEF DeployInit
<1>2. privilege \in [Table -> SUBSET Use]
  BY DEF DeployInit
<1>3. 0 \in 0 .. MaxPolls
  BY BoundsAssumption
<1>4. DeployTypeOK
  BY <1>1, <1>2, <1>3 DEF DeployInit, DeployTypeOK, Done
<1>5. Prepared /\ Granted
  BY <1>1, Tables DEF DeployInit, Prepared, Granted
<1>6. QED
  BY <1>1, <1>4, <1>5 DEF DeployInit, DeployIInv, ContextIsPrivate

(* Every step preserves the types.                                          *)
LEMMA DeployTypeStep == DeployIInv /\ [DeployNext]_deployVars => DeployTypeOK'
<1> SUFFICES ASSUME DeployIInv, [DeployNext]_deployVars PROVE DeployTypeOK'
  OBVIOUS
<1> USE Tables DEF DeployIInv, DeployTypeOK
<1>1. CASE StartJob
  BY <1>1 DEF StartJob, catalog
<1>2. CASE CreateTables
  BY <1>2 DEF CreateTables, Created, Granted, Model, Table
<1>3. CASE CreateContext
  BY <1>3 DEF CreateContext
<1>4. CASE ApplyPolicies
  BY <1>4 DEF ApplyPolicies
<1>5. CASE GrantPrivileges
  BY <1>5 DEF GrantPrivileges, Prepared, Done
<1>6. CASE FailJob
  BY <1>6 DEF FailJob, Done, catalog
<1>7. CASE StartScript
  BY <1>7 DEF StartScript, catalog
<1>8. CASE RevokeAudit
  BY <1>8 DEF RevokeAudit
<1>9. CASE GrantAudit
  BY <1>9 DEF GrantAudit, Use
<1>10. CASE StartApi
  BY <1>10, BoundsAssumption DEF StartApi, catalog
<1>11. CASE Poll
  BY <1>11, BoundsAssumption DEF Poll, catalog
<1>12. CASE UNCHANGED deployVars
  BY <1>12 DEF deployVars, catalog
<1>13. QED
  BY <1>1, <1>2, <1>3, <1>4, <1>5, <1>6, <1>7, <1>8, <1>9, <1>10, <1>11, <1>12 DEF DeployNext

(* What the catalogue says of privileges and policies changes with the      *)
(* transactions of the job and the statements of the script only.           *)
LEMMA CatalogStep ==
  DeployIInv /\ [DeployNext]_deployVars => Prepared' /\ Granted' /\ ContextIsPrivate' /\ Marker \notin tables'
<1> SUFFICES ASSUME DeployIInv, [DeployNext]_deployVars
             PROVE  Prepared' /\ Granted' /\ ContextIsPrivate' /\ Marker \notin tables'
  OBVIOUS
<1> USE Tables DEF DeployIInv, DeployTypeOK, Prepared, Granted, ContextIsPrivate
<1>1. CASE StartJob
  BY <1>1 DEF StartJob, catalog, Done
<1>2. CASE CreateTables
  BY <1>2 DEF CreateTables, Created, Done
<1>3. CASE CreateContext
  <2>1. default' => Table \ {Marker} \subseteq tables'
    BY <1>3 DEF CreateContext
  <2>2. privilege'[ContextTable] = {} /\ \A t \in Model : privilege'[t] = privilege[t]
    BY <1>3 DEF CreateContext
  <2>3. QED
    BY <1>3, <2>1, <2>2 DEF CreateContext
<1>4. CASE ApplyPolicies
  BY <1>4 DEF ApplyPolicies
<1>5. CASE GrantPrivileges
  <2>1. Table \ {Marker} \subseteq tables
    BY <1>5 DEF GrantPrivileges, Table
  <2>2. QED
    BY <1>5, <2>1 DEF GrantPrivileges
<1>6. CASE FailJob
  BY <1>6 DEF FailJob, catalog, Done
<1>7. CASE StartScript
  BY <1>7 DEF StartScript, catalog
<1>8. CASE RevokeAudit
  BY <1>8 DEF RevokeAudit
<1>9. CASE GrantAudit
  BY <1>9 DEF GrantAudit
<1>10. CASE StartApi
  BY <1>10 DEF StartApi, catalog
<1>11. CASE Poll
  BY <1>11 DEF Poll, catalog
<1>12. CASE UNCHANGED deployVars
  BY <1>12 DEF deployVars, catalog
<1>13. QED
  BY <1>1, <1>2, <1>3, <1>4, <1>5, <1>6, <1>7, <1>8, <1>9, <1>10, <1>11, <1>12 DEF DeployNext

(* The API's container starts only when it has found the marker.            *)
LEMMA ApiStep == DeployIInv /\ [DeployNext]_deployVars => api' # "up"
<1> SUFFICES ASSUME DeployIInv, [DeployNext]_deployVars PROVE api' # "up"
  OBVIOUS
<1>1. CASE Poll
  BY <1>1 DEF Poll, DeployIInv
<1>2. CASE StartApi
  BY <1>2 DEF StartApi
<1>3. CASE api' = api
  BY <1>3 DEF DeployIInv
<1>4. QED
  BY <1>1, <1>2, <1>3 DEF DeployNext, deployVars, StartJob, CreateTables, CreateContext, ApplyPolicies,
     GrantPrivileges, FailJob, StartScript, RevokeAudit, GrantAudit

LEMMA DeployStepInv == DeployIInv /\ [DeployNext]_deployVars => DeployIInv'
  BY DeployTypeStep, CatalogStep, ApiStep DEF DeployIInv

LEMMA DeployInvariant == DeploySpec => []DeployIInv
  BY DeployInitInv, DeployStepInv, PTL DEF DeploySpec

(* The types, for any tables and polls.                                     *)
THEOREM DeployTypeCorrect == DeploySpec => []DeployTypeOK
  BY DeployInvariant, PTL DEF DeployIInv

(* The role of the API never has a privilege on _tenant_context, however    *)
(* the job fails and is repeated and whatever the script does.              *)
THEOREM ContextStaysPrivate == DeploySpec => []ContextIsPrivate
  BY DeployInvariant, PTL DEF DeployIInv

(* No protected table is ever readable without its policies, also between   *)
(* two transactions of the job and in reruns, whose new tables would get    *)
(* default privileges.                                                      *)
THEOREM NeverReadsWithoutPolicies == DeploySpec => []NoReadsWithoutPolicies
<1>1. DeployIInv => NoReadsWithoutPolicies
  BY Tables DEF DeployIInv, Granted, NoReadsWithoutPolicies
<1>2. QED
  BY <1>1, DeployInvariant, PTL

(* A job that returns 0 has secured the protected tables and granted the    *)
(* role what the API needs, whatever failed before it.                      *)
THEOREM SuccessIsComplete == DeploySpec => MigratedIsComplete
<1>1. DeployIInv /\ [DeployNext]_deployVars =>
        [job' = "returned 0" /\ job' # job
           => /\ Protected \subseteq secured' /\ role' /\ functions'
              /\ \A t \in Model \ {Audit} : privilege'[t] = Use
              /\ ReadOrAdd \subseteq privilege'[Audit]]_deployVars
  <2> SUFFICES ASSUME DeployIInv, DeployNext, job' = "returned 0", job' # job
               PROVE  /\ Protected \subseteq secured' /\ role' /\ functions'
                      /\ \A t \in Model \ {Audit} : privilege'[t] = Use
                      /\ ReadOrAdd \subseteq privilege'[Audit]
    OBVIOUS
  <2>1. GrantPrivileges
    BY DEF DeployNext, StartJob, CreateTables, CreateContext, ApplyPolicies, FailJob, StartScript,
       RevokeAudit, GrantAudit, StartApi, Poll
  <2>2. QED
    BY <2>1, Tables, TablesAssumption
       DEF GrantPrivileges, DeployIInv, DeployTypeOK, Prepared, Use, ReadOrAdd, Model
<1>2. QED
  BY <1>1, DeployInvariant, PTL DEF DeploySpec, MigratedIsComplete

(* The API container never starts: no code makes the table that             *)
(* wait_for_migrate.py polls for.                                           *)
THEOREM ApiNeverStarts == DeploySpec => [](api # "up")
  BY DeployInvariant, PTL DEF DeployIInv

-----------------------------------------------------------------------------
(* Sessions on a database that is migrated are sessions, and the migration  *)
(* is one: every theorem about either holds of both together.               *)
THEOREM Components == DbSpec => Spec /\ DeploySpec
<1>1. DbInit => Init /\ DeployInit
  BY DEF DbInit
<1>2. [DbNext]_dbVars => [Next]_vars /\ [DeployNext]_deployVars
  <2>1. CASE UseSessions
    BY <2>1 DEF UseSessions
  <2>2. CASE Deploy
    BY <2>2 DEF Deploy
  <2>3. CASE UNCHANGED dbVars
    BY <2>3 DEF dbVars
  <2>4. QED
    BY <2>1, <2>2, <2>3 DEF DbNext
<1>3. QED
  BY <1>1, <1>2, PTL DEF DbSpec, Spec, DeploySpec

(* What a session reads of a protected table was vouched for, at any point  *)
(* of any number of migrations.                                             *)
THEOREM ReadsVouched == DbSpec => []ReadsAreVouchedFor
<1>1. IInv /\ DeployIInv => ReadsAreVouchedFor
  <2> SUFFICES ASSUME IInv, DeployIInv, NEW s \in Session, NEW t \in Protected, IsOpen(s),
                      NEW tenant \in Reads(s, t)
               PROVE  LET row == pending[session[s].connection] IN
                      /\ row # None
                      /\ TenantOf[row.key] = tenant
                      /\ began[session[s].connection] < ended[row.key] + Hour
    BY DEF ReadsAreVouchedFor
  <2>1. "SELECT" \in privilege[t] => t \in secured
    BY Tables DEF DeployIInv, Granted
  <2>2. tenant \in {Sees(s)} \ {NoTenant}
    BY <2>1 DEF Reads
  <2>3. QED
    BY <2>2, VouchedSight
<1>2. QED
  BY <1>1, Components, Invariant, DeployInvariant, PTL
=============================================================================
