------------------------------- MODULE LimiterProofs -----------------------
(***************************************************************************)
(* Theorems about the three limiters and what stands before and behind     *)
(* them: PgRateLimiter, for any set of workers, limit, window and bounds   *)
(* on the clock and on the number of checks; Api, for any threads, keys,   *)
(* tenants and limits; ApprovalGate, for any agents, capabilities and      *)
(* organizations.  They share the clock and the length of a window.        *)
(***************************************************************************)
EXTENDS PgRateLimiter, Api, ApprovalGate, FiniteSetTheorems, TLAPS

(* The versions of the row that a transaction writes are rows.              *)
LEMMA RowTypes ==
  ASSUME TypeOK, NEW w \in Worker
  PROVE  /\ Fresh(w) \in Row
         /\ Visible(w) \in Row
         /\ NoRow \in Row
         /\ Visible(w).tokens > 0 => [Visible(w) EXCEPT !.tokens = @ - 1] \in Row
<1>1. now[w] \in Time /\ Limit \in 0 .. Limit /\ 0 \in Time /\ 0 \in 0 .. Limit
  BY NumbersAssumption, ClockAssumption DEF TypeOK, Time
<1>2. Fresh(w) \in Row /\ NoRow \in Row
  BY <1>1 DEF Fresh, NoRow, Row
<1>3. Visible(w) \in Row
  BY DEF Visible, TypeOK
<1>4. ASSUME NEW r \in Row, r.tokens > 0 PROVE [r EXCEPT !.tokens = @ - 1] \in Row
  <2>1. r.tokens - 1 \in 0 .. Limit
    BY <1>4, NumbersAssumption, ClockAssumption DEF Row
  <2>2. QED
    BY <2>1 DEF Row
<1>5. QED
  BY <1>2, <1>3, <1>4

(* Writing and releasing the row keep the types of the table.               *)
LEMMA TableTypes ==
  ASSUME TypeOK, NEW w \in Worker
  PROVE  /\ \A r \in Row : Write(w, r) =>
              row' \in Row /\ mine' \in Row /\ holder' \in Worker \cup {Nobody}
         /\ Release(w) => mine' \in Row /\ holder' \in Worker \cup {Nobody}
  BY RowTypes DEF Write, Release, TypeOK

(* Every step preserves the types.                                          *)
LEMMA TypeStep == TypeOK /\ [Next]_vars => TypeOK'
<1> SUFFICES ASSUME TypeOK, [Next]_vars PROVE TypeOK'
  OBVIOUS
<1> USE DEF table
<1>0. \A p \in {"insert", "reset", "decrement", "commit", "allowed", "denied", "failed"} :
        p \in Busy \cup Stopped
  BY DEF Busy, Stopped
<1>1. CASE Tick
  BY <1>1, NumbersAssumption, ClockAssumption DEF Tick, Passes, TypeOK, Time
<1>2. ASSUME NEW w \in Worker, Begin(w) PROVE TypeOK'
  BY <1>2, <1>0 DEF Begin, TypeOK
<1>3. ASSUME NEW w \in Worker, Insert(w) PROVE TypeOK'
  <2>1. row' \in Row /\ mine' \in Row /\ holder' \in Worker \cup {Nobody}
    BY <1>3, RowTypes, TableTypes DEF Insert, TypeOK
  <2>2. QED
    BY <1>3, <1>0, <2>1 DEF Insert, Goto, TypeOK
<1>4. ASSUME NEW w \in Worker, Reset(w) PROVE TypeOK'
  <2>1. row' \in Row /\ mine' \in Row /\ holder' \in Worker \cup {Nobody}
    BY <1>4, RowTypes, TableTypes DEF Reset, TypeOK
  <2>2. QED
    BY <1>4, <1>0, <2>1 DEF Reset, Goto, TypeOK
<1>5. ASSUME NEW w \in Worker, Decrement(w) PROVE TypeOK'
  <2>1. row' \in Row /\ mine' \in Row /\ holder' \in Worker \cup {Nobody}
    BY <1>5, RowTypes, TableTypes DEF Decrement, TypeOK
  <2>2. Visible(w).start \in Time
    BY RowTypes DEF Row
  <2>3. (Visible(w).tokens > 0) \in BOOLEAN
    OBVIOUS
  <2>4. QED
    BY <1>5, <1>0, <2>1, <2>2, <2>3 DEF Decrement, Goto, TypeOK
<1>6. ASSUME NEW w \in Worker, Commit(w) PROVE TypeOK'
  <2>1. row' \in Row /\ mine' \in Row /\ holder' \in Worker \cup {Nobody}
    BY <1>6, RowTypes, TableTypes DEF Commit
  <2>2. granted' \in [Time -> Nat]
    BY <1>6 DEF Commit, TypeOK
  <2>3. QED
    BY <1>6, <1>0, <2>1, <2>2 DEF Commit, Goto, TypeOK
<1>7. ASSUME NEW w \in Worker, Abort(w) PROVE TypeOK'
  <2>1. mine' \in Row /\ holder' \in Worker \cup {Nobody}
    BY <1>7, TableTypes DEF Abort
  <2>2. QED
    BY <1>7, <1>0, <2>1 DEF Abort, TypeOK
<1>8. CASE UNCHANGED vars
  BY <1>8 DEF vars, TypeOK
<1>9. QED
  BY <1>1, <1>2, <1>3, <1>4, <1>5, <1>6, <1>7, <1>8 DEF Next, Step

(* Every variable always has its type.                                      *)
THEOREM TypeCorrect == Spec => []TypeOK
<1>1. Init => TypeOK
  BY NumbersAssumption, ClockAssumption DEF Init, TypeOK, NoRow, Row, Time, Stopped
<1>2. QED
  BY <1>1, TypeStep, PTL DEF Spec

-----------------------------------------------------------------------------
(* The inductive invariant.  GrantsCounted: the committed row and the       *)
(* history of committed admissions agree, and no window later than the      *)
(* row's has any.                                                           *)
GrantsCounted ==
  /\ ~row.exists => \A t \in Time : granted[t] = 0
  /\ row.exists => /\ granted[row.start] + row.tokens = Limit
                   /\ \A t \in Time : row.start < t => granted[t] = 0

NeverOver == \A t \in Time : granted[t] =< Limit

(* Held: what the transaction that holds the row has written to it.  It is  *)
(* in the row's window, one token spent, or it opens a new window.          *)
Opens == ~row.exists \/ row.start + Window < mine.start
Held ==
  holder # Nobody =>
    /\ pc[holder] \in {"reset", "decrement", "commit"}
    /\ mine.exists
    /\ pc[holder] # "commit" => Opens /\ mine.tokens = Limit
    /\ pc[holder] = "commit" /\ allowed[holder] =>
         \/ Opens /\ mine.tokens + 1 = Limit
         \/ row.exists /\ mine.start = row.start /\ mine.tokens + 1 = row.tokens
    /\ pc[holder] = "commit" /\ ~allowed[holder] => Opens /\ mine.tokens = 0 /\ Limit = 0
    /\ pc[holder] = "commit" => seen[holder] = mine.start

(* A check that has inserted sees a row; one that was allowed holds it; one *)
(* that was not looked at a window with nothing left.                       *)
Looked ==
  \A w \in Worker :
    /\ pc[w] \in {"reset", "decrement", "commit"} => row.exists \/ holder = w
    /\ pc[w] = "commit" /\ allowed[w] => holder = w
    /\ (pc[w] = "commit" /\ ~allowed[w]) \/ pc[w] = "denied" => granted[seen[w]] = Limit

IInv == TypeOK /\ GrantsCounted /\ NeverOver /\ Held /\ Looked

(* What the types say of the numbers.                                       *)
LEMMA Numbers ==
  ASSUME TypeOK
  PROVE  /\ Limit \in Nat /\ Window \in Nat /\ Time \subseteq Nat
         /\ row.start \in Time /\ mine.start \in Time
         /\ row.tokens \in Nat /\ row.tokens =< Limit
         /\ mine.tokens \in Nat /\ mine.tokens =< Limit
         /\ row.exists \in BOOLEAN /\ mine.exists \in BOOLEAN
         /\ \A t \in Time : granted[t] \in Nat
         /\ \A w \in Worker : now[w] \in Time /\ seen[w] \in Time
  BY NumbersAssumption, ClockAssumption DEF TypeOK, Row, Time

(* Insert opens a window, or leaves everything as it is.                    *)
LEMMA InsertStep ==
  ASSUME IInv, TypeOK', NEW w \in Worker, Insert(w)
  PROVE  IInv'
<1> USE DEF IInv, Insert, Goto, table
<1>0. pc \in [Worker -> Busy \cup Stopped]
  BY DEF TypeOK
<1>1. GrantsCounted' /\ NeverOver'
  BY DEF GrantsCounted, NeverOver, Write
<1>2. Held'
  BY <1>0, NobodyAssumption DEF Held, Write, Fresh, Opens
<1>3. Looked'
  BY <1>0, NobodyAssumption DEF Looked, Write
<1>4. QED
  BY <1>1, <1>2, <1>3

(* Reset opens a window when the one it sees has expired.                   *)
LEMMA ResetStep ==
  ASSUME IInv, TypeOK', NEW w \in Worker, Reset(w)
  PROVE  IInv'
<1> USE DEF IInv, Reset, Goto, table
<1>0. pc \in [Worker -> Busy \cup Stopped]
  BY DEF TypeOK
<1>1. GrantsCounted' /\ NeverOver'
  BY DEF GrantsCounted, NeverOver, Write
<1>2. Held'
  <2>1. CASE ~Expired(w)
    BY <2>1, <1>0, NobodyAssumption DEF Held, Opens
  <2>2. CASE Expired(w) /\ holder = w
    <3>1. Opens /\ mine.start + Window < now[w]
      BY <2>2, NobodyAssumption DEF Held, Expired, Visible
    <3>2. ~row.exists \/ row.start + Window < now[w]
      BY <3>1, Numbers DEF Opens
    <3>3. QED
      BY <2>2, <1>0, <3>2 DEF Held, Opens, Write, Fresh
  <2>3. CASE Expired(w) /\ holder # w
    BY <2>3, <1>0 DEF Held, Opens, Write, Fresh, Expired, Visible
  <2>4. QED
    BY <2>1, <2>2, <2>3
<1>3. Looked'
  BY <1>0, NobodyAssumption DEF Looked, Write
<1>4. QED
  BY <1>1, <1>2, <1>3

(* Decrement takes a token of the window it sees, if there is one.          *)
LEMMA DecrementStep ==
  ASSUME IInv, TypeOK', NEW w \in Worker, Decrement(w)
  PROVE  IInv'
<1> USE DEF IInv, Decrement, Goto, table
<1>0. /\ pc \in [Worker -> Busy \cup Stopped] /\ allowed \in [Worker -> BOOLEAN]
      /\ seen \in [Worker -> Time]
  BY DEF TypeOK
<1>1. GrantsCounted' /\ NeverOver'
  BY DEF GrantsCounted, NeverOver, Write
<1>2. pc'[w] = "commit" /\ seen'[w] = Visible(w).start /\ allowed'[w] = (Visible(w).tokens > 0)
  BY <1>0
<1>3. \A v \in Worker : v # w => pc'[v] = pc[v] /\ seen'[v] = seen[v] /\ allowed'[v] = allowed[v]
  BY <1>0
<1>4. row' = row /\ granted' = granted
  BY DEF Write
<1>5. CASE holder = w
  <2>1. Opens /\ mine.tokens = Limit /\ mine.exists /\ Visible(w) = mine
    BY <1>5, NobodyAssumption DEF Held, Visible
  <2>2. CASE mine.tokens > 0
    <3>1. /\ holder' = w /\ mine'.exists /\ mine'.start = mine.start
          /\ mine'.tokens = mine.tokens - 1 /\ allowed'[w]
      BY <2>1, <2>2, <1>2, RowTypes DEF Write, Row
    <3>2. Held'
      BY <3>1, <2>1, <1>2, <1>4, Numbers DEF Held, Opens
    <3>3. Looked'
      BY <3>1, <1>2, <1>3, <1>4, <1>5 DEF Looked
    <3>4. QED
      BY <1>1, <3>2, <3>3
  <2>3. CASE ~(mine.tokens > 0)
    <3>1. holder' = w /\ mine' = mine /\ ~allowed'[w] /\ mine.tokens = 0 /\ Limit = 0
      <4>1. ~allowed'[w]
        BY <2>1, <2>3, <1>2, Zenon
      <4>2. holder' = w /\ mine' = mine
        BY <2>1, <2>3, <1>5
      <4>3. mine.tokens = 0
        BY <2>3, Numbers
      <4>4. QED
        BY <4>1, <4>2, <4>3, <2>1
    <3>2. Held'
      BY <3>1, <2>1, <1>2, <1>4 DEF Held, Opens
    <3>3. granted[mine.start] = Limit
      BY <3>1, Numbers DEF NeverOver
    <3>4. Looked'
      BY <3>1, <3>3, <2>1, <1>2, <1>3, <1>4, <1>5 DEF Looked
    <3>5. QED
      BY <1>1, <3>2, <3>4
  <2>4. QED
    BY <2>2, <2>3
<1>6. CASE holder # w
  <2>1. row.exists /\ Visible(w) = row
    BY <1>6 DEF Looked, Visible
  <2>2. CASE row.tokens > 0
    <3>1. /\ holder = Nobody /\ holder' = w /\ mine'.exists /\ mine'.start = row.start
          /\ mine'.tokens = row.tokens - 1 /\ allowed'[w]
      BY <2>1, <2>2, <1>2, <1>6, RowTypes DEF Write, Row
    <3>2. Held'
      BY <3>1, <2>1, <1>2, <1>4, Numbers DEF Held, Opens
    <3>3. Looked'
      BY <3>1, <1>2, <1>3, <1>4, NobodyAssumption DEF Looked
    <3>4. QED
      BY <1>1, <3>2, <3>3
  <2>3. CASE ~(row.tokens > 0)
    <3>1. holder' = holder /\ mine' = mine /\ ~allowed'[w] /\ row.tokens = 0
      <4>1. ~allowed'[w]
        BY <2>1, <2>3, <1>2, Zenon
      <4>2. holder' = holder /\ mine' = mine
        BY <2>1, <2>3
      <4>3. row.tokens = 0
        BY <2>3, Numbers
      <4>4. QED
        BY <4>1, <4>2, <4>3
    <3>2. holder \in Worker \cup {Nobody}
      BY DEF TypeOK
    <3>3. Held'
      BY <3>1, <3>2, <1>3, <1>4, <1>6 DEF Held, Opens
    <3>4. granted[row.start] = Limit
      BY <3>1, <2>1, Numbers DEF GrantsCounted
    <3>5. Looked'
      BY <3>1, <3>4, <2>1, <1>2, <1>3, <1>4 DEF Looked
    <3>6. QED
      BY <1>1, <3>3, <3>5
  <2>4. QED
    BY <2>2, <2>3
<1>7. QED
  BY <1>5, <1>6

(* What a commit does to the row and to the history.                        *)
LEMMA CommitFacts ==
  ASSUME IInv, TypeOK', NEW w \in Worker, Commit(w)
  PROVE  \/ /\ row' = row /\ granted' = granted /\ ~allowed[w]
            /\ holder # w /\ holder' = holder /\ mine' = mine
         \/ /\ row' = mine /\ granted' = granted /\ ~allowed[w] /\ holder = w /\ holder' = Nobody
            /\ Opens /\ mine.exists /\ mine.tokens = 0 /\ Limit = 0
         \/ /\ row' = mine /\ allowed[w] /\ holder = w /\ holder' = Nobody
            /\ mine.exists
            /\ \A t \in Time : granted'[t] = IF t = mine.start THEN granted[t] + 1 ELSE granted[t]
            /\ \/ Opens /\ mine.tokens + 1 = Limit
               \/ row.exists /\ mine.start = row.start /\ mine.tokens + 1 = row.tokens
<1> USE DEF IInv, Commit, Goto, table, Release, Visible
<1>1. granted \in [Time -> Nat] /\ pc[w] = "commit"
  BY DEF TypeOK
<1>2. CASE holder # w
  BY <1>1, <1>2 DEF Looked
<1>3. CASE holder = w /\ ~allowed[w]
  BY <1>1, <1>3, NobodyAssumption DEF Held
<1>4. CASE holder = w /\ allowed[w]
  <2>1. seen[w] = mine.start /\ mine.exists /\ holder # Nobody
    BY <1>1, <1>4, NobodyAssumption DEF Held
  <2>2. \/ Opens /\ mine.tokens + 1 = Limit
        \/ row.exists /\ mine.start = row.start /\ mine.tokens + 1 = row.tokens
    BY <1>1, <1>4, <2>1 DEF Held
  <2>3. \A t \in Time : granted'[t] = IF t = mine.start THEN granted[t] + 1 ELSE granted[t]
    BY <1>1, <1>4, <2>1
  <2>4. QED
    BY <1>4, <2>1, <2>2, <2>3
<1>5. QED
  BY <1>2, <1>3, <1>4

(* A commit makes what was held the row, and counts an admission.           *)
LEMMA CommitStep ==
  ASSUME IInv, TypeOK', NEW w \in Worker, Commit(w)
  PROVE  IInv'
<1> USE DEF IInv
<1>0. pc \in [Worker -> Busy \cup Stopped] /\ pc[w] = "commit" /\ UNCHANGED <<allowed, seen>>
      /\ pc'[w] = (IF allowed[w] THEN "allowed" ELSE "denied")
      /\ \A v \in Worker : v # w => pc'[v] = pc[v]
  BY DEF TypeOK, Commit, Goto
<1>1. /\ \A t \in Time : granted[t] =< Limit /\ granted[t] \in Nat
      /\ Opens => granted[mine.start] = 0 /\ \A t \in Time : mine.start < t => granted[t] = 0
      /\ mine.start \in Time
  BY Numbers DEF NeverOver, GrantsCounted, Opens
<1>2. CASE /\ row' = row /\ granted' = granted /\ ~allowed[w]
           /\ holder # w /\ holder' = holder /\ mine' = mine
  <2>1. GrantsCounted' /\ NeverOver'
    BY <1>2 DEF GrantsCounted, NeverOver
  <2>2. Held'
    <3>1. holder \in Worker \cup {Nobody}
      BY DEF TypeOK
    <3>2. QED
      BY <1>2, <1>0, <3>1 DEF Held, Opens
  <2>3. Looked'
    BY <1>2, <1>0 DEF Looked
  <2>4. QED
    BY <2>1, <2>2, <2>3
<1>3. CASE /\ row' = mine /\ granted' = granted /\ ~allowed[w] /\ holder = w /\ holder' = Nobody
           /\ Opens /\ mine.exists /\ mine.tokens = 0 /\ Limit = 0
  <2>1. GrantsCounted' /\ NeverOver'
    BY <1>3, <1>1, Numbers DEF GrantsCounted, NeverOver
  <2>2. Held'
    BY <1>3 DEF Held
  <2>3. Looked'
    BY <1>3, <1>0, NobodyAssumption DEF Looked
  <2>4. QED
    BY <2>1, <2>2, <2>3
<1>4. CASE /\ row' = mine /\ allowed[w] /\ holder = w /\ holder' = Nobody
           /\ mine.exists
           /\ \A t \in Time : granted'[t] = IF t = mine.start THEN granted[t] + 1 ELSE granted[t]
           /\ \/ Opens /\ mine.tokens + 1 = Limit
              \/ row.exists /\ mine.start = row.start /\ mine.tokens + 1 = row.tokens
  <2>1. granted[mine.start] + 1 + mine.tokens = Limit
    BY <1>4, <1>1, Numbers DEF GrantsCounted
  <2>2. \A t \in Time : mine.start < t => granted[t] = 0
    BY <1>4, <1>1 DEF GrantsCounted
  <2>3. GrantsCounted' /\ NeverOver'
    <3>1. row'.exists /\ row'.start = mine.start /\ row'.tokens = mine.tokens
      BY <1>4
    <3>2. \A t \in Time : t # mine.start => granted'[t] = granted[t]
      BY <1>4
    <3>3. granted'[mine.start] = granted[mine.start] + 1
      BY <1>4, <1>1
    <3>4. GrantsCounted'
      BY <3>1, <3>2, <3>3, <2>1, <2>2, <1>1, Numbers DEF GrantsCounted
    <3>5. NeverOver'
      BY <3>2, <3>3, <2>1, <1>1, Numbers DEF NeverOver
    <3>6. QED
      BY <3>4, <3>5
  <2>4. Held'
    BY <1>4 DEF Held
  <2>5. Looked'
    <3>1. granted[mine.start] # Limit
      BY <2>1, <1>1, Numbers
    <3>2. \A v \in Worker : granted[seen[v]] = Limit => granted'[seen[v]] = Limit
      BY <3>1, <1>4, Numbers
    <3>3. QED
      BY <3>2, <1>4, <1>0, NobodyAssumption DEF Looked
  <2>6. QED
    BY <2>3, <2>4, <2>5
<1>5. QED
  BY <1>2, <1>3, <1>4, CommitFacts

(* Every step preserves the inductive invariant.                            *)
LEMMA InvStep == IInv /\ [Next]_vars => IInv'
<1> SUFFICES ASSUME IInv, [Next]_vars PROVE IInv'
  OBVIOUS
<1>0. TypeOK' /\ pc \in [Worker -> Busy \cup Stopped] /\ holder \in Worker \cup {Nobody}
  BY TypeStep DEF IInv, TypeOK
<1> USE DEF IInv, table
<1>1. CASE Tick
  BY <1>0, <1>1 DEF Tick, Passes, GrantsCounted, NeverOver, Held, Looked, Opens
<1>2. ASSUME NEW w \in Worker, Begin(w) PROVE IInv'
  <2>1. holder # w
    BY <1>2, NobodyAssumption DEF Begin, Held, Stopped
  <2>2. QED
    BY <1>0, <1>2, <2>1 DEF Begin, GrantsCounted, NeverOver, Held, Looked, Opens
<1>3. ASSUME NEW w \in Worker, Abort(w) PROVE IInv'
  BY <1>0, <1>3, NobodyAssumption DEF Abort, Release, GrantsCounted, NeverOver, Held, Looked, Opens
<1>4. CASE UNCHANGED vars
  BY <1>0, <1>4 DEF vars, GrantsCounted, NeverOver, Held, Looked, Opens
<1>5. QED
  BY <1>0, <1>1, <1>2, <1>3, <1>4, InsertStep, ResetStep, DecrementStep, CommitStep DEF Next,
                                                                                        Step

(* The inductive invariant always holds.                                    *)
THEOREM Invariant == Spec => []IInv
<1>1. Init => TypeOK
  BY NumbersAssumption, ClockAssumption DEF Init, TypeOK, NoRow, Row, Time, Stopped
<1>2. Init => IInv
  BY <1>1, NumbersAssumption, ClockAssumption DEF Init, IInv, NoRow, GrantsCounted, NeverOver,
                                                   Held, Looked
<1>3. QED
  BY <1>2, InvStep, PTL DEF Spec

(* Whatever the interleaving, no window admits more than Limit requests and *)
(* the tokens of the row are exactly what its window has not admitted.      *)
THEOREM NeverOverAdmits == Spec => []NoOverAdmission
<1>1. IInv => NoOverAdmission
  BY DEF IInv, GrantsCounted, NeverOver, NoOverAdmission
<1>2. QED
  BY <1>1, Invariant, PTL

(* A request is denied only in a window that has admitted Limit requests.   *)
THEOREM DeniesOnlyWhenSpent == Spec => []DeniedOnlyWhenSpent
<1>1. IInv => DeniedOnlyWhenSpent
  BY DEF IInv, Looked, DeniedOnlyWhenSpent
<1>2. QED
  BY <1>1, Invariant, PTL

(* PgRateLimiter implements RateWindow: a commit is an atomic check, every  *)
(* other step a stutter.                                                    *)
THEOREM Refinement == Spec => ImplementsRateWindow
<1> DEFINE start == IF row.exists THEN row.start ELSE NoWindow
           used  == IF row.exists THEN Limit - row.tokens ELSE 0
<1>1. Init => Windows!Init
  BY DEF Init, NoRow, Windows!Init
<1>2. IInv /\ IInv' /\ [Next]_vars => [Windows!Next]_<<start, used>>
  <2> SUFFICES ASSUME IInv, IInv', [Next]_vars PROVE [Windows!Next]_<<start, used>>
    OBVIOUS
  <2>1. ASSUME NEW w \in Worker, Commit(w) PROVE [Windows!Next]_<<start, used>>
    <3> USE DEF Windows!Next, Windows!CheckNew, Windows!CheckCurrent, Windows!Expired
    <3>0. /\ TypeOK /\ TypeOK' /\ row.start \in Nat /\ mine.start \in Time
          /\ row.start # NoWindow /\ mine.start \in Nat
      BY Numbers, NoWindowAssumption DEF IInv
    <3>1. CASE row' = row
      BY <3>1
    <3>2. CASE row' = mine /\ mine.exists /\ Opens /\ mine.tokens = 0 /\ Limit = 0
      BY <3>0, <3>2 DEF Opens
    <3>3. CASE row' = mine /\ mine.exists /\ Opens /\ mine.tokens + 1 = Limit
      <4>1. start' = mine.start /\ used' = 1 /\ Limit > 0
        BY <3>0, <3>3, Numbers
      <4>2. start = NoWindow \/ start + Window < mine.start
        BY <3>0, <3>3 DEF Opens
      <4>3. QED
        BY <3>0, <4>1, <4>2
    <3>4. CASE row' = mine /\ mine.exists /\ row.exists /\ mine.start = row.start
               /\ mine.tokens + 1 = row.tokens
      <4>1. start' = start /\ used < Limit /\ used' = used + 1 /\ start # NoWindow
        BY <3>0, <3>4, Numbers
      <4>2. QED
        BY <4>1
    <3>5. QED
      BY <2>1, <3>0, <3>1, <3>2, <3>3, <3>4, CommitFacts
  <2>2. CASE row' = row
    BY <2>2
  <2>3. QED
    <3>1. row' = row \/ \E w \in Worker : Commit(w)
      BY DEF Next, Step, Tick, Passes, Begin, Insert, Reset, Decrement, Abort, Write, table, vars
    <3>2. QED
      BY <2>1, <2>2, <3>1
<1>3. QED
  BY <1>1, <1>2, Invariant, PTL DEF Spec, ImplementsRateWindow, Windows!Spec

-----------------------------------------------------------------------------
(***************************************************************************)
(* The routes of Api.                                                      *)
(***************************************************************************)

(* The threads that are about to check the rule for starts, for tenant t.   *)
Starting(t) == {w \in Thread : stage[w] = "start" /\ request[w].tenant = t}

(* Those, and the starts the current window has counted, were either on     *)
(* their way when the window opened or have been counted as creations since *)
(* then; there was one creations' window, or that and one more.             *)
StartsWereCreations ==
  \A t \in Tenant :
    LET s == bucket[t]["start"]  c == bucket[t]["create"] IN
    ~BucketExpired(s) =>
      s.used + Cardinality(Starting(t))
        =< Cardinality(Thread) + c.used
           + IF c.start = NoWindow \/ c.start < s.start THEN 0 ELSE CreateLimit

(* Windows that were opened began in the past.                              *)
WindowsBegan ==
  \A t \in Tenant, rule \in Rule :
    bucket[t][rule].start = NoWindow \/ bucket[t][rule].start =< clock

(* The inductive invariant of the routes.                                   *)
RoutesIInv ==
  /\ ApiTypeOK
  /\ WindowsBegan
  /\ StartsWereCreations

(* It holds when the server starts.                                         *)
LEMMA RoutesInit == ApiInit => RoutesIInv
<1> SUFFICES ASSUME ApiInit PROVE RoutesIInv
  OBVIOUS
<1> USE DEF ApiInit
<1>1. Request # {}
  <2>1. PICK key \in Key : TRUE
    BY KeysAssumption
  <2>2. [key |-> key, route |-> "read", tenant |-> TenantOf[key]] \in Request
    BY KeysAssumption DEF Request, Route
  <2>3. QED
    BY <2>2
<1>2. request \in [Thread -> Request]
  BY <1>1
<1>3. ApiTypeOK
  BY <1>2, LimitsAssumption, ClockAssumption, KeysAssumption DEF ApiTypeOK, Time, Rule, Bucket,
              RuleLimit, Response
<1>4. QED
  BY <1>3 DEF RoutesIInv, WindowsBegan, StartsWereCreations, BucketExpired, Rule

(* What a check leaves in a bucket: in a new window, one more, or the same. *)
LEMMA CountedBucket ==
  ASSUME NEW b \in Bucket, NEW l \in Nat, b.used =< l, clock \in Time
  PROVE  LET c == Counted(b, l) IN
         /\ c \in Bucket /\ c.used =< l
         /\ c.start = clock \/ c.start = b.start
         /\ BucketExpired(b) => c.start = clock /\ c.used = IF l > 0 THEN 1 ELSE 0
         /\ ~BucketExpired(b) /\ b.used < l => c.start = b.start /\ c.used = b.used + 1
         /\ ~BucketExpired(b) /\ b.used = l => c = b
<1>1. b.used \in Nat /\ [start |-> clock, used |-> 0] \in Bucket
  BY DEF Bucket
<1>2. CASE BucketExpired(b)
  BY <1>1, <1>2 DEF Counted, CurrentBucket, Bucket
<1>3. CASE ~BucketExpired(b)
  BY <1>1, <1>3 DEF Counted, CurrentBucket, Bucket
<1>4. QED
  BY <1>2, <1>3

(* A check leaves the other buckets as they were.                           *)
LEMMA ChargedBucket ==
  ASSUME ApiTypeOK, NEW t \in Tenant, NEW rule \in Rule
  PROVE  LET c == Counted(bucket[t][rule], RuleLimit[rule]) IN
         /\ bucket[t][rule] \in Bucket /\ RuleLimit[rule] \in Nat
         /\ bucket[t][rule].used =< RuleLimit[rule]
         /\ clock \in Time
         /\ ChargedBuckets(t, rule)[t][rule] = c
         /\ ChargedBuckets(t, rule) \in [Tenant -> [Rule -> Bucket]]
         /\ \A u \in Tenant, r \in Rule :
              u # t \/ r # rule => ChargedBuckets(t, rule)[u][r] = bucket[u][r]
<1>1. /\ bucket[t][rule] \in Bucket /\ bucket[t][rule].used =< RuleLimit[rule]
      /\ RuleLimit[rule] \in Nat /\ clock \in Time
      /\ bucket \in [Tenant -> [Rule -> Bucket]]
  BY LimitsAssumption DEF ApiTypeOK, RuleLimit
<1>2. Counted(bucket[t][rule], RuleLimit[rule]) \in Bucket
  BY <1>1, CountedBucket
<1>3. QED
  BY <1>1, <1>2 DEF ChargedBuckets

(* Every step keeps the types, and windows that began before.               *)
LEMMA RoutesTypeStep ==
  ASSUME ApiTypeOK, WindowsBegan, [ApiNext]_apiVars
  PROVE  ApiTypeOK' /\ WindowsBegan'
<1> USE DEF ApiTypeOK, WindowsBegan
<1>0. /\ clock \in Nat
      /\ \A t \in Tenant, rule \in Rule :
           bucket[t][rule].start \in Nat \cup {NoWindow}
  BY DEF Time, Bucket
<1>1. CASE ApiTick
  <2>1. clock' = clock + 1 /\ clock' \in Time
    BY <1>1, <1>0, ClockAssumption DEF ApiTick, Passes, Time
  <2>2. WindowsBegan'
    BY <1>0, <1>1, <2>1 DEF ApiTick, Passes
  <2>3. QED
    BY <1>1, <2>1, <2>2 DEF ApiTick, Passes
<1>2. CASE \E key \in Key : Invalidate(key)
  BY <1>2 DEF Invalidate
<1>3. ASSUME NEW w \in Thread, Arrive(w) PROVE ApiTypeOK' /\ WindowsBegan'
  <2>1. PICK key \in Key, route \in Route : \E tenant \in SpeaksFor(key) :
          request' = [request EXCEPT ![w] = [key |-> key, route |-> route, tenant |-> tenant]]
    BY <1>3 DEF Arrive
  <2>2. PICK tenant \in Tenant :
          request' = [request EXCEPT ![w] = [key |-> key, route |-> route, tenant |-> tenant]]
    BY <2>1, KeysAssumption DEF SpeaksFor
  <2>3. request' \in [Thread -> Request]
    BY <2>2 DEF Request
  <2>4. QED
    BY <1>3, <2>3 DEF Arrive, Pending
<1>4. ASSUME NEW w \in Thread, Validate(w) \/ Handle(w)
      PROVE  ApiTypeOK' /\ WindowsBegan'
  BY <1>4 DEF Validate, Handle, Pending, Response
<1>5. ASSUME NEW t \in Tenant, NEW rule \in Rule, bucket' = ChargedBuckets(t, rule),
             clock' = clock
      PROVE  /\ bucket' \in [Tenant -> [Rule -> Bucket]]
             /\ \A u \in Tenant, r \in Rule : bucket'[u][r].used =< RuleLimit[r]
             /\ WindowsBegan'
  <2>1. /\ bucket' \in [Tenant -> [Rule -> Bucket]]
        /\ \A u \in Tenant, r \in Rule :
              u # t \/ r # rule => bucket'[u][r] = bucket[u][r]
        /\ bucket'[t][rule].used =< RuleLimit[rule]
        /\ bucket'[t][rule].start \in {clock, bucket[t][rule].start}
    <3> DEFINE c == Counted(bucket[t][rule], RuleLimit[rule])
    <3>1. /\ bucket[t][rule] \in Bucket /\ RuleLimit[rule] \in Nat
          /\ bucket[t][rule].used =< RuleLimit[rule] /\ clock \in Time
      BY ChargedBucket
    <3>2. /\ c.used =< RuleLimit[rule]
          /\ c.start = clock \/ c.start = bucket[t][rule].start
      BY <3>1, CountedBucket
    <3>3. QED
      BY <1>5, <3>2, ChargedBucket
  <2>2. \A u \in Tenant, r \in Rule : bucket'[u][r].used =< RuleLimit[r]
    BY <2>1
  <2>3. ASSUME NEW u \in Tenant, NEW r \in Rule
        PROVE  bucket'[u][r].start = NoWindow \/ bucket'[u][r].start =< clock'
    <3>1. bucket'[u][r].start \in {clock, bucket[u][r].start}
      BY <2>1
    <3>2. QED
      BY <1>0, <1>5, <3>1
  <2>4. QED
    BY <2>1, <2>2, <2>3
<1>6. ASSUME NEW w \in Thread, LimitCreate(w) \/ LimitStart(w)
      PROVE  ApiTypeOK' /\ WindowsBegan'
  <2>1. /\ request[w].tenant \in Tenant
        /\ "create" \in Rule /\ "start" \in Rule
    BY DEF Request, Rule
  <2>2. stage' \in [Thread -> Pending \cup Response]
    BY <1>6 DEF LimitCreate, LimitStart, Pending, Response
  <2>3. \E rule \in Rule : bucket' = ChargedBuckets(request[w].tenant, rule)
    BY <1>6, <2>1, Zenon DEF LimitCreate, LimitStart
  <2>4. UNCHANGED <<clock, valid, request, sent>>
    BY <1>6 DEF LimitCreate, LimitStart
  <2>5. QED
    BY <1>5, <2>1, <2>2, <2>3, <2>4
<1>7. CASE UNCHANGED apiVars
  BY <1>7 DEF apiVars
<1>8. QED
  BY <1>1, <1>2, <1>3, <1>4, <1>6, <1>7 DEF ApiNext, ApiStep

(* There are at most as many starts on their way as threads.                *)
LEMMA StartingCount ==
  ASSUME NEW t
  PROVE  /\ IsFiniteSet(Starting(t))
         /\ Cardinality(Starting(t)) \in Nat /\ Cardinality(Thread) \in Nat
         /\ Cardinality(Starting(t)) =< Cardinality(Thread)
<1>1. IsFiniteSet(Thread) /\ Starting(t) \subseteq Thread
  BY ThreadAssumption DEF Starting
<1>2. QED
  BY <1>1, FS_Subset, FS_CardinalityType

(* Who is on the way after a step.                                          *)
LEMMA StartingSteps ==
  ASSUME ApiTypeOK, NEW w \in Thread, NEW t \in Tenant
  PROVE  /\ Arrive(w) \/ Validate(w) \/ Handle(w) => Starting(t)' = Starting(t)
         /\ LimitCreate(w) =>
              \/ Starting(t)' = Starting(t)
              \/ /\ t = request[w].tenant /\ Admits(t, "create")
                 /\ Cardinality(Starting(t)') = Cardinality(Starting(t)) + 1
         /\ LimitStart(w) =>
              IF t = request[w].tenant
              THEN /\ Cardinality(Starting(t)') = Cardinality(Starting(t)) - 1
              ELSE Starting(t)' = Starting(t)
<1> USE DEF ApiTypeOK
<1>1. ASSUME Arrive(w) PROVE Starting(t)' = Starting(t)
  <2>1. /\ stage[w] # "start" /\ stage' = [stage EXCEPT ![w] = "validate"]
        /\ \A v \in Thread : v # w => request'[v] = request[v]
    BY <1>1 DEF Arrive, Response
  <2>2. QED
    BY <2>1 DEF Starting
<1>2. ASSUME Validate(w) \/ Handle(w) PROVE Starting(t)' = Starting(t)
  BY <1>2 DEF Validate, Handle, Starting
<1>3. ASSUME LimitCreate(w)
      PROVE  \/ Starting(t)' = Starting(t)
             \/ /\ t = request[w].tenant /\ Admits(t, "create")
                /\ Cardinality(Starting(t)') = Cardinality(Starting(t)) + 1
  <2>1. CASE t = request[w].tenant /\ Admits(t, "create") /\ request[w].route = "start"
    <3>1. stage[w] # "start" /\ stage' = [stage EXCEPT ![w] = "start"] /\ request' = request
      BY <1>3, <2>1 DEF LimitCreate
    <3>2. Starting(t)' = Starting(t) \cup {w} /\ w \notin Starting(t)
      BY <2>1, <3>1 DEF Starting
    <3>3. QED
      BY <2>1, <3>2, StartingCount, FS_AddElement
  <2>2. CASE ~(t = request[w].tenant /\ Admits(t, "create") /\ request[w].route = "start")
    <3>1. \E p \in {"start", "handle", "429"} :
            /\ stage[w] = "create" /\ stage' = [stage EXCEPT ![w] = p] /\ request' = request
            /\ p = "start" => t # request[w].tenant
      BY <1>3, <2>2, Zenon DEF LimitCreate
    <3>2. QED
      BY <3>1 DEF Starting
  <2>3. QED
    BY <2>1, <2>2
<1>4. ASSUME LimitStart(w)
      PROVE  IF t = request[w].tenant
             THEN Cardinality(Starting(t)') = Cardinality(Starting(t)) - 1
             ELSE Starting(t)' = Starting(t)
  <2>1. PICK p \in {"handle", "429"} : /\ stage[w] = "start" /\ stage' = [stage EXCEPT ![w] = p]
                                       /\ request' = request
    BY <1>4, Zenon DEF LimitStart
  <2>2. CASE t = request[w].tenant
    <3>1. Starting(t)' = Starting(t) \ {w} /\ w \in Starting(t)
      BY <2>1, <2>2 DEF Starting
    <3>2. QED
      <4>1. Cardinality(Starting(t) \ {w}) = Cardinality(Starting(t)) - 1
        BY <3>1, StartingCount, FS_RemoveElement
      <4>2. QED
        BY <2>2, <3>1, <4>1
  <2>3. CASE t # request[w].tenant
    BY <2>1, <2>3 DEF Starting
  <2>4. QED
    BY <2>2, <2>3
<1>5. QED
  BY <1>1, <1>2, <1>3, <1>4

(* Every step keeps the starts within the creations.                        *)
LEMMA StartsStep ==
  ASSUME RoutesIInv, [ApiNext]_apiVars
  PROVE  StartsWereCreations'
<1> SUFFICES ASSUME NEW t \in Tenant
             PROVE  LET s == bucket'[t]["start"]  c == bucket'[t]["create"] IN
                    ~(s.start = NoWindow \/ s.start + Window < clock') =>
                      s.used + Cardinality(Starting(t)')
                        =< Cardinality(Thread) + c.used
                           + IF c.start = NoWindow \/ c.start < s.start THEN 0 ELSE CreateLimit
  BY DEF StartsWereCreations, BucketExpired
<1> DEFINE s == bucket[t]["start"]
           c == bucket[t]["create"]
           p == Cardinality(Starting(t))
           Bound(x, y, q, now_) ==
             ~(x.start = NoWindow \/ x.start + Window < now_) =>
                      x.used + q
                        =< Cardinality(Thread) + y.used
                           + IF y.start = NoWindow \/ y.start < x.start THEN 0 ELSE CreateLimit
<1>1. /\ s.used \in Nat /\ c.used \in Nat /\ c.used =< CreateLimit
      /\ s.start \in Nat \cup {NoWindow} /\ c.start \in Nat \cup {NoWindow}
      /\ s.start = NoWindow \/ s.start =< clock
      /\ c.start = NoWindow \/ c.start =< clock
      /\ clock \in Nat /\ Window \in Nat /\ CreateLimit \in Nat /\ StartLimit \in Nat
      /\ RuleLimit["create"] = CreateLimit /\ RuleLimit["start"] = StartLimit
      /\ "create" \in Rule /\ "start" \in Rule
  <2>1. "create" \in Rule /\ "start" \in Rule
        /\ RuleLimit["create"] = CreateLimit /\ RuleLimit["start"] = StartLimit
    BY DEF Rule, RuleLimit
  <2>2. s \in Bucket /\ c \in Bucket /\ c.used =< CreateLimit /\ clock \in Nat
    BY <2>1 DEF RoutesIInv, ApiTypeOK, Time
  <2>3. \A b \in Bucket : b.used \in Nat /\ b.start \in Nat \cup {NoWindow}
    BY DEF Bucket, Time
  <2>4. QED
    BY <2>1, <2>2, <2>3, LimitsAssumption, ClockAssumption DEF RoutesIInv, WindowsBegan
<1>2. p \in Nat /\ Cardinality(Thread) \in Nat /\ p =< Cardinality(Thread)
  BY StartingCount
<1>3. Bound(s, c, p, clock)
  BY DEF RoutesIInv, StartsWereCreations, BucketExpired
<1>4. NoWindow \notin Nat
  BY NoWindowAssumption
<1> SUFFICES Bound(bucket'[t]["start"], bucket'[t]["create"], Cardinality(Starting(t)'), clock')
  OBVIOUS
<1>5. ASSUME bucket' = bucket, Starting(t)' = Starting(t), clock' = clock
      PROVE  Bound(bucket'[t]["start"], bucket'[t]["create"], Cardinality(Starting(t)'), clock')
  BY <1>3, <1>5
<1>6. CASE ApiTick
  <2>1. bucket' = bucket /\ Starting(t)' = Starting(t) /\ clock' = clock + 1
    BY <1>6 DEF ApiTick, Passes, Starting
  <2> HIDE DEF s, c, p
  <2>2. Bound(s, c, p, clock + 1)
    BY <1>1, <1>3
  <2>3. QED
    BY <2>1, <2>2 DEF s, c, p
<1>7. CASE UNCHANGED apiVars \/ \E key \in Key : Invalidate(key)
  BY <1>5, <1>7 DEF apiVars, Invalidate, Starting
<1>8. ASSUME NEW w \in Thread, Arrive(w) \/ Validate(w) \/ Handle(w)
      PROVE  Bound(bucket'[t]["start"], bucket'[t]["create"], Cardinality(Starting(t)'), clock')
  <2>1. Starting(t)' = Starting(t)
    BY <1>8, StartingSteps DEF RoutesIInv
  <2>2. QED
    BY <1>5, <1>8, <2>1 DEF Arrive, Validate, Handle
<1>9. ASSUME NEW w \in Thread, LimitCreate(w)
      PROVE  Bound(bucket'[t]["start"], bucket'[t]["create"], Cardinality(Starting(t)'), clock')
  <2>0. request[w].tenant \in Tenant /\ clock' = clock
        /\ bucket' = ChargedBuckets(request[w].tenant, "create")
    BY <1>9, Zenon DEF LimitCreate, RoutesIInv, ApiTypeOK, Request
  <2>1. CASE t # request[w].tenant
    <3>1. Starting(t)' = Starting(t)
      BY <1>9, <2>1, StartingSteps DEF RoutesIInv
    <3>2. bucket'[t]["start"] = s /\ bucket'[t]["create"] = c
      BY <1>1, <2>0, <2>1, ChargedBucket DEF RoutesIInv
    <3>3. QED
      BY <1>3, <2>0, <3>1, <3>2
  <2>2. CASE t = request[w].tenant
    <3> DEFINE d == bucket'[t]["create"]
               q == Cardinality(Starting(t)')
    <3>1. /\ bucket'[t]["start"] = s
          /\ c \in Bucket /\ clock \in Time
          /\ d = Counted(c, CreateLimit)
      BY <1>1, <2>0, <2>2, ChargedBucket DEF RoutesIInv
    <3>2. /\ BucketExpired(c) => d.start = clock /\ d.used = IF CreateLimit > 0 THEN 1 ELSE 0
          /\ ~BucketExpired(c) /\ c.used < CreateLimit => d.start = c.start /\ d.used = c.used + 1
          /\ ~BucketExpired(c) /\ c.used = CreateLimit => d = c
      BY <1>1, <3>1, CountedBucket
    <3>3. \/ q = p
          \/ q = p + 1 /\ CurrentBucket(c).used < CreateLimit
      BY <1>1, <1>9, <2>2, StartingSteps DEF RoutesIInv, Admits
    <3>4. IF BucketExpired(c) THEN CurrentBucket(c).used = 0 ELSE CurrentBucket(c) = c
      BY DEF CurrentBucket
    <3>5. BucketExpired(c) <=> c.start = NoWindow \/ c.start + Window < clock
      BY DEF BucketExpired
    <3> HIDE DEF s, c, p, d, q
    <3>6. Bound(s, d, q, clock)
      <4> SUFFICES ASSUME ~(s.start = NoWindow \/ s.start + Window < clock)
                   PROVE  s.used + q =< Cardinality(Thread) + d.used
                            + IF d.start = NoWindow \/ d.start < s.start THEN 0 ELSE CreateLimit
        OBVIOUS
      <4>1. /\ s.start \in Nat /\ s.start =< clock /\ clock =< s.start + Window
            /\ s.used + p =< Cardinality(Thread) + c.used
                            + IF c.start = NoWindow \/ c.start < s.start THEN 0 ELSE CreateLimit
        BY <1>1, <1>3
      <4>2. CASE BucketExpired(c)
        <5>1. s.used + p =< Cardinality(Thread) + c.used
          BY <1>1, <1>2, <4>1, <4>2, <3>5
        <5>2. q =< p + d.used /\ d.used \in Nat /\ d.start = clock /\ q \in Nat
          BY <1>1, <1>2, <3>2, <3>3, <3>4, <4>2
        <5>3. d.start # NoWindow /\ ~(d.start < s.start)
          BY <1>1, <1>4, <4>1, <5>2
        <5>4. QED
          BY <1>1, <1>2, <5>1, <5>2, <5>3
      <4>3. CASE ~BucketExpired(c) /\ c.used < CreateLimit
        <5>1. d.start = c.start /\ d.used = c.used + 1 /\ q =< p + 1 /\ q \in Nat
          BY <1>2, <3>2, <3>3, <4>3
        <5>2. QED
          BY <1>1, <1>2, <4>1, <5>1
      <4>4. CASE ~BucketExpired(c) /\ c.used = CreateLimit
        <5>1. d = c /\ q = p
          BY <1>1, <3>2, <3>3, <3>4, <4>4
        <5>2. QED
          BY <4>1, <5>1
      <4>5. c.used < CreateLimit \/ c.used = CreateLimit
        BY <1>1
      <4>6. QED
        BY <4>2, <4>3, <4>4, <4>5
    <3>7. QED
      BY <2>0, <3>1, <3>6 DEF d, q
  <2>3. QED
    BY <2>1, <2>2
<1>10. ASSUME NEW w \in Thread, LimitStart(w)
      PROVE  Bound(bucket'[t]["start"], bucket'[t]["create"], Cardinality(Starting(t)'), clock')
  <2>0. request[w].tenant \in Tenant /\ clock' = clock
        /\ bucket' = ChargedBuckets(request[w].tenant, "start")
    BY <1>10, Zenon DEF LimitStart, RoutesIInv, ApiTypeOK, Request
  <2>1. CASE t # request[w].tenant
    <3>1. Starting(t)' = Starting(t)
      BY <1>10, <2>1, StartingSteps DEF RoutesIInv
    <3>2. bucket'[t]["start"] = s /\ bucket'[t]["create"] = c
      BY <1>1, <2>0, <2>1, ChargedBucket DEF RoutesIInv
    <3>3. QED
      BY <1>3, <2>0, <3>1, <3>2
  <2>2. CASE t = request[w].tenant
    <3> DEFINE r == bucket'[t]["start"]
               q == Cardinality(Starting(t)')
    <3>1. /\ bucket'[t]["create"] = c
          /\ s \in Bucket /\ clock \in Time /\ s.used =< StartLimit
          /\ r = Counted(s, StartLimit)
      BY <1>1, <2>0, <2>2, ChargedBucket DEF RoutesIInv
    <3>2. /\ BucketExpired(s) => r.start = clock /\ r.used = IF StartLimit > 0 THEN 1 ELSE 0
          /\ ~BucketExpired(s) /\ s.used < StartLimit => r.start = s.start /\ r.used = s.used + 1
          /\ ~BucketExpired(s) /\ s.used = StartLimit => r = s
      BY <1>1, <3>1, CountedBucket
    <3>3. q = p - 1
      BY <1>10, <2>2, StartingSteps DEF RoutesIInv
    <3>4. BucketExpired(s) <=> s.start = NoWindow \/ s.start + Window < clock
      BY DEF BucketExpired
    <3> HIDE DEF s, c, p, r, q
    <3>5. Bound(r, c, q, clock)
      <4>0. q \in Int
        BY <1>2, <3>3
      <4>1. CASE BucketExpired(s)
        <5>1. r.used \in Nat /\ r.used + q =< p
          BY <1>1, <1>2, <3>2, <3>3, <4>1
        <5>2. QED
          BY <1>1, <1>2, <4>0, <5>1
      <4>2. CASE ~BucketExpired(s) /\ s.used < StartLimit
        <5>1. r.start = s.start /\ r.used = s.used + 1
          BY <3>2, <4>2
        <5>2. QED
          BY <1>1, <1>2, <1>3, <3>3, <5>1
      <4>3. CASE ~BucketExpired(s) /\ s.used = StartLimit
        <5>1. r = s
          BY <3>2, <4>3
        <5>2. QED
          BY <1>1, <1>2, <1>3, <3>3, <5>1
      <4>4. QED
        BY <1>1, <3>1, <4>1, <4>2, <4>3
    <3>6. QED
      BY <2>0, <3>1, <3>5 DEF r, q
  <2>3. QED
    BY <2>1, <2>2
<1>11. QED
  BY <1>6, <1>7, <1>8, <1>9, <1>10 DEF ApiNext, ApiStep

(* The inductive invariant always holds.                                    *)
THEOREM RoutesInvariant == ApiSpec => []RoutesIInv
<1>1. ApiInit => RoutesIInv
  BY RoutesInit
<1>2. RoutesIInv /\ [ApiNext]_apiVars => RoutesIInv'
  BY RoutesTypeStep, StartsStep DEF RoutesIInv
<1>3. QED
  BY <1>1, <1>2, PTL DEF ApiSpec

(* The buckets, the requests and the answers keep their types.              *)
THEOREM RoutesTypeCorrect == ApiSpec => []ApiTypeOK
BY RoutesInvariant, PTL DEF RoutesIInv

(* A start that passed the rule for creations is never refused by its own.  *)
THEOREM StartsAreNeverRefused == ApiSpec => []StartBucketNeverBinds
<1>1. RoutesIInv => StartBucketNeverBinds
  <2> SUFFICES ASSUME RoutesIInv, StartLimit >= 2 * CreateLimit + Cardinality(Thread),
                      NEW w \in Thread, stage[w] = "start"
               PROVE  Admits(request[w].tenant, "start")
    BY DEF StartBucketNeverBinds
  <2> DEFINE t == request[w].tenant
             s == bucket[t]["start"]
             c == bucket[t]["create"]
             p == Cardinality(Starting(t))
  <2>1. t \in Tenant /\ "start" \in Rule /\ "create" \in Rule
    BY DEF RoutesIInv, ApiTypeOK, Request, Rule
  <2>2. /\ s.used \in Nat /\ c.used \in Nat /\ c.used =< CreateLimit
        /\ CreateLimit \in Nat /\ StartLimit \in Nat /\ RuleLimit["start"] = StartLimit
    <3>1. s \in Bucket /\ c \in Bucket /\ c.used =< RuleLimit["create"]
      BY <2>1 DEF RoutesIInv, ApiTypeOK
    <3>2. \A b \in Bucket : b.used \in Nat
      BY DEF Bucket
    <3>3. RuleLimit["create"] = CreateLimit /\ RuleLimit["start"] = StartLimit
      BY <2>1 DEF RuleLimit
    <3>4. QED
      BY <3>1, <3>2, <3>3, LimitsAssumption
  <2>3. /\ p \in Nat /\ Cardinality(Thread) \in Nat /\ p =< Cardinality(Thread)
        /\ p > 0
    <3>1. w \in Starting(t) /\ IsFiniteSet(Starting(t))
      BY StartingCount DEF Starting
    <3>2. p # 0
      BY <3>1, FS_EmptySet
    <3>3. QED
      BY <3>2, StartingCount
  <2>4. ~BucketExpired(s) =>
           s.used + p =< Cardinality(Thread) + c.used
              + IF c.start = NoWindow \/ c.start < s.start THEN 0 ELSE CreateLimit
    BY <2>1 DEF RoutesIInv, StartsWereCreations
  <2>5. Admits(t, "start") <=>
           (IF BucketExpired(s) THEN 0 < StartLimit ELSE s.used < StartLimit)
    BY <2>2 DEF Admits, CurrentBucket
  <2> HIDE DEF t, s, c, p
  <2>6. QED
    BY <2>2, <2>3, <2>4, <2>5 DEF t
<1>2. QED
  BY <1>1, RoutesInvariant, PTL

-----------------------------------------------------------------------------
(***************************************************************************)
(* The pipeline of ApprovalGate and its records of approvals.              *)
(***************************************************************************)

(* A window that was opened began with a clock that has not gone back.      *)
GateIInv ==
  /\ GateTypeOK
  /\ \A k \in Agent \X Capability : entry[k].reset # 0 => entry[k].reset >= Window

(* It holds when the pipeline starts.                                       *)
LEMMA GateStart == GateInit => GateIInv
BY EnforceAssumption, ClockAssumption DEF GateInit, GateIInv, GateTypeOK, Time, Entry

(* The entry a check leaves is an entry, and as old as its window.          *)
LEMMA ChargedType ==
  ASSUME GateIInv, NEW k \in Agent \X Capability
  PROVE  ChargedEntry(k) \in Entry /\ ChargedEntry(k).reset >= Window
<1>1. /\ clock \in 0 .. MaxTime
      /\ entry[k] \in [tokens : 0 .. EnforceLimit, reset : 0 .. MaxTime + Window]
  BY DEF GateIInv, GateTypeOK, Time, Entry
<1>2. entry[k].reset # 0 => entry[k].reset >= Window
  BY DEF GateIInv
<1>3. CurrentEntry(k) \in [tokens : 0 .. EnforceLimit, reset : 0 .. MaxTime + Window]
      /\ CurrentEntry(k).reset >= Window
  BY <1>1, <1>2, EnforceAssumption, ClockAssumption DEF CurrentEntry
<1>4. QED
  BY <1>3, EnforceAssumption, ClockAssumption DEF ChargedEntry, Entry

(* What becomes of the records, by any step.                                *)
LEMMA RecordSteps ==
  ASSUME GateTypeOK, [GateNext]_gateVars
  PROVE  \/ repository' = repository
         \/ \E id \in Id, org \in Owner, expires \in Time \cup {Never} :
              /\ repository[id] = NoRecord
              /\ repository' = [repository EXCEPT ![id] =
                   [status |-> "PENDING", organization |-> org, expires |-> expires]]
         \/ \E id \in Id, status \in Status :
              /\ repository[id] # NoRecord /\ repository[id].status = "PENDING"
              /\ repository' = [repository EXCEPT ![id].status = status]
<1>1. ASSUME NEW id \in Id, NEW org, NEW status \in Status
      PROVE  \/ Transition(id, status, org) = repository
             \/ /\ repository[id] # NoRecord /\ repository[id].status = "PENDING"
                /\ Transition(id, status, org) = [repository EXCEPT ![id].status = status]
  BY DEF Transition, VisibleTo
<1>2. ASSUME NEW agent \in Agent, NEW capability \in Capability, NEW org
      PROVE  Noticed(GateId(agent, capability), org) = repository
  BY DEF Noticed, Transition
<1>3. ASSUME NEW id \in Id, NEW org \in Owner,
             NEW expires \in Time \cup {Never},
             Create(id, org, expires)
      PROVE  /\ repository[id] = NoRecord
             /\ repository' = [repository EXCEPT ![id] =
                   [status |-> "PENDING", organization |-> org, expires |-> expires]]
  BY <1>3 DEF Create
<1>4. ASSUME NEW id \in Id, NEW org \in Owner, NEW status \in Status,
             Decide(id, status, org)
      PROVE  repository' = Transition(id, status, org)
  BY <1>4 DEF Decide
<1>5. ASSUME NEW agent \in Agent, NEW capability \in Capability, NEW org, NEW trusted,
             Pipeline(agent, capability, org, trusted)
      PROVE  repository' = repository
  BY <1>2, <1>5, Zenon DEF Pipeline
<1>6. CASE UNCHANGED repository
  BY <1>6
<1>7. QED
  BY <1>1, <1>3, <1>4, <1>5, <1>6 DEF GateNext, gateVars, GateTick, Passes, RecordApproval,
                                      Execute

(* What becomes of the entries: one of them is charged, or none.            *)
LEMMA EntrySteps ==
  ASSUME [GateNext]_gateVars
  PROVE  \/ entry' = entry
         \/ \E k \in Agent \X Capability : entry' = [entry EXCEPT ![k] = ChargedEntry(k)]
<1>1. ASSUME NEW agent \in Agent, NEW capability \in Capability, NEW org, NEW trusted,
             Pipeline(agent, capability, org, trusted)
      PROVE  \/ entry' = entry
             \/ \E k \in Agent \X Capability : entry' = [entry EXCEPT ![k] = ChargedEntry(k)]
  <2>1. <<agent, capability>> \in Agent \X Capability
    OBVIOUS
  <2>2. \/ entry' = entry
        \/ entry' = [entry EXCEPT ![<<agent, capability>>] = ChargedEntry(<<agent, capability>>)]
    BY <1>1, Zenon DEF Pipeline, Enforce
  <2>3. QED
    BY <2>1, <2>2
<1>2. QED
  BY <1>1 DEF GateNext, gateVars, GateTick, Passes, Create, Decide, RecordApproval,
              Execute

(* Every step keeps it.                                                     *)
LEMMA GateStep == GateIInv /\ [GateNext]_gateVars => GateIInv'
<1> SUFFICES ASSUME GateIInv, [GateNext]_gateVars PROVE GateIInv'
  OBVIOUS
<1> USE DEF GateIInv
<1>1. repository' \in [Id -> Record \cup {NoRecord}]
  <2>0. repository \in [Id -> Record \cup {NoRecord}]
    BY DEF GateTypeOK
  <2>1. ASSUME NEW id \in Id, NEW org \in Owner,
               NEW expires \in Time \cup {Never},
               repository' = [repository EXCEPT ![id] =
                   [status |-> "PENDING", organization |-> org, expires |-> expires]]
        PROVE  repository' \in [Id -> Record \cup {NoRecord}]
    BY <2>0, <2>1 DEF Record, Status
  <2>2. ASSUME NEW id \in Id, NEW status \in Status, repository[id] # NoRecord,
               repository' = [repository EXCEPT ![id].status = status]
        PROVE  repository' \in [Id -> Record \cup {NoRecord}]
    <3>1. repository[id] \in Record
      BY <2>0, <2>2
    <3>2. [repository[id] EXCEPT !.status = status] \in Record
      BY <3>1 DEF Record
    <3>3. QED
      BY <2>0, <2>2, <3>2
  <2>3. QED
    BY <2>0, <2>1, <2>2, RecordSteps
<1>2. /\ entry' \in [Agent \X Capability -> Entry]
      /\ \A k \in Agent \X Capability : entry'[k].reset # 0 => entry'[k].reset >= Window
  <2>1. ASSUME NEW k \in Agent \X Capability, entry' = [entry EXCEPT ![k] = ChargedEntry(k)]
        PROVE  /\ entry' \in [Agent \X Capability -> Entry]
               /\ \A c \in Agent \X Capability : entry'[c].reset # 0 => entry'[c].reset >= Window
    <3>1. ChargedEntry(k) \in Entry /\ ChargedEntry(k).reset >= Window
      BY ChargedType
    <3>2. entry \in [Agent \X Capability -> Entry]
      BY DEF GateTypeOK
    <3>3. QED
      BY <2>1, <3>1, <3>2
  <2>2. CASE entry' = entry
    BY <2>2 DEF GateTypeOK
  <2>3. QED
    BY <2>1, <2>2, EntrySteps
<1>3. clock' \in Time /\ approvals' \subseteq Id
  <2>1. clock \in Time /\ approvals \subseteq Id
    BY DEF GateTypeOK
  <2>2. CASE GateTick
    BY <2>1, <2>2, EnforceAssumption, ClockAssumption DEF GateTick, Passes, Time
  <2>3. CASE \E id \in Id, approved \in BOOLEAN : RecordApproval(id, approved)
    BY <2>1, <2>3 DEF RecordApproval
  <2>4. CASE UNCHANGED <<clock, approvals>>
    BY <2>1, <2>4
  <2>5. QED
    BY <2>2, <2>3, <2>4 DEF GateNext, gateVars, Create, Decide, Pipeline,
                            Execute
<1>4. answer' \in Call \cup {NoAnswer}
  <2>1. ASSUME NEW by \in {"pipeline", "tool"}, NEW agent \in Agent,
               NEW capability \in Capability,
               NEW org \in Owner, NEW passed, Answer(by, agent, capability, org, passed)
        PROVE  answer' \in Call
    BY <2>1 DEF Answer, Call
  <2>2. NoOrganization \in Owner
    BY DEF Owner
  <2>3. ASSUME NEW agent \in Agent, NEW capability \in Capability, NEW trusted \in BOOLEAN,
               \/ \E org \in Owner : Pipeline(agent, capability, org, trusted)
               \/ \E fits \in BOOLEAN : Execute(agent, capability, trusted, fits)
        PROVE  answer' \in Call
    <3>1. CASE \E org \in Owner : Pipeline(agent, capability, org, trusted)
      BY <2>1, <3>1, Zenon DEF Pipeline
    <3>2. CASE \E fits \in BOOLEAN : Execute(agent, capability, trusted, fits)
      BY <2>1, <2>2, <3>2, Zenon DEF Execute
    <3>3. QED
      BY <2>3, <3>1, <3>2
  <2>4. CASE UNCHANGED answer
    BY <2>4 DEF GateTypeOK
  <2>5. QED
    BY <2>3, <2>4 DEF GateNext, gateVars, GateTick, Passes, Create, Decide,
                      RecordApproval
<1>5. QED
  BY <1>1, <1>2, <1>3, <1>4 DEF GateTypeOK

(* The types of ApprovalGate, and the age of the windows, always hold.      *)
THEOREM GateInvariant == GateSpec => []GateIInv
<1>1. GateIInv /\ [GateNext]_gateVars => GateIInv'
  BY GateStep
<1>2. QED
  BY GateStart, <1>1, PTL DEF GateSpec

(* The records, the entries and the answers keep their types.               *)
THEOREM GateTypeCorrect == GateSpec => []GateTypeOK
BY GateInvariant, PTL DEF GateIInv

(* A record that has been decided, or has expired, is never written again.  *)
THEOREM DecisionsFinal == GateSpec => DecisionsAreFinal
<1>1. GateIInv /\ [GateNext]_gateVars =>
        [\A id \in Id : repository[id] # NoRecord /\ repository[id].status # "PENDING"
                            => repository'[id] = repository[id]]_gateVars
  BY RecordSteps DEF GateIInv, GateTypeOK
<1>2. QED
  BY <1>1, GateInvariant, PTL DEF GateSpec, DecisionsAreFinal

(* The pipeline lets a risky agent through by an approval that stands only. *)
THEOREM AllowNeedsApproval == GateSpec => AllowNeedsStandingApproval
<1> DEFINE Stands(a) ==
      LET r == repository[[kind |-> "gate", agent |-> a.agent, capability |-> a.capability]] IN
      /\ r # NoRecord
      /\ r.status = "APPROVED" /\ clock =< r.expires
      /\ r.organization = a.organization \/ NoOrganization \in {r.organization, a.organization}
<1>1. ASSUME NEW agent, NEW capability, NEW org, NEW trusted,
             Pipeline(agent, capability, org, trusted), answer'.decision = "ALLOW"
      PROVE  answer'.agent \notin Risky \/ Stands(answer')
  <2>1. /\ answer'.agent = agent /\ answer'.capability = capability /\ answer'.organization = org
        /\ agent \in Risky => IsApproved(GateId(agent, capability), org)
    <3> DEFINE passes(within) == within /\ Authorize(agent, capability, trusted)
    <3>1. PICK within \in BOOLEAN :
            Answer("pipeline", agent, capability, org,
                   passes(within) /\ (passes(within) /\ agent \in Risky
                                         => IsApproved(GateId(agent, capability), org)))
      BY <1>1, Zenon DEF Pipeline
    <3> HIDE DEF passes
    <3>2. passes(within) /\ (passes(within) /\ agent \in Risky
                                => IsApproved(GateId(agent, capability), org))
      BY <1>1, <3>1 DEF Answer
    <3>3. QED
      BY <3>1, <3>2 DEF Answer
  <2>2. QED
    BY <2>1 DEF IsApproved, VisibleTo, GateId
<1>2. [GateNext]_gateVars =>
        [answer' # answer /\ answer'.decision = "ALLOW" /\ answer'.by = "pipeline"
           => answer'.agent \notin Risky \/ Stands(answer')]_gateVars
  BY <1>1 DEF GateNext, GateTick, Passes, Create, Decide, RecordApproval,
              Execute, Answer
<1>3. QED
  BY <1>2, PTL DEF GateSpec, AllowNeedsStandingApproval

(* The in-memory limiter counts in windows of at most EnforceLimit          *)
(* requests, when a window has a length (enforce()'s is 60 seconds).        *)
THEOREM MemoryImplementsRateWindow ==
  ASSUME Window # 0
  PROVE  GateSpec => MemoryIsRateWindow
<1>1. ASSUME GateIInv, NEW k \in Agent \X Capability,
             entry' = [entry EXCEPT ![k] = ChargedEntry(k)]
      PROVE  EntryWindow(k)!Next \/ UNCHANGED entry[k]
  <2>1. /\ clock \in Time /\ clock \in Nat /\ entry'[k] = ChargedEntry(k)
        /\ entry[k] \in [tokens : 0 .. EnforceLimit, reset : 0 .. MaxTime + Window]
        /\ entry[k].reset \in Nat /\ entry[k].tokens \in Nat
        /\ entry[k].reset = 0 \/ entry[k].reset >= Window
    BY <1>1, EnforceAssumption, ClockAssumption DEF GateIInv, GateTypeOK, Time, Entry
  <2>2. CASE entry[k].reset =< clock
    <3>1. /\ entry'[k].reset = clock + Window /\ clock + Window # 0
          /\ entry'[k].tokens = IF EnforceLimit > 0 THEN EnforceLimit - 1 ELSE 0
      BY <2>1, <2>2, EnforceAssumption, ClockAssumption DEF ChargedEntry, CurrentEntry
    <3>2. EntryWindow(k)!CheckNew(clock)
      BY <2>1, <2>2, <3>1, EnforceAssumption, ClockAssumption
         DEF EntryWindow!CheckNew, EntryWindow!Expired
    <3>3. QED
      BY <2>1, <3>2 DEF EntryWindow!Next
  <2>3. CASE entry[k].reset > clock /\ entry[k].tokens > 0
    <3>1. /\ entry'[k].reset = entry[k].reset /\ entry[k].reset # 0
          /\ entry'[k].tokens = entry[k].tokens - 1
      BY <2>1, <2>3 DEF ChargedEntry, CurrentEntry
    <3>2. entry[k].reset - Window \in Nat
      BY <2>1, <3>1, EnforceAssumption, ClockAssumption
    <3>3. EntryWindow(k)!CheckCurrent
      BY <2>1, <2>3, <3>1, <3>2, EnforceAssumption, ClockAssumption, NoWindowAssumption
         DEF EntryWindow!CheckCurrent
    <3>4. QED
      BY <3>3 DEF EntryWindow!Next
  <2>4. CASE entry[k].reset > clock /\ entry[k].tokens = 0
    BY <2>1, <2>4 DEF ChargedEntry, CurrentEntry
  <2>5. QED
    BY <2>1, <2>2, <2>3, <2>4
<1>2. ASSUME GateIInv, [GateNext]_gateVars
      PROVE  [\A k \in Agent \X Capability : EntryWindow(k)!Next \/ UNCHANGED entry[k]]_entry
  <2>1. CASE entry' = entry
    BY <2>1
  <2>2. ASSUME NEW k \in Agent \X Capability, entry' = [entry EXCEPT ![k] = ChargedEntry(k)]
        PROVE  \A c \in Agent \X Capability : EntryWindow(c)!Next \/ UNCHANGED entry[c]
    <3>1. \A c \in Agent \X Capability : c # k => UNCHANGED entry[c]
      BY <1>2, <2>2 DEF GateIInv, GateTypeOK
    <3>2. QED
      BY <1>1, <1>2, <2>2, <3>1
  <2>3. QED
    BY <1>2, <2>1, <2>2, EntrySteps
<1>3. QED
  BY <1>2, GateInvariant, PTL DEF GateSpec, MemoryIsRateWindow
=============================================================================
