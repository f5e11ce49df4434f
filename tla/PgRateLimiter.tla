---------------------------- MODULE PgRateLimiter ----------------------------
(***************************************************************************)
(* PostgreSQLRateLimiter.check of safenestt/security/rate_limit.py for one *)
(* (scope, key), called by several API workers at once.                    *)
(*                                                                         *)
(* One check is one READ COMMITTED transaction of three statements.  Each  *)
(* statement is an action.  It sees the committed row, or the version its  *)
(* own transaction wrote; it waits when the row it wants to write is       *)
(* locked by another transaction, and then tests its WHERE clause again.   *)
(* datetime.utcnow() is read once, before the first statement, so it may   *)
(* be long past when the statements run.                                   *)
(*                                                                         *)
(*   row      the committed rate_limits row                                *)
(*   holder   the worker whose transaction has locked the row, or Nobody   *)
(*   mine     the version of the row that transaction has written          *)
(*   now      per worker, the time it read                                 *)
(*   allowed  per worker, what its decrement returned                      *)
(*   seen     per worker, the window its decrement looked at               *)
(*   granted  history: committed admissions per window start               *)
(*   checks   history: calls of check, bounded by MaxChecks                *)
(***************************************************************************)
EXTENDS Clock

CONSTANTS Worker, Nobody,
          Limit,       \* limit
          MaxChecks    \* bound on the calls of check

ASSUME NobodyAssumption == Nobody \notin Worker
ASSUME NumbersAssumption == Limit \in Nat /\ MaxChecks \in Nat

VARIABLES row, holder, mine, pc, now, allowed, seen, granted, checks

table == <<row, holder, mine>>
vars  == <<clock, table, pc, now, allowed, seen, granted, checks>>

Row     == [exists : BOOLEAN, start : Time, tokens : 0 .. Limit]
Busy    == {"insert", "reset", "decrement", "commit"}
Stopped == {"idle", "allowed", "denied", "failed"}

NoRow == [exists |-> FALSE, start |-> 0, tokens |-> 0]
Fresh(w) == [exists |-> TRUE, start |-> now[w], tokens |-> Limit]

TypeOK ==
  /\ clock \in Time
  /\ row \in Row
  /\ holder \in Worker \cup {Nobody}
  /\ mine \in Row
  /\ pc \in [Worker -> Busy \cup Stopped]
  /\ now \in [Worker -> Time]
  /\ allowed \in [Worker -> BOOLEAN]
  /\ seen \in [Worker -> Time]
  /\ granted \in [Time -> Nat]
  /\ checks \in Nat

Init ==
  /\ clock = 0
  /\ row = NoRow
  /\ holder = Nobody
  /\ mine = NoRow
  /\ pc = [w \in Worker |-> "idle"]
  /\ now = [w \in Worker |-> 0]
  /\ allowed = [w \in Worker |-> FALSE]
  /\ seen = [w \in Worker |-> 0]
  /\ granted = [t \in Time |-> 0]
  /\ checks = 0

-----------------------------------------------------------------------------
(* What PostgreSQL does with the row *)

(* The version of the row that w's statements see.                          *)
Visible(w) == IF holder = w THEN mine ELSE row

(* w writes r over the row, waiting while another transaction has it.       *)
Write(w, r) ==
  /\ holder \in {w, Nobody}
  /\ holder' = w
  /\ mine' = r
  /\ UNCHANGED row

Release(w) ==
  /\ holder' = IF holder = w THEN Nobody ELSE holder
  /\ mine' = IF holder = w THEN NoRow ELSE mine

Goto(w, from, to) == pc[w] = from /\ pc' = [pc EXCEPT ![w] = to]

-----------------------------------------------------------------------------
(* The steps of check *)

Tick ==
  /\ Passes
  /\ UNCHANGED <<table, pc, now, allowed, seen, granted, checks>>

Begin(w) ==
  /\ pc[w] \in Stopped
  /\ checks < MaxChecks
  /\ checks' = checks + 1
  /\ pc' = [pc EXCEPT ![w] = "insert"]
  /\ now' = [now EXCEPT ![w] = clock]
  /\ UNCHANGED <<clock, table, allowed, seen, granted>>

(* INSERT ... ON CONFLICT DO NOTHING                                        *)
Insert(w) ==
  /\ Goto(w, "insert", "reset")
  /\ IF row.exists THEN UNCHANGED table ELSE Write(w, Fresh(w))
  /\ UNCHANGED <<clock, now, allowed, seen, granted, checks>>

(* A mutant: the window ends at reset_at, not after it.                     *)
ExpiredAt(w) == Visible(w).start + Window =< now[w]

(* window_start < now - window_seconds                                      *)
Expired(w) == Visible(w).start + Window < now[w]

(* UPDATE ... SET tokens = limit WHERE the window has expired               *)
Reset(w) ==
  /\ Goto(w, "reset", "decrement")
  /\ IF Expired(w) THEN Write(w, Fresh(w)) ELSE UNCHANGED table
  /\ UNCHANGED <<clock, now, allowed, seen, granted, checks>>

(* A mutant: tokens are read first and written back without a lock.         *)
DecrementUnlocked(w) ==
  LET r == Visible(w) IN
  /\ Goto(w, "decrement", "commit")
  /\ allowed' = [allowed EXCEPT ![w] = r.tokens > 0]
  /\ seen' = [seen EXCEPT ![w] = r.start]
  /\ IF r.tokens > 0
     THEN /\ holder' = w
          /\ mine' = [r EXCEPT !.tokens = @ - 1]
          /\ UNCHANGED row
     ELSE UNCHANGED table
  /\ UNCHANGED <<clock, now, granted, checks>>

(* UPDATE ... SET tokens = tokens - 1 WHERE tokens > 0 RETURNING tokens     *)
Decrement(w) ==
  LET r == Visible(w) IN
  /\ Goto(w, "decrement", "commit")
  /\ allowed' = [allowed EXCEPT ![w] = r.tokens > 0]
  /\ seen' = [seen EXCEPT ![w] = r.start]
  /\ IF r.tokens > 0
     THEN Write(w, [r EXCEPT !.tokens = @ - 1])
     ELSE UNCHANGED table
  /\ UNCHANGED <<clock, now, granted, checks>>

(* A mutant: the row lock outlives the commit.                              *)
CommitHolding(w) ==
  /\ Goto(w, "commit", IF allowed[w] THEN "allowed" ELSE "denied")
  /\ row' = Visible(w)
  /\ UNCHANGED <<holder, mine>>
  /\ granted' = IF allowed[w] THEN [granted EXCEPT ![seen[w]] = @ + 1] ELSE granted
  /\ UNCHANGED <<clock, now, allowed, seen, checks>>

(* commit; a denied check then only reads reset_at for its answer           *)
Commit(w) ==
  /\ Goto(w, "commit", IF allowed[w] THEN "allowed" ELSE "denied")
  /\ row' = Visible(w)
  /\ Release(w)
  /\ granted' = IF allowed[w] THEN [granted EXCEPT ![seen[w]] = @ + 1] ELSE granted
  /\ UNCHANGED <<clock, now, allowed, seen, checks>>

(* A mutant: the statements are not in one transaction.                     *)
AbortKeeping(w) ==
  /\ pc[w] \in Busy
  /\ pc' = [pc EXCEPT ![w] = "failed"]
  /\ row' = Visible(w)
  /\ Release(w)
  /\ UNCHANGED <<clock, now, allowed, seen, granted, checks>>

(* A statement fails, the connection is lost or the worker dies before the  *)
(* commit: the transaction is rolled back.                                  *)
Abort(w) ==
  /\ pc[w] \in Busy
  /\ pc' = [pc EXCEPT ![w] = "failed"]
  /\ Release(w)
  /\ UNCHANGED <<clock, row, now, allowed, seen, granted, checks>>

-----------------------------------------------------------------------------
Step(w) == Insert(w) \/ Reset(w) \/ Decrement(w) \/ Commit(w)

Next == Tick \/ \E w \in Worker : Begin(w) \/ Step(w) \/ Abort(w)

Spec == Init /\ [][Next]_vars

(* A check that has begun goes on when it is not waiting for the row.  No   *)
(* request need arrive, no transaction need fail.                           *)
FairSpec == Spec /\ \A w \in Worker : WF_vars(Step(w))

-----------------------------------------------------------------------------
(* Properties *)

(* However checks of several workers interleave, a window never admits more *)
(* than Limit requests, and what is left is what was not admitted: no       *)
(* admission is lost or counted twice, also when transactions fail.         *)
NoOverAdmission ==
  /\ \A t \in Time : granted[t] =< Limit
  /\ row.exists => granted[row.start] + row.tokens = Limit

(* A request is denied only in a window that has admitted Limit requests:   *)
(* a failed check costs no token, nor does a reset by another worker.       *)
DeniedOnlyWhenSpent ==
  \A w \in Worker : pc[w] = "denied" => granted[seen[w]] = Limit

(* The statements, interleaved, amount to atomic checks on windows that are *)
(* more than Window apart: a stale now never reopens or moves one back.     *)
Windows == INSTANCE RateWindow
             WITH start <- IF row.exists THEN row.start ELSE NoWindow,
                  used  <- IF row.exists THEN Limit - row.tokens ELSE 0
ImplementsRateWindow == Windows!Spec

(* Every check is answered or fails: the row's lock is always given back.   *)
EveryCheckEnds == \A w \in Worker : pc[w] \in Busy ~> pc[w] \in Stopped
=============================================================================
