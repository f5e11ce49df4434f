---------------------------- MODULE Investigator ----------------------------
(***************************************************************************)
(* run_investigation of safenestt/investigations/investigator.py, called   *)
(* for ONE investigation by several workers (threads of one API process or *)
(* processes), each holding a usable PersistentInvestigationStore.         *)
(*                                                                         *)
(* Every store method is a transaction of its own (session_scope), so one  *)
(* store call is one action and anything may happen between two of them.   *)
(* update_investigation writes the status of the caller's in-memory record *)
(* over whatever the row holds; only mark() checks a transition, and it    *)
(* checks it against that in-memory record.                                *)
(*                                                                         *)
(*   row       the investigations row: status ("NONE": no row) and whether *)
(*             its error column is set                                     *)
(*   evidence  ids of the committed evidence rows                          *)
(*   findings  the committed findings rows                                 *)
(*   rec       per worker, status and error of the record in memory        *)
(*   items     per worker, evidence_items not stored yet                   *)
(*   draft     per worker, findings not stored yet                         *)
(***************************************************************************)
EXTENDS Naturals, InvestigationStatus

CONSTANTS Worker,   \* callers of run_investigation
          Results,  \* outcomes of orchestrate(): how many findings, and how
                    \* many tool calls with status "ALLOW" over all its runs
          MaxRuns   \* bound on the number of calls

ASSUME ResultsAssumption ==
  /\ Results \subseteq [findings : Nat, allowed : Nat]
  /\ \A r \in Results : r.allowed > 0 => r.findings > 0
ASSUME MaxRunsAssumption == MaxRuns \in Nat

VARIABLES row, evidence, findings, pc, rec, run, runs, orch, items, draft

db    == <<row, evidence, findings>>
local == <<rec, run, runs, orch, items, draft>>
vars  == <<db, pc, local>>

(* Ids are uuid4, so never drawn twice: an id is the call that drew it and  *)
(* its place in that call.                                                  *)
EvidenceId == [run : Nat, finding : Nat, call : Nat]
Reality    == {"AI_INFERENCE", "EVIDENCE_SUPPORTED"}
Finding    == [run : Nat, n : Nat, cites : SUBSET EvidenceId, reality : Reality]

Storing  == {"store", "verified", "calculated"}
Early    == {"get", "create", "requeue", "start", "health", "orchestrate",
             "generate", "fail"}
Active   == Early \cup Storing
Stopped  == {"idle", "returned", "raised"}

NoRecord == [status |-> "QUEUED", error |-> FALSE]

TypeOK ==
  /\ row \in [status : VALID_STATUSES \cup {"NONE"}, error : BOOLEAN]
  /\ evidence \subseteq EvidenceId
  /\ findings \subseteq Finding
  /\ pc \in [Worker -> Active \cup Stopped]
  /\ rec \in [Worker -> [status : VALID_STATUSES, error : BOOLEAN]]
  /\ runs \in Nat
  /\ run \in [Worker -> Nat]
  /\ orch \in [Worker -> [findings : Nat, allowed : Nat]]
  /\ items \in [Worker -> SUBSET EvidenceId]
  /\ draft \in [Worker -> SUBSET Finding]

Init ==
  /\ row = [status |-> "NONE", error |-> FALSE]
  /\ evidence = {}
  /\ findings = {}
  /\ pc = [w \in Worker |-> "idle"]
  /\ rec = [w \in Worker |-> NoRecord]
  /\ runs = 0
  /\ run = [w \in Worker |-> 0]
  /\ orch = [w \in Worker |-> [findings |-> 0, allowed |-> 0]]
  /\ items = [w \in Worker |-> {}]
  /\ draft = [w \in Worker |-> {}]

Goto(w, from, to) == pc[w] = from /\ pc' = [pc EXCEPT ![w] = to]

-----------------------------------------------------------------------------
(* The reality check, and what a call builds from the orchestrator's result *)

(* RealityChecker.evaluate: supported when every cited id is in the table.  *)
Evaluate(cites, stored) ==
  IF cites # {} /\ cites \subseteq stored
  THEN "EVIDENCE_SUPPORTED" ELSE "AI_INFERENCE"

(* One fresh evidence item for each finding and each allowed tool call.     *)
Cites(r, i, allowed) == {[run |-> r, finding |-> i, call |-> j] : j \in 1 .. allowed}
Items(r, res) == {[run |-> r, finding |-> i, call |-> j] :
                     i \in 1 .. res.findings, j \in 1 .. res.allowed}

AgentFindings(r, res, stored) ==
  {[run |-> r, n |-> i, cites |-> Cites(r, i, res.allowed),
    reality |-> Evaluate(Cites(r, i, res.allowed), stored)] : i \in 1 .. res.findings}

ModelFinding(r, res) ==
  [run |-> r, n |-> res.findings + 1, cites |-> Items(r, res), reality |-> "AI_INFERENCE"]

FallbackFinding(r, stored) ==
  [run |-> r, n |-> 1, cites |-> {}, reality |-> Evaluate({}, stored)]

(* A mutant: the fallback finding is forgotten.                             *)
FindingsNoFallback(r, res, claim, stored) ==
  AgentFindings(r, res, stored) \cup (IF claim THEN {ModelFinding(r, res)} ELSE {})

Findings(r, res, claim, stored) ==
  IF res.findings = 0 /\ ~claim
  THEN {FallbackFinding(r, stored)}
  ELSE AgentFindings(r, res, stored) \cup (IF claim THEN {ModelFinding(r, res)} ELSE {})

-----------------------------------------------------------------------------
(* The store.  update_investigation copies the status of the record, and    *)
(* its error only when there is one: an error in the row is never cleared.  *)

(* A mutant: the error column follows the record, as the repository's does. *)
SaveClearing(w, s) ==
  /\ rec' = [rec EXCEPT ![w].status = s]
  /\ row' = [status |-> s, error |-> rec[w].error]

(* mark(s), then update_investigation.                                      *)
Save(w, s) ==
  /\ rec' = [rec EXCEPT ![w].status = s]
  /\ row' = [status |-> s, error |-> row.error \/ rec[w].error]

-----------------------------------------------------------------------------
(* run_investigation, one action per store call or outside call             *)

Call(w) ==
  /\ pc[w] \in Stopped
  /\ runs < MaxRuns
  /\ runs' = runs + 1
  /\ run' = [run EXCEPT ![w] = runs + 1]
  /\ pc' = [pc EXCEPT ![w] = "get"]
  /\ UNCHANGED <<db, rec, orch, items, draft>>

(* get_investigation found nothing: a QUEUED record is made, not stored yet *)
GetMissing(w) ==
  /\ row.status = "NONE"
  /\ Goto(w, "get", "create")
  /\ rec' = [rec EXCEPT ![w] = NoRecord]
  /\ UNCHANGED <<db, run, runs, orch, items, draft>>

(* get_investigation does not read the error column.                        *)
GetExisting(w) ==
  /\ row.status # "NONE"
  /\ Goto(w, "get", IF row.status \in {"FAILED", "CANCELLED"} THEN "requeue" ELSE "start")
  /\ rec' = [rec EXCEPT ![w] = [status |-> row.status, error |-> FALSE]]
  /\ UNCHANGED <<db, run, runs, orch, items, draft>>

Create(w) ==
  /\ row.status = "NONE"
  /\ Goto(w, "create", "start")
  /\ row' = [status |-> "QUEUED", error |-> FALSE]
  /\ UNCHANGED <<evidence, findings, local>>

(* investigation_id is unique: another worker created the row in between.   *)
CreateCollides(w) ==
  /\ row.status # "NONE"
  /\ Goto(w, "create", "raised")
  /\ UNCHANGED <<db, local>>

Requeue(w) ==
  /\ Goto(w, "requeue", "start")
  /\ Save(w, "QUEUED")
  /\ UNCHANGED <<evidence, findings, run, runs, orch, items, draft>>

(* mark("RUNNING") raises InvalidStatusError; nothing catches it.           *)
StartRefused(w) ==
  /\ ~MarkAllowed(rec[w].status, "RUNNING")
  /\ Goto(w, "start", "raised")
  /\ UNCHANGED <<db, local>>

Start(w) ==
  /\ MarkAllowed(rec[w].status, "RUNNING")
  /\ Goto(w, "start", "health")
  /\ Save(w, "RUNNING")
  /\ UNCHANGED <<evidence, findings, run, runs, orch, items, draft>>

Healthy(w) ==
  /\ Goto(w, "health", "orchestrate")
  /\ UNCHANGED <<db, local>>

(* The provider is not configured, orchestrate() raises, or the model       *)
(* answers with an error: an error is put on the record.                    *)
Fault(w) ==
  /\ pc[w] \in {"health", "orchestrate", "generate"}
  /\ pc' = [pc EXCEPT ![w] = "fail"]
  /\ rec' = [rec EXCEPT ![w].error = TRUE]
  /\ UNCHANGED <<db, run, runs, orch, items, draft>>

(* A mutant: the failure is returned but never written.                     *)
SaveFailureUnwritten(w) ==
  /\ Goto(w, "fail", "returned")
  /\ rec' = [rec EXCEPT ![w].status = "FAILED"]
  /\ UNCHANGED <<db, run, runs, orch, items, draft>>

SaveFailure(w) ==
  /\ Goto(w, "fail", "returned")
  /\ Save(w, "FAILED")
  /\ UNCHANGED <<evidence, findings, run, runs, orch, items, draft>>

Orchestrate(w) ==
  /\ Goto(w, "orchestrate", "generate")
  /\ \E r \in Results : orch' = [orch EXCEPT ![w] = r]
  /\ UNCHANGED <<db, rec, run, runs, items, draft>>

(* A mutant: evidence is stored before the reality check runs.              *)
BuildStoringFirst(w) ==
  /\ Goto(w, "generate", "store")
  /\ items' = [items EXCEPT ![w] = {}]
  /\ evidence' = evidence \cup Items(run[w], orch[w])
  /\ \E claim \in BOOLEAN :
        draft' = [draft EXCEPT ![w] = Findings(run[w], orch[w], claim, evidence')]
  /\ UNCHANGED <<row, findings, rec, run, runs, orch>>

(* generate() answered, with or without text.  Evidence items and findings  *)
(* are built in memory, and each finding is evaluated against the evidence  *)
(* table as it is before any of these items is stored in it.                *)
Build(w) ==
  /\ Goto(w, "generate", "store")
  /\ items' = [items EXCEPT ![w] = Items(run[w], orch[w])]
  /\ \E claim \in BOOLEAN :
        draft' = [draft EXCEPT ![w] = Findings(run[w], orch[w], claim, evidence)]
  /\ UNCHANGED <<db, rec, run, runs, orch>>

Before(e, x) == \/ e.finding < x.finding
                \/ e.finding = x.finding /\ e.call =< x.call

AddEvidence(w) ==
  /\ pc[w] = "store"
  /\ \E e \in items[w] :
        /\ \A x \in items[w] : Before(e, x)
        /\ evidence' = evidence \cup {e}
        /\ items' = [items EXCEPT ![w] = @ \ {e}]
  /\ UNCHANGED <<row, findings, pc, rec, run, runs, orch, draft>>

(* A mutant: findings are stored without waiting for their evidence.        *)
AddFindingEarly(w) ==
  /\ pc[w] = "store"
  /\ \E f \in draft[w] :
        /\ \A g \in draft[w] : f.n =< g.n
        /\ findings' = findings \cup {f}
        /\ draft' = [draft EXCEPT ![w] = @ \ {f}]
  /\ UNCHANGED <<row, evidence, pc, rec, run, runs, orch, items>>

AddFinding(w) ==
  /\ pc[w] = "store"
  /\ items[w] = {}
  /\ \E f \in draft[w] :
        /\ \A g \in draft[w] : f.n =< g.n
        /\ findings' = findings \cup {f}
        /\ draft' = [draft EXCEPT ![w] = @ \ {f}]
  /\ UNCHANGED <<row, evidence, pc, rec, run, runs, orch, items>>

Verify(w) ==
  /\ items[w] = {}
  /\ draft[w] = {}
  /\ Goto(w, "store", "verified")
  /\ Save(w, "VERIFYING")
  /\ UNCHANGED <<evidence, findings, run, runs, orch, items, draft>>

(* A mutant: a step of the table is skipped.                                *)
CalculateRiskSkipping(w) ==
  /\ Goto(w, "store", "calculated")
  /\ items[w] = {}
  /\ draft[w] = {}
  /\ Save(w, "CALCULATING_RISK")
  /\ UNCHANGED <<evidence, findings, run, runs, orch, items, draft>>

CalculateRisk(w) ==
  /\ Goto(w, "verified", "calculated")
  /\ Save(w, "CALCULATING_RISK")
  /\ UNCHANGED <<evidence, findings, run, runs, orch, items, draft>>

Complete(w) ==
  /\ Goto(w, "calculated", "returned")
  /\ Save(w, "COMPLETED")
  /\ UNCHANGED <<evidence, findings, run, runs, orch, items, draft>>

(* A store call fails (connection lost, or the API key was revoked or has   *)
(* expired, so that establish_tenant_context raises), generate() raises, or *)
(* the process dies: nothing catches it and what is only in memory is gone. *)
Abort(w) ==
  /\ pc[w] \in Active
  /\ pc' = [pc EXCEPT ![w] = "raised"]
  /\ items' = [items EXCEPT ![w] = {}]
  /\ draft' = [draft EXCEPT ![w] = {}]
  /\ UNCHANGED <<db, rec, run, runs, orch>>

-----------------------------------------------------------------------------
Step(w) ==
  \/ GetMissing(w) \/ GetExisting(w) \/ Create(w) \/ CreateCollides(w)
  \/ Requeue(w) \/ StartRefused(w) \/ Start(w) \/ Healthy(w) \/ Fault(w)
  \/ SaveFailure(w) \/ Orchestrate(w) \/ Build(w) \/ AddEvidence(w)
  \/ AddFinding(w) \/ Verify(w) \/ CalculateRisk(w) \/ Complete(w)

Next == \E w \in Worker : Call(w) \/ Step(w) \/ Abort(w)

Spec == Init /\ [][Next]_vars

-----------------------------------------------------------------------------
(* Properties *)

(* A stored finding never cites evidence that is not stored, whatever call  *)
(* is interrupted and wherever: evidence rows are committed first.          *)
CitedEvidenceIsStored == \A f \in findings : f.cites \subseteq evidence

(* The reality check runs before any cited id can be in the table, so no    *)
(* finding is ever stored as EVIDENCE_SUPPORTED, not even by a rerun that   *)
(* finds the evidence of an earlier one, and calculate_risk() never counts  *)
(* a supported finding.                                                     *)
NoFindingIsEverSupported == \A f \in findings : f.reality = "AI_INFERENCE"

(* An investigation shown as past its storing phase has a finding, the      *)
(* fallback one if the agents and the model gave none.                      *)
CompletedHasFindings ==
  row.status \in {"VERIFYING", "CALCULATING_RISK", "COMPLETED"} => findings # {}

(* No step clears the error column: an investigation that failed once and   *)
(* then completed still carries the error of the failed call, although      *)
(* run_investigation resets record.error before it reruns.                  *)
ErrorSurvives == [][row.error => row'.error]_vars

Quiet == \A w \in Worker : pc[w] \in Stopped

(* A call interrupted after VERIFYING was written leaves the investigation  *)
(* there for good: run_investigation can neither resume nor requeue it.     *)
InterruptedStaysStuck ==
  \A s \in {"VERIFYING", "CALCULATING_RISK"} :
    [](Quiet /\ row.status = s => [](row.status = s))

(* No more than one worker has called so far, however often.                *)
OneCaller == \E w \in Worker : \A x \in Worker \ {w} : pc[x] = "idle"

(* As long as one worker makes all the calls, the status returned to it is  *)
(* the one stored, and it is final or FAILED.                               *)
ReturnMatchesRow ==
  OneCaller => \A w \in Worker : pc[w] = "returned" =>
                  /\ rec[w].status \in {"COMPLETED", "FAILED"}
                  /\ row.status = rec[w].status

(* As long as one worker makes all the calls, the stored status follows the *)
(* table of records.py, through failures, retries and dead calls.           *)
RowStatus == IF row.status = "NONE" THEN "QUEUED" ELSE row.status
Lifecycle == INSTANCE StatusLifecycle WITH status <- RowStatus
FollowsLifecycle == Lifecycle!Init /\ [][OneCaller' => Lifecycle!Next]_RowStatus

(* records.py: COMPLETED has no successor.                                  *)
CompletedIsFinal == [][row.status = "COMPLETED" => row'.status = "COMPLETED"]_vars
=============================================================================
