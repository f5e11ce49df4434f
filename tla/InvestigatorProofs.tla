------------------------- MODULE InvestigatorProofs -------------------------
(***************************************************************************)
(* Theorems about Investigator, for any set of workers, any orchestrator   *)
(* results and any bound on the number of calls.                           *)
(***************************************************************************)
EXTENDS Investigator, TLAPS

(* What a call builds is well formed.                                       *)
LEMMA BuiltTypes ==
  ASSUME NEW r \in Nat, NEW res \in [findings : Nat, allowed : Nat],
         NEW claim \in BOOLEAN, NEW stored
  PROVE  /\ Items(r, res) \subseteq EvidenceId
         /\ Findings(r, res, claim, stored) \subseteq Finding
<1>1. Items(r, res) \subseteq EvidenceId
  BY DEF Items, EvidenceId
<1>2. ASSUME NEW i \in 1 .. res.findings
      PROVE  Cites(r, i, res.allowed) \subseteq EvidenceId
  BY DEF Cites, EvidenceId
<1>3. \A cites : Evaluate(cites, stored) \in Reality
  BY DEF Evaluate, Reality
<1>4. AgentFindings(r, res, stored) \subseteq Finding
  <2>1. ASSUME NEW i \in 1 .. res.findings
        PROVE  [run |-> r, n |-> i, cites |-> Cites(r, i, res.allowed),
                reality |-> Evaluate(Cites(r, i, res.allowed), stored)] \in Finding
    <3>1. Evaluate(Cites(r, i, res.allowed), stored) \in Reality
      BY <1>3
    <3>2. i \in Nat
      OBVIOUS
    <3>3. QED
      BY <3>1, <3>2, <1>2 DEF Finding
  <2>2. QED
    BY <2>1 DEF AgentFindings
<1>5. ModelFinding(r, res) \in Finding
  <2>1. res.findings + 1 \in Nat
    OBVIOUS
  <2>2. "AI_INFERENCE" \in Reality
    BY DEF Reality
  <2>3. QED
    BY <2>1, <2>2, <1>1 DEF ModelFinding, Finding
<1>6. FallbackFinding(r, stored) \in Finding
  <2>1. Evaluate({}, stored) \in Reality
    BY <1>3
  <2>2. QED
    BY <2>1 DEF FallbackFinding, Finding
<1>7. QED
  BY <1>1, <1>4, <1>5, <1>6 DEF Findings

(* Goto moves one worker's program counter.                                 *)
LEMMA GotoType ==
  ASSUME TypeOK, NEW w \in Worker, NEW from, NEW to \in Active \cup Stopped,
         Goto(w, from, to)
  PROVE  pc' \in [Worker -> Active \cup Stopped]
  BY DEF Goto, TypeOK

(* Save writes a record and a row of the right type.                        *)
LEMMA SaveType ==
  ASSUME TypeOK, NEW w \in Worker, NEW s \in VALID_STATUSES, Save(w, s)
  PROVE  /\ rec' \in [Worker -> [status : VALID_STATUSES, error : BOOLEAN]]
         /\ row' \in [status : VALID_STATUSES \cup {"NONE"}, error : BOOLEAN]
<1>1. rec[w] \in [status : VALID_STATUSES, error : BOOLEAN]
  BY DEF TypeOK
<1>2. (row.error \/ rec[w].error) \in BOOLEAN
  OBVIOUS
<1>3. QED
  BY <1>1, <1>2 DEF Save, TypeOK

(* Every step preserves the types.                                          *)
LEMMA TypeStep == TypeOK /\ [Next]_vars => TypeOK'
<1> SUFFICES ASSUME TypeOK, [Next]_vars PROVE TypeOK'
  OBVIOUS
<1> USE DEF db, local
<1>0. \A p \in {"get", "create", "requeue", "start", "health", "orchestrate",
                "generate", "fail", "store", "verified", "calculated", "returned",
                "raised"} : p \in Active \cup Stopped
  BY DEF Active, Stopped, Early, Storing
<1>0a. {"QUEUED", "RUNNING", "VERIFYING", "CALCULATING_RISK", "COMPLETED", "FAILED"}
         \subseteq VALID_STATUSES
  BY DEF VALID_STATUSES
<1>1. ASSUME NEW w \in Worker, Call(w) PROVE TypeOK'
  BY <1>1, <1>0 DEF Call, TypeOK
<1>2. ASSUME NEW w \in Worker, GetMissing(w) PROVE TypeOK'
  BY <1>2, <1>0, <1>0a, GotoType DEF GetMissing, NoRecord, TypeOK
<1>3. ASSUME NEW w \in Worker, GetExisting(w) PROVE TypeOK'
  <2>1. pc' \in [Worker -> Active \cup Stopped]
    BY <1>3, <1>0, GotoType DEF GetExisting
  <2>2. [status |-> row.status, error |-> FALSE] \in [status : VALID_STATUSES, error : BOOLEAN]
    BY <1>3 DEF GetExisting, TypeOK
  <2>3. QED
    BY <1>3, <2>1, <2>2 DEF GetExisting, TypeOK
<1>4. ASSUME NEW w \in Worker, Create(w) PROVE TypeOK'
  BY <1>4, <1>0, <1>0a, GotoType DEF Create, TypeOK
<1>5. ASSUME NEW w \in Worker, CreateCollides(w) PROVE TypeOK'
  BY <1>5, <1>0, GotoType DEF CreateCollides, TypeOK
<1>6. ASSUME NEW w \in Worker, Requeue(w) PROVE TypeOK'
  BY <1>6, <1>0, <1>0a, GotoType, SaveType DEF Requeue, TypeOK
<1>7. ASSUME NEW w \in Worker, StartRefused(w) PROVE TypeOK'
  BY <1>7, <1>0, GotoType DEF StartRefused, TypeOK
<1>8. ASSUME NEW w \in Worker, Start(w) PROVE TypeOK'
  BY <1>8, <1>0, <1>0a, GotoType, SaveType DEF Start, TypeOK
<1>9. ASSUME NEW w \in Worker, Healthy(w) PROVE TypeOK'
  BY <1>9, <1>0, GotoType DEF Healthy, TypeOK
<1>10. ASSUME NEW w \in Worker, Fault(w) PROVE TypeOK'
  BY <1>10, <1>0 DEF Fault, TypeOK
<1>11. ASSUME NEW w \in Worker, SaveFailure(w) PROVE TypeOK'
  BY <1>11, <1>0, <1>0a, GotoType, SaveType DEF SaveFailure, TypeOK
<1>12. ASSUME NEW w \in Worker, Orchestrate(w) PROVE TypeOK'
  BY <1>12, <1>0, GotoType, ResultsAssumption DEF Orchestrate, TypeOK
<1>13. ASSUME NEW w \in Worker, Build(w) PROVE TypeOK'
  <2>1. run[w] \in Nat /\ orch[w] \in [findings : Nat, allowed : Nat]
    BY DEF TypeOK
  <2>2. PICK claim \in BOOLEAN :
           draft' = [draft EXCEPT ![w] = Findings(run[w], orch[w], claim, evidence)]
    BY <1>13 DEF Build
  <2>3. /\ Items(run[w], orch[w]) \subseteq EvidenceId
        /\ Findings(run[w], orch[w], claim, evidence) \subseteq Finding
    BY <2>1, BuiltTypes
  <2>4. draft' \in [Worker -> SUBSET Finding]
    BY <2>2, <2>3 DEF TypeOK
  <2>5. items' \in [Worker -> SUBSET EvidenceId]
    BY <1>13, <2>3 DEF Build, TypeOK
  <2>6. QED
    BY <1>13, <1>0, <2>4, <2>5, GotoType DEF Build, TypeOK
<1>14. ASSUME NEW w \in Worker, AddEvidence(w) PROVE TypeOK'
  <2>1. PICK e \in items[w] : /\ evidence' = evidence \cup {e}
                              /\ items' = [items EXCEPT ![w] = @ \ {e}]
    BY <1>14 DEF AddEvidence
  <2>2. items[w] \subseteq EvidenceId
    BY DEF TypeOK
  <2>3. QED
    BY <1>14, <2>1, <2>2 DEF AddEvidence, TypeOK
<1>15. ASSUME NEW w \in Worker, AddFinding(w) PROVE TypeOK'
  <2>1. PICK f \in draft[w] : /\ findings' = findings \cup {f}
                              /\ draft' = [draft EXCEPT ![w] = @ \ {f}]
    BY <1>15 DEF AddFinding
  <2>2. draft[w] \subseteq Finding
    BY DEF TypeOK
  <2>3. QED
    BY <1>15, <2>1, <2>2 DEF AddFinding, TypeOK
<1>16. ASSUME NEW w \in Worker, Verify(w) PROVE TypeOK'
  BY <1>16, <1>0, <1>0a, GotoType, SaveType DEF Verify, TypeOK
<1>17. ASSUME NEW w \in Worker, CalculateRisk(w) PROVE TypeOK'
  BY <1>17, <1>0, <1>0a, GotoType, SaveType DEF CalculateRisk, TypeOK
<1>18. ASSUME NEW w \in Worker, Complete(w) PROVE TypeOK'
  BY <1>18, <1>0, <1>0a, GotoType, SaveType DEF Complete, TypeOK
<1>19. ASSUME NEW w \in Worker, Abort(w) PROVE TypeOK'
  BY <1>19, <1>0 DEF Abort, TypeOK
<1>20. CASE UNCHANGED vars
  BY <1>20 DEF vars, TypeOK
<1>21. QED
  BY <1>1, <1>2, <1>3, <1>4, <1>5, <1>6, <1>7, <1>8, <1>9, <1>10, <1>11, <1>12,
     <1>13, <1>14, <1>15, <1>16, <1>17, <1>18, <1>19, <1>20 DEF Next, Step

(* Every variable always has its type.                                      *)
THEOREM TypeCorrect == Spec => []TypeOK
<1>1. Init => TypeOK
  BY MaxRunsAssumption DEF Init, TypeOK, NoRecord, VALID_STATUSES, Active, Stopped, Early, Storing
<1>2. QED
  BY <1>1, TypeStep, PTL DEF Spec

-----------------------------------------------------------------------------
(* The inductive invariant behind the safety properties.  Ids are fresh: no *)
(* two calls share a run number, and before a call stores anything nothing  *)
(* in the evidence table bears its number.  So what Evaluate looks up is    *)
(* never there.  What is pending cites only what is stored or pending.      *)
RunsDistinct ==
  /\ \A w \in Worker : run[w] =< runs
  /\ \A w \in Worker : pc[w] \in Active => run[w] # 0
  /\ \A w, v \in Worker : w # v /\ run[w] = run[v] => run[w] = 0

EvidenceFresh ==
  /\ \A e \in evidence : e.run =< runs
  /\ \A w \in Worker : pc[w] \in Early => \A e \in evidence : e.run # run[w]

Pending ==
  \A w \in Worker :
    /\ pc[w] # "store" => items[w] = {} /\ draft[w] = {}
    /\ \A e \in items[w] : e.run = run[w]
    /\ \A f \in draft[w] : f.cites \subseteq evidence \cup items[w] /\ f.reality = "AI_INFERENCE"

Found ==
  \A w \in Worker : /\ pc[w] = "store" => draft[w] # {} \/ findings # {}
                    /\ pc[w] \in {"verified", "calculated"} => findings # {}

IInv == /\ TypeOK
        /\ RunsDistinct
        /\ EvidenceFresh
        /\ Pending
        /\ Found
        /\ CitedEvidenceIsStored
        /\ NoFindingIsEverSupported
        /\ CompletedHasFindings

(* What Build drafts, when no stored evidence bears the call's number: at   *)
(* least one finding, each citing only the call's items, none supported.    *)
LEMMA BuiltFindings ==
  ASSUME NEW r \in Nat, NEW res \in [findings : Nat, allowed : Nat],
         NEW claim \in BOOLEAN, NEW stored, \A e \in stored : e.run # r
  PROVE  /\ \A e \in Items(r, res) : e.run = r
         /\ Findings(r, res, claim, stored) # {}
         /\ \A f \in Findings(r, res, claim, stored) :
               f.cites \subseteq Items(r, res) /\ f.reality = "AI_INFERENCE"
<1>1. \A e \in Items(r, res) : e.run = r
  BY DEF Items
<1>2. ASSUME NEW i \in 1 .. res.findings
      PROVE  /\ Cites(r, i, res.allowed) \subseteq Items(r, res)
             /\ Evaluate(Cites(r, i, res.allowed), stored) = "AI_INFERENCE"
  <2>1. \A e \in Cites(r, i, res.allowed) : e.run = r
    BY DEF Cites
  <2>2. Cites(r, i, res.allowed) \subseteq Items(r, res)
    BY DEF Cites, Items
  <2>3. QED
    BY <2>1, <2>2 DEF Evaluate
<1>3. \A f \in AgentFindings(r, res, stored) :
        f.cites \subseteq Items(r, res) /\ f.reality = "AI_INFERENCE"
  BY <1>2 DEF AgentFindings
<1>4. /\ ModelFinding(r, res).cites = Items(r, res)
      /\ ModelFinding(r, res).reality = "AI_INFERENCE"
  BY DEF ModelFinding
<1>5. /\ FallbackFinding(r, stored).cites = {}
      /\ FallbackFinding(r, stored).reality = "AI_INFERENCE"
  BY DEF FallbackFinding, Evaluate
<1>6. Findings(r, res, claim, stored) # {}
  <2>1. CASE res.findings = 0 /\ ~claim
    BY <2>1 DEF Findings
  <2>2. CASE claim
    BY <2>2 DEF Findings
  <2>3. CASE res.findings # 0 /\ ~claim
    <3>1. 1 \in 1 .. res.findings
      BY <2>3
    <3>2. AgentFindings(r, res, stored) # {}
      BY <3>1 DEF AgentFindings
    <3>3. QED
      BY <2>3, <3>2 DEF Findings
  <2>4. QED
    BY <2>1, <2>2, <2>3
<1>7. QED
  BY <1>1, <1>3, <1>4, <1>5, <1>6 DEF Findings

(* A step that touches neither tables nor what is pending keeps IInv, if it *)
(* neither enters nor leaves the phase in which a call stores.              *)
LEMMA QuietStep ==
  ASSUME IInv, TypeOK', NEW w \in Worker, NEW to \in Early \cup Stopped,
         pc[w] \in Early, pc' = [pc EXCEPT ![w] = to],
         UNCHANGED <<evidence, findings, run, runs, items, draft>>,
         row'.status \notin {"VERIFYING", "CALCULATING_RISK", "COMPLETED"} \/ row' = row
  PROVE  IInv'
<1> USE DEF IInv
<1>0. pc \in [Worker -> Active \cup Stopped] /\ pc[w] \in Active /\ to # "store"
      /\ to \notin {"verified", "calculated"} /\ pc[w] # "store"
  BY DEF TypeOK, Active, Early, Stopped, Storing
<1>1. RunsDistinct'
  BY <1>0 DEF RunsDistinct, TypeOK, Active, Stopped, Early, Storing
<1>2. EvidenceFresh'
  BY <1>0 DEF EvidenceFresh, TypeOK, Early, Stopped
<1>3. Pending'
  BY <1>0 DEF Pending, TypeOK
<1>4. Found'
  BY <1>0 DEF Found, TypeOK
<1>5. CitedEvidenceIsStored' /\ NoFindingIsEverSupported' /\ CompletedHasFindings'
  BY DEF CitedEvidenceIsStored, NoFindingIsEverSupported, CompletedHasFindings
<1>6. QED
  BY <1>1, <1>2, <1>3, <1>4, <1>5

(* Every step preserves the inductive invariant.                            *)
LEMMA InvStep == IInv /\ [Next]_vars => IInv'
<1> SUFFICES ASSUME IInv, [Next]_vars PROVE IInv'
  OBVIOUS
<1>0. TypeOK'
  BY TypeStep DEF IInv
<1> USE DEF db, local
<1>q. ASSUME NEW w \in Worker,
             \/ GetMissing(w) \/ GetExisting(w) \/ Create(w) \/ CreateCollides(w)
             \/ Requeue(w) \/ StartRefused(w) \/ Start(w) \/ Healthy(w) \/ Fault(w)
             \/ SaveFailure(w) \/ Orchestrate(w)
      PROVE  IInv'
  <2>1. \E to \in Early \cup Stopped : pc[w] \in Early /\ pc' = [pc EXCEPT ![w] = to]
    <3>1. \A p \in {"get", "create", "requeue", "start", "health", "orchestrate",
                    "generate", "fail"} : p \in Early
      BY DEF Early
    <3>2. \A p \in {"returned", "raised"} : p \in Stopped
      BY DEF Stopped
    <3>3. QED
      BY <1>q, <3>1, <3>2 DEF GetMissing, GetExisting, Create, CreateCollides, Requeue,
         StartRefused, Start, Healthy, Fault, SaveFailure, Orchestrate, Goto
  <2>2. UNCHANGED <<evidence, findings, run, runs, items, draft>>
    BY <1>q DEF GetMissing, GetExisting, Create, CreateCollides, Requeue,
       StartRefused, Start, Healthy, Fault, SaveFailure, Orchestrate
  <2>3. row'.status \notin {"VERIFYING", "CALCULATING_RISK", "COMPLETED"} \/ row' = row
    BY <1>q DEF GetMissing, GetExisting, Create, CreateCollides, Requeue,
       StartRefused, Start, Healthy, Fault, SaveFailure, Orchestrate, Save
  <2>4. QED
    BY <1>0, <2>1, <2>2, <2>3, QuietStep
<1>1. ASSUME NEW w \in Worker, Call(w) PROVE IInv'
  <2> USE <1>1 DEF Call, IInv
  <2>0. /\ runs \in Nat /\ run \in [Worker -> Nat] /\ evidence \subseteq EvidenceId
        /\ pc \in [Worker -> Active \cup Stopped]
    BY DEF TypeOK
  <2>1. RunsDistinct'
    <3>1. \A v \in Worker : v # w => run'[v] = run[v] /\ run[v] =< runs /\ pc'[v] = pc[v]
      BY <2>0 DEF RunsDistinct
    <3>2. run'[w] = runs + 1 /\ runs' = runs + 1
      BY <2>0
    <3>3. QED
      BY <2>0, <3>1, <3>2 DEF RunsDistinct
  <2>2. EvidenceFresh'
    <3>1. \A e \in evidence : e.run \in Nat /\ e.run =< runs
      BY <2>0 DEF EvidenceFresh, EvidenceId
    <3>2. QED
      BY <2>0, <3>1 DEF EvidenceFresh
  <2>3. Pending' /\ Found'
    BY <2>0 DEF Pending, Found, Stopped
  <2>4. CitedEvidenceIsStored' /\ NoFindingIsEverSupported' /\ CompletedHasFindings'
    BY DEF CitedEvidenceIsStored, NoFindingIsEverSupported, CompletedHasFindings
  <2>5. QED
    BY <1>0, <2>1, <2>2, <2>3, <2>4
<1>2. ASSUME NEW w \in Worker, Build(w) PROVE IInv'
  <2> USE <1>2 DEF Build, Goto, IInv
  <2>0. /\ run[w] \in Nat /\ orch[w] \in [findings : Nat, allowed : Nat]
        /\ pc \in [Worker -> Active \cup Stopped] /\ items \in [Worker -> SUBSET EvidenceId]
        /\ draft \in [Worker -> SUBSET Finding]
    BY DEF TypeOK
  <2>1. PICK claim \in BOOLEAN :
           draft' = [draft EXCEPT ![w] = Findings(run[w], orch[w], claim, evidence)]
    OBVIOUS
  <2>2. \A e \in evidence : e.run # run[w]
    BY DEF EvidenceFresh, Early
  <2>3. /\ \A e \in items'[w] : e.run = run[w]
        /\ draft'[w] # {}
        /\ \A f \in draft'[w] : f.cites \subseteq items'[w] /\ f.reality = "AI_INFERENCE"
    BY <2>0, <2>1, <2>2, BuiltFindings
  <2>4. RunsDistinct' /\ EvidenceFresh'
    BY <2>0 DEF RunsDistinct, EvidenceFresh, Early, Active
  <2>5. Pending' /\ Found'
    BY <2>0, <2>1, <2>3 DEF Pending, Found
  <2>6. CitedEvidenceIsStored' /\ NoFindingIsEverSupported' /\ CompletedHasFindings'
    BY DEF CitedEvidenceIsStored, NoFindingIsEverSupported, CompletedHasFindings
  <2>7. QED
    BY <1>0, <2>4, <2>5, <2>6
<1>3. ASSUME NEW w \in Worker, AddEvidence(w) PROVE IInv'
  <2> USE <1>3 DEF AddEvidence, IInv
  <2>0. items \in [Worker -> SUBSET EvidenceId] /\ runs \in Nat /\ run \in [Worker -> Nat]
    BY DEF TypeOK
  <2>1. PICK e \in items[w] : /\ evidence' = evidence \cup {e}
                              /\ items' = [items EXCEPT ![w] = @ \ {e}]
    OBVIOUS
  <2>2. e.run = run[w] /\ run[w] # 0
    BY <2>1 DEF Pending, RunsDistinct, Active, Storing
  <2>3. EvidenceFresh'
    <3>1. \A v \in Worker : pc[v] \in Early => v # w
      BY DEF Early
    <3>2. \A v \in Worker : pc[v] \in Early => run[v] # run[w]
      BY <3>1, <2>2 DEF RunsDistinct
    <3>3. QED
      BY <2>1, <2>2, <3>2 DEF EvidenceFresh, RunsDistinct
  <2>4. Pending'
    BY <2>0, <2>1 DEF Pending
  <2>5. RunsDistinct' /\ Found'
    BY DEF RunsDistinct, Found
  <2>6. CitedEvidenceIsStored' /\ NoFindingIsEverSupported' /\ CompletedHasFindings'
    BY <2>1 DEF CitedEvidenceIsStored, NoFindingIsEverSupported, CompletedHasFindings
  <2>7. QED
    BY <1>0, <2>3, <2>4, <2>5, <2>6
<1>4. ASSUME NEW w \in Worker, AddFinding(w) PROVE IInv'
  <2> USE <1>4 DEF AddFinding, IInv
  <2>0. draft \in [Worker -> SUBSET Finding]
    BY DEF TypeOK
  <2>1. PICK f \in draft[w] : /\ findings' = findings \cup {f}
                              /\ draft' = [draft EXCEPT ![w] = @ \ {f}]
    OBVIOUS
  <2>2. f.cites \subseteq evidence /\ f.reality = "AI_INFERENCE"
    BY <2>1 DEF Pending
  <2>3. CitedEvidenceIsStored' /\ NoFindingIsEverSupported' /\ CompletedHasFindings'
    BY <2>1, <2>2 DEF CitedEvidenceIsStored, NoFindingIsEverSupported, CompletedHasFindings
  <2>4. Pending'
    BY <2>0, <2>1 DEF Pending
  <2>5. Found'
    BY <2>0, <2>1 DEF Found
  <2>6. RunsDistinct' /\ EvidenceFresh'
    BY DEF RunsDistinct, EvidenceFresh
  <2>7. QED
    BY <1>0, <2>3, <2>4, <2>5, <2>6
<1>5. ASSUME NEW w \in Worker, Verify(w) \/ CalculateRisk(w) \/ Complete(w) PROVE IInv'
  <2> USE DEF IInv
  <2>0. pc \in [Worker -> Active \cup Stopped]
    BY DEF TypeOK
  <2>1. /\ findings # {} /\ items[w] = {} /\ draft[w] = {} /\ pc[w] \in Storing
        /\ UNCHANGED <<evidence, findings, run, runs, items, draft>>
        /\ \E to \in {"verified", "calculated", "returned"} : pc' = [pc EXCEPT ![w] = to]
    BY <1>5 DEF Verify, CalculateRisk, Complete, Goto, Found, Pending, Storing
  <2>2. pc[w] \in Active /\ pc[w] \notin Early
    BY <2>1 DEF Active, Early, Storing
  <2>3. RunsDistinct' /\ EvidenceFresh'
    BY <2>0, <2>1, <2>2 DEF RunsDistinct, EvidenceFresh, Early
  <2>4. Pending' /\ Found'
    BY <2>0, <2>1 DEF Pending, Found
  <2>5. CitedEvidenceIsStored' /\ NoFindingIsEverSupported' /\ CompletedHasFindings'
    BY <2>1 DEF CitedEvidenceIsStored, NoFindingIsEverSupported, CompletedHasFindings
  <2>6. QED
    BY <1>0, <2>3, <2>4, <2>5
<1>6. ASSUME NEW w \in Worker, Abort(w) PROVE IInv'
  <2> USE <1>6 DEF Abort, IInv
  <2>0. /\ pc \in [Worker -> Active \cup Stopped] /\ items \in [Worker -> SUBSET EvidenceId]
        /\ draft \in [Worker -> SUBSET Finding]
    BY DEF TypeOK
  <2>1. RunsDistinct' /\ EvidenceFresh'
    BY <2>0 DEF RunsDistinct, EvidenceFresh, Active, Early, Storing
  <2>2. Pending' /\ Found'
    BY <2>0 DEF Pending, Found
  <2>3. CitedEvidenceIsStored' /\ NoFindingIsEverSupported' /\ CompletedHasFindings'
    BY DEF CitedEvidenceIsStored, NoFindingIsEverSupported, CompletedHasFindings
  <2>4. QED
    BY <1>0, <2>1, <2>2, <2>3
<1>7. CASE UNCHANGED vars
  BY <1>7, <1>0 DEF vars, IInv, RunsDistinct, EvidenceFresh, Pending, Found,
     CitedEvidenceIsStored, NoFindingIsEverSupported, CompletedHasFindings
<1>8. QED
  BY <1>q, <1>1, <1>2, <1>3, <1>4, <1>5, <1>6, <1>7 DEF Next, Step

(* The inductive invariant always holds.                                    *)
THEOREM Invariant == Spec => []IInv
<1>1. Init => TypeOK
  BY MaxRunsAssumption DEF Init, TypeOK, NoRecord, VALID_STATUSES, Active, Stopped, Early, Storing
<1>2. Init => IInv
  BY <1>1 DEF Init, IInv, RunsDistinct, EvidenceFresh, Pending, Found, Active, Early, Storing,
     CitedEvidenceIsStored, NoFindingIsEverSupported, CompletedHasFindings
<1>3. QED
  BY <1>2, InvStep, PTL DEF Spec

(* Whatever call is interrupted, a stored finding cites stored evidence.    *)
THEOREM CitedEvidence == Spec => []CitedEvidenceIsStored
<1>1. IInv => CitedEvidenceIsStored
  BY DEF IInv
<1>2. QED
  BY <1>1, Invariant, PTL

(* No stored finding is ever EVIDENCE_SUPPORTED.                            *)
THEOREM NeverSupported == Spec => []NoFindingIsEverSupported
<1>1. IInv => NoFindingIsEverSupported
  BY DEF IInv
<1>2. QED
  BY <1>1, Invariant, PTL

(* An investigation past its storing phase has a finding.                   *)
THEOREM PastStoringHasFindings == Spec => []CompletedHasFindings
<1>1. IInv => CompletedHasFindings
  BY DEF IInv
<1>2. QED
  BY <1>1, Invariant, PTL

-----------------------------------------------------------------------------
(* A row that does not exist has no error.                                  *)
NoRowNoError == row.status = "NONE" => ~row.error

(* Save is the only way to write an existing row, and it keeps its error.   *)
LEMMA RowStep ==
  ASSUME NEW w \in Worker, Call(w) \/ Step(w) \/ Abort(w)
  PROVE  \/ row' = row
         \/ row.status = "NONE" /\ row' = [status |-> "QUEUED", error |-> FALSE]
         \/ /\ row'.status # "NONE"
            /\ row'.error = (row.error \/ rec[w].error)
<1>1. \A s : s # "NONE" /\ Save(w, s) =>
         row'.status # "NONE" /\ row'.error = (row.error \/ rec[w].error)
  BY DEF Save
<1>2. CASE Requeue(w) \/ Start(w) \/ SaveFailure(w) \/ Verify(w) \/ CalculateRisk(w) \/ Complete(w)
  BY <1>1, <1>2 DEF Requeue, Start, SaveFailure, Verify, CalculateRisk, Complete
<1>3. CASE ~(Requeue(w) \/ Start(w) \/ SaveFailure(w) \/ Verify(w) \/ CalculateRisk(w) \/ Complete(w))
  BY <1>3 DEF db, Step, Call, Abort, GetMissing, GetExisting, Create, CreateCollides, StartRefused,
     Healthy, Fault, Orchestrate, Build, AddEvidence, AddFinding
<1>4. QED
  BY <1>2, <1>3

(* The error column of an investigation, once set, is never cleared.        *)
THEOREM ErrorIsSticky == Spec => ErrorSurvives
<1>1. Init => NoRowNoError
  BY DEF Init, NoRowNoError
<1>2. NoRowNoError /\ [Next]_vars => NoRowNoError' /\ [row.error => row'.error]_vars
  <2> SUFFICES ASSUME NoRowNoError, [Next]_vars
               PROVE  NoRowNoError' /\ (row.error => row'.error)
    OBVIOUS
  <2>1. CASE Next
    <3>1. PICK w \in Worker : Call(w) \/ Step(w) \/ Abort(w)
      BY <2>1 DEF Next
    <3>2. CASE row' = row
      BY <3>2 DEF NoRowNoError
    <3>3. CASE row.status = "NONE" /\ row' = [status |-> "QUEUED", error |-> FALSE]
      BY <3>3 DEF NoRowNoError
    <3>4. CASE row'.status # "NONE" /\ row'.error = (row.error \/ rec[w].error)
      BY <3>4, Zenon DEF NoRowNoError
    <3>5. QED
      BY <3>1, <3>2, <3>3, <3>4, RowStep
  <2>2. CASE UNCHANGED vars
    BY <2>2 DEF vars, db, NoRowNoError
  <2>3. QED
    BY <2>1, <2>2
<1>3. QED
  BY <1>1, <1>2, PTL DEF Spec, ErrorSurvives

-----------------------------------------------------------------------------
(* As long as one worker makes all the calls, its record follows the row.   *)
InStep ==
  \A w \in Worker :
    /\ pc[w] = "create" => row.status = "NONE" /\ rec[w].status = "QUEUED"
    /\ pc[w] = "requeue" => row.status \in {"FAILED", "CANCELLED"}
    /\ pc[w] \in {"requeue", "start", "health", "orchestrate", "generate", "fail", "store",
                  "verified", "calculated"} => row.status = rec[w].status
    /\ pc[w] \in {"health", "orchestrate", "generate", "fail", "store"} => row.status = "RUNNING"
    /\ pc[w] = "verified" => row.status = "VERIFYING"
    /\ pc[w] = "calculated" => row.status = "CALCULATING_RISK"
    /\ pc[w] = "returned" => rec[w].status \in {"COMPLETED", "FAILED"} /\ row.status = rec[w].status

(* A worker that takes a step is not idle any more, and only it changes.    *)
LEMMA OthersStay ==
  ASSUME TypeOK, NEW w \in Worker, Call(w) \/ Step(w) \/ Abort(w)
  PROVE  pc'[w] # "idle" /\ \A v \in Worker \ {w} : pc'[v] = pc[v]
<1>0. pc \in [Worker -> Active \cup Stopped]
  BY DEF TypeOK
<1>1. \A from, to : Goto(w, from, to) =>
         pc'[w] = to /\ \A v \in Worker \ {w} : pc'[v] = pc[v]
  BY <1>0 DEF Goto
<1>2. CASE Call(w) \/ Fault(w) \/ Abort(w)
  BY <1>0, <1>2 DEF Call, Fault, Abort
<1>3. CASE AddEvidence(w) \/ AddFinding(w)
  BY <1>0, <1>3 DEF AddEvidence, AddFinding
<1>4. CASE GetMissing(w) \/ GetExisting(w) \/ Create(w) \/ CreateCollides(w) \/ Requeue(w)
           \/ StartRefused(w) \/ Start(w) \/ Healthy(w)
  BY <1>1, <1>4 DEF GetMissing, GetExisting, Create, CreateCollides, Requeue, StartRefused,
     Start, Healthy
<1>5. CASE SaveFailure(w) \/ Orchestrate(w) \/ Build(w) \/ Verify(w) \/ CalculateRisk(w)
           \/ Complete(w)
  BY <1>1, <1>5 DEF SaveFailure, Orchestrate, Build, Verify, CalculateRisk, Complete
<1>6. QED
  BY <1>2, <1>3, <1>4, <1>5 DEF Step

(* The only caller's step keeps its record in step with the row and changes *)
(* the stored status as mark() allows.                                      *)
LEMMA LifecycleStep ==
  ASSUME TypeOK, OneCaller => InStep, [Next]_vars
  PROVE  OneCaller' => InStep' /\ [Lifecycle!Next]_RowStatus
<1> USE DEF db, local, RowStatus
<1>0. /\ pc \in [Worker -> Active \cup Stopped] /\ row.status \in VALID_STATUSES \cup {"NONE"}
      /\ rec \in [Worker -> [status : VALID_STATUSES, error : BOOLEAN]]
  BY DEF TypeOK
<1>a. \A s \in VALID_STATUSES :
         MarkAllowed(RowStatus, s) /\ RowStatus' = s => [Lifecycle!Next]_RowStatus
  BY DEF Lifecycle!Next, Lifecycle!mark, MarkAllowed, Lifecycle!MarkAllowed, TRANSITIONS,
     Lifecycle!TRANSITIONS, VALID_STATUSES, Lifecycle!VALID_STATUSES
<1>1. ASSUME NEW w \in Worker, Call(w) \/ Step(w) \/ Abort(w), OneCaller'
      PROVE  InStep' /\ [Lifecycle!Next]_RowStatus
  <2>i. \A v \in Worker \ {w} : pc[v] = "idle" /\ pc'[v] = "idle"
    BY <1>1, OthersStay DEF OneCaller
  <2>j. InStep
    BY <2>i DEF OneCaller
  <2>k. InStep' <=>
          /\ pc'[w] = "create" => row'.status = "NONE" /\ rec'[w].status = "QUEUED"
          /\ pc'[w] = "requeue" => row'.status \in {"FAILED", "CANCELLED"}
          /\ pc'[w] \in {"requeue", "start", "health", "orchestrate", "generate", "fail", "store",
                         "verified", "calculated"} => row'.status = rec'[w].status
          /\ pc'[w] \in {"health", "orchestrate", "generate", "fail", "store"}
                => row'.status = "RUNNING"
          /\ pc'[w] = "verified" => row'.status = "VERIFYING"
          /\ pc'[w] = "calculated" => row'.status = "CALCULATING_RISK"
          /\ pc'[w] = "returned"
                => rec'[w].status \in {"COMPLETED", "FAILED"} /\ row'.status = rec'[w].status
    BY <2>i DEF InStep
  <2>1. CASE Create(w)
    BY <2>1, <2>j, <2>k, <1>0 DEF Create, Goto, InStep
  <2>2. CASE Requeue(w)
    BY <2>2, <2>j, <2>k, <1>0, <1>a
       DEF Requeue, Goto, InStep, Save, MarkAllowed, TRANSITIONS, VALID_STATUSES
  <2>3. CASE Start(w)
    BY <2>3, <2>j, <2>k, <1>0, <1>a DEF Start, Goto, InStep, Save, MarkAllowed, VALID_STATUSES
  <2>4. CASE SaveFailure(w)
    BY <2>4, <2>j, <2>k, <1>0, <1>a
       DEF SaveFailure, Goto, InStep, Save, MarkAllowed, TRANSITIONS, VALID_STATUSES
  <2>5. CASE Verify(w)
    BY <2>5, <2>j, <2>k, <1>0, <1>a
       DEF Verify, Goto, InStep, Save, MarkAllowed, TRANSITIONS, VALID_STATUSES
  <2>6. CASE CalculateRisk(w)
    BY <2>6, <2>j, <2>k, <1>0, <1>a
       DEF CalculateRisk, Goto, InStep, Save, MarkAllowed, TRANSITIONS, VALID_STATUSES
  <2>7. CASE Complete(w)
    BY <2>7, <2>j, <2>k, <1>0, <1>a
       DEF Complete, Goto, InStep, Save, MarkAllowed, TRANSITIONS, VALID_STATUSES
  <2>8. CASE GetMissing(w) \/ GetExisting(w)
    BY <2>8, <2>k, <1>0 DEF GetMissing, GetExisting, Goto, NoRecord
  <2>9. CASE CreateCollides(w) \/ StartRefused(w) \/ Healthy(w) \/ Orchestrate(w) \/ Build(w)
    BY <2>9, <2>j, <2>k, <1>0
       DEF CreateCollides, StartRefused, Healthy, Orchestrate, Build, Goto, InStep
  <2>10. CASE Fault(w) \/ Call(w) \/ Abort(w)
    BY <2>10, <2>j, <2>k, <1>0 DEF Fault, Call, Abort, InStep, Stopped, Active
  <2>11. CASE AddEvidence(w) \/ AddFinding(w)
    BY <2>11, <2>j, <2>k, <1>0 DEF AddEvidence, AddFinding, InStep
  <2>12. QED
    BY <1>1, <2>1, <2>2, <2>3, <2>4, <2>5, <2>6, <2>7, <2>8, <2>9, <2>10, <2>11 DEF Step
<1>2. CASE UNCHANGED vars
  BY <1>2 DEF vars, InStep, OneCaller
<1>3. QED
  BY <1>1, <1>2 DEF Next

(* The only caller's record is in step with the row.                        *)
LEMMA InStepHolds == Spec => [](TypeOK /\ (OneCaller => InStep))
<1>1. Init => (OneCaller => InStep)
  BY DEF Init, InStep
<1>2. TypeOK /\ (OneCaller => InStep) /\ [Next]_vars => (OneCaller => InStep)'
  <2>1. TypeOK /\ (OneCaller => InStep) /\ [Next]_vars => (OneCaller' => InStep')
    BY LifecycleStep
  <2>2. QED
    BY <2>1
<1>3. QED
  BY <1>1, <1>2, TypeCorrect, PTL DEF Spec

(* What is returned to the only caller is what the row says.                *)
THEOREM ReturnMatches == Spec => []ReturnMatchesRow
<1>1. (OneCaller => InStep) => ReturnMatchesRow
  BY DEF InStep, ReturnMatchesRow
<1>2. QED
  BY <1>1, InStepHolds, PTL

(* While one worker makes all the calls the status in the row moves as the  *)
(* table of records.py allows, for any number of workers and calls.         *)
THEOREM OneCallerFollowsLifecycle == Spec => FollowsLifecycle
<1>1. Init => Lifecycle!Init
  BY DEF Init, Lifecycle!Init, RowStatus
<1>2. TypeOK /\ (OneCaller => InStep) /\ [Next]_vars => [OneCaller' => Lifecycle!Next]_RowStatus
  <2>1. TypeOK /\ (OneCaller => InStep) /\ [Next]_vars
          => (OneCaller' => [Lifecycle!Next]_RowStatus)
    BY LifecycleStep
  <2>2. QED
    BY <2>1
<1>3. QED
  BY <1>1, <1>2, InStepHolds, PTL DEF Spec, FollowsLifecycle

(* Investigator with one worker implements StatusLifecycle.                 *)
THEOREM OneWorkerRefines ==
  ASSUME \A v, w \in Worker : v = w, Worker # {}
  PROVE  Spec => Lifecycle!Spec
<1>1. OneCaller'
  BY DEF OneCaller
<1>2. [OneCaller' => Lifecycle!Next]_RowStatus => [Lifecycle!Next]_RowStatus
  BY <1>1
<1>3. QED
  BY <1>2, OneCallerFollowsLifecycle, PTL DEF FollowsLifecycle, Lifecycle!Spec
(* With one worker COMPLETED is final, as records.py has it; two that       *)
(* overlap break it.                                                        *)
THEOREM OneWorkerCompletes ==
  ASSUME \A v, w \in Worker : v = w, Worker # {}
  PROVE  Spec => CompletedIsFinal
<1>1. [Lifecycle!Next]_RowStatus => (row.status = "COMPLETED" => row'.status = "COMPLETED")
  BY DEF Lifecycle!Next, Lifecycle!mark, Lifecycle!MarkAllowed, Lifecycle!TRANSITIONS,
         Lifecycle!VALID_STATUSES, RowStatus
<1>2. QED
  BY <1>1, OneWorkerRefines, PTL DEF Lifecycle!Spec, CompletedIsFinal

-----------------------------------------------------------------------------
(* An investigation in status s, whose row no call is about to write: every *)
(* call has stopped, is about to read the row, or has read it.              *)
Stuck(s) ==
  /\ row.status = s
  /\ \A w \in Worker : \/ pc[w] \in Stopped \cup {"get"}
                       \/ pc[w] = "start" /\ rec[w].status = s

(* Nobody gets it out of a status from which mark("RUNNING") is refused and *)
(* from which it is not requeued.                                           *)
LEMMA StuckStep ==
  ASSUME NEW s \in {"VERIFYING", "CALCULATING_RISK"}, TypeOK, Stuck(s), [Next]_vars
  PROVE  Stuck(s)'
<1> USE DEF db, local
<1>0. /\ pc \in [Worker -> Active \cup Stopped]
      /\ rec \in [Worker -> [status : VALID_STATUSES, error : BOOLEAN]]
      /\ ~MarkAllowed(s, "RUNNING") /\ s \notin {"NONE", "FAILED", "CANCELLED"}
      /\ {"start", "get"} \cap Stopped = {} /\ {"raised", "get", "start"} \subseteq Active \cup Stopped
      /\ {"create", "requeue", "health", "orchestrate", "generate", "fail", "store", "verified",
          "calculated"} \cap (Stopped \cup {"get", "start"}) = {}
  BY DEF TypeOK, MarkAllowed, TRANSITIONS, VALID_STATUSES, Stopped, Active, Early, Storing
<1>1. ASSUME NEW w \in Worker, Call(w) PROVE Stuck(s)'
  BY <1>0, <1>1 DEF Call, Stuck
<1>2. ASSUME NEW w \in Worker, GetExisting(w) PROVE Stuck(s)'
  <2>1. pc' = [pc EXCEPT ![w] = "start"] /\ rec' = [rec EXCEPT ![w] = [status |-> s, error |-> FALSE]]
        /\ row' = row
    BY <1>0, <1>2 DEF GetExisting, Goto, Stuck
  <2>2. QED
    BY <1>0, <2>1 DEF Stuck
<1>3. ASSUME NEW w \in Worker, StartRefused(w) \/ Abort(w) PROVE Stuck(s)'
  <2>1. pc' = [pc EXCEPT ![w] = "raised"] /\ UNCHANGED <<row, rec>> /\ "raised" \in Stopped
    BY <1>3 DEF StartRefused, Abort, Goto, Stopped
  <2>2. QED
    BY <1>0, <2>1 DEF Stuck
<1>4. ASSUME NEW w \in Worker, Start(w) PROVE FALSE
  BY <1>0, <1>4 DEF Start, Goto, Stuck
<1>5. ASSUME NEW w \in Worker,
             \/ GetMissing(w) \/ Create(w) \/ CreateCollides(w) \/ Requeue(w) \/ Healthy(w)
             \/ Fault(w) \/ SaveFailure(w) \/ Orchestrate(w) \/ Build(w) \/ AddEvidence(w)
             \/ AddFinding(w) \/ Verify(w) \/ CalculateRisk(w) \/ Complete(w)
      PROVE FALSE
  <2>1. row.status # "NONE" /\ pc[w] \in Stopped \cup {"get", "start"}
    BY <1>0 DEF Stuck
  <2>2. QED
    BY <1>0, <1>5, <2>1
       DEF GetMissing, Create, CreateCollides, Requeue, Healthy, Fault, SaveFailure, Orchestrate,
           Build, AddEvidence, AddFinding, Verify, CalculateRisk, Complete, Goto
<1>6. CASE UNCHANGED vars
  BY <1>6 DEF vars, Stuck
<1>7. QED
  BY <1>1, <1>2, <1>3, <1>4, <1>5, <1>6 DEF Next, Step

(* A call that is interrupted while the row says VERIFYING or               *)
(* CALCULATING_RISK leaves it there for good, whoever calls again.          *)
THEOREM InterruptedIsStuck == Spec => InterruptedStaysStuck
<1>1. ASSUME NEW s \in {"VERIFYING", "CALCULATING_RISK"}
      PROVE  Spec => [](Quiet /\ row.status = s => [](row.status = s))
  <2> DEFINE P == Stuck(s)
             Q == row.status = s
  <2>1. Quiet /\ Q => P
    BY DEF Quiet, Stuck
  <2>2. TypeOK /\ P /\ [Next]_vars => P'
    BY StuckStep
  <2>3. P => Q
    BY DEF Stuck
  <2> HIDE DEF P, Q
  <2>4. Spec => [](Quiet /\ Q => []Q)
    BY <2>1, <2>2, <2>3, TypeCorrect, PTL DEF Spec
  <2>5. QED
    BY <2>4 DEF Q
<1>2. QED
  BY <1>1 DEF InterruptedStaysStuck
=============================================================================
