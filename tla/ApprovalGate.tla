---------------------------- MODULE ApprovalGate ----------------------------
(***************************************************************************)
(* The security pipeline in front of a tool and the approvals it asks for: *)
(* ApprovalService and its repository (security/approval.py), the          *)
(* PermissionManager (security/permissions.py), SecurityPipeline           *)
(* (security/pipeline.py), ToolInterface (tools/interface.py) and the      *)
(* in-memory limiter of security/rate_limit.py.                            *)
(*                                                                         *)
(* Approvals are kept twice: as records of the repository and as yes/no in *)
(* the manager's approval_store, each under an id.  ApprovalService.request *)
(* makes ids "approval-<agent>-<tool>-<action>", the manager looks up      *)
(* "approval-<agent>-tools.<tool>.<action>": for the tools of the          *)
(* repository these never agree, hence the two kinds of Id.                *)
(*                                                                         *)
(* A pipeline's RateLimitService has the PostgreSQL limiter (PgRateLimiter) *)
(* by default, and the in-memory one when that cannot be constructed.      *)
(*                                                                         *)
(*   repository  the approval record of each id                            *)
(*   approvals   the ids that approval_store holds as approved             *)
(*   entry       the limiter's entry per agent and capability              *)
(*   answer      the last call and what it returned                        *)
(***************************************************************************)
EXTENDS Clock

CONSTANTS Agent, Capability, Organization,
          Risky,         \* agents of risk MEDIUM and more
          EnforceLimit,  \* enforce()'s limit; Window is its window_seconds
          NoOrganization, NoRecord, NoAnswer

ASSUME SetsAssumption == /\ Risky \subseteq Agent
                         /\ NoOrganization \notin Organization
ASSUME EnforceAssumption == EnforceLimit \in Nat

VARIABLES repository, approvals, entry, answer

gateVars == <<clock, repository, approvals, entry, answer>>

Never  == MaxTime + 1   \* no expiration_at
Status == {"PENDING", "APPROVED", "REJECTED", "CANCELLED", "EXPIRED"}
Owner  == Organization \cup {NoOrganization}
Id     == [kind : {"request", "gate"}, agent : Agent, capability : Capability]
Record == [status : Status, organization : Owner, expires : Time \cup {Never}]
Entry  == [tokens : 0 .. EnforceLimit, reset : 0 .. MaxTime + Window]
Call   == [by : {"pipeline", "tool"}, agent : Agent, capability : Capability,
           organization : Owner, decision : {"ALLOW", "DENY"}]

(* approval_id in PermissionManager.authorize                               *)
GateId(agent, capability) == [kind |-> "gate", agent |-> agent, capability |-> capability]

GateTypeOK ==
  /\ clock \in Time
  /\ repository \in [Id -> Record \cup {NoRecord}]
  /\ approvals \subseteq Id
  /\ entry \in [Agent \X Capability -> Entry]
  /\ answer \in Call \cup {NoAnswer}

GateInit ==
  /\ clock = 0
  /\ repository = [id \in Id |-> NoRecord]
  /\ approvals = {}
  /\ entry = [k \in Agent \X Capability |-> [tokens |-> 0, reset |-> 0]]
  /\ answer = NoAnswer

GateTick ==
  /\ Passes
  /\ UNCHANGED <<repository, approvals, entry, answer>>

-----------------------------------------------------------------------------
(* The repository *)

(* request() with ids of its own kind, create() with any: a second record   *)
(* of an id is a ValueError.                                                *)
Create(id, org, expires) ==
  /\ repository[id] = NoRecord
  /\ repository' = [repository EXCEPT ![id] =
        [status |-> "PENDING", organization |-> org, expires |-> expires]]
  /\ UNCHANGED <<clock, approvals, entry, answer>>

(* _require_tenant: without an organization on either side, no comparison.  *)
VisibleTo(id, org) ==
  /\ repository[id] # NoRecord
  /\ \/ NoOrganization \in {org, repository[id].organization}
     \/ org = repository[id].organization

(* A mutant: a decided record may be decided again.                         *)
TransitionAny(id, status, org) ==
  IF VisibleTo(id, org) THEN [repository EXCEPT ![id].status = status] ELSE repository

(* _transition: what is not visible or not PENDING stays as it is.          *)
Transition(id, status, org) ==
  IF VisibleTo(id, org) /\ repository[id].status = "PENDING"
  THEN [repository EXCEPT ![id].status = status]
  ELSE repository

(* record_decision, cancel and expire, which look at no clock               *)
Decide(id, status, org) ==
  /\ status # "PENDING"
  /\ repository' = Transition(id, status, org)
  /\ UNCHANGED <<clock, approvals, entry, answer>>

IsApproved(id, org) ==
  /\ VisibleTo(id, org)
  /\ repository[id].status = "APPROVED"
  /\ repository[id].expires >= clock

(* is_approved() of a late record calls expire(), which wants it PENDING.   *)
Noticed(id, org) ==
  IF VisibleTo(id, org) /\ repository[id].status = "APPROVED" /\ ~IsApproved(id, org)
  THEN Transition(id, "EXPIRED", org)
  ELSE repository

-----------------------------------------------------------------------------
(* The gate *)

(* PermissionManager.record_approval                                        *)
RecordApproval(id, approved) ==
  /\ approvals' = IF approved THEN approvals \cup {id} ELSE approvals \ {id}
  /\ UNCHANGED <<clock, repository, entry, answer>>

(* PermissionManager.authorize: valid says that there is an agent, enabled  *)
(* and ACTIVE, and that the capability names a permission it was granted.   *)
Authorize(agent, capability, valid) ==
  /\ valid
  /\ agent \in Risky => GateId(agent, capability) \in approvals

(* A mutant: every check moves the end of the window.                       *)
CurrentSliding(k) ==
  [tokens |-> IF entry[k].reset =< clock THEN EnforceLimit ELSE entry[k].tokens,
   reset  |-> clock + Window]

(* InMemoryRateLimiter.check: the entry it looks at ...                     *)
CurrentEntry(k) ==
  IF entry[k].reset =< clock THEN [tokens |-> EnforceLimit, reset |-> clock + Window] ELSE entry[k]

(* ... and the entry it leaves.                                             *)
ChargedEntry(k) == [CurrentEntry(k) EXCEPT !.tokens = IF @ > 0 THEN @ - 1 ELSE 0]

Answer(by, agent, capability, org, allowed) ==
  answer' = [by |-> by, agent |-> agent, capability |-> capability, organization |-> org,
             decision |-> IF allowed THEN "ALLOW" ELSE "DENY"]

(* RateLimitService.enforce: the PostgreSQL limiter answers by rows that    *)
(* are not modelled here, the in-memory one by its entry.                   *)
Enforce(k, allowed) ==
  \/ UNCHANGED entry
  \/ /\ allowed = (CurrentEntry(k).tokens > 0)
     /\ entry' = [entry EXCEPT ![k] = ChargedEntry(k)]

(* A mutant: the manager's yes is enough.                                   *)
PipelineTrusting(agent, capability, org, valid) ==
  \E allowed \in BOOLEAN :
    /\ Enforce(<<agent, capability>>, allowed)
    /\ Answer("pipeline", agent, capability, org,
              allowed /\ Authorize(agent, capability, valid))
    /\ UNCHANGED <<clock, repository, approvals>>

(* SecurityPipeline.authorize: a token first, then the manager, and for a   *)
(* risky agent the approval service.                                        *)
Pipeline(agent, capability, org, valid) ==
  \E allowed \in BOOLEAN :
    LET id      == GateId(agent, capability)
        passes  == allowed /\ Authorize(agent, capability, valid)
        approve == passes /\ agent \in Risky
    IN
    /\ Enforce(<<agent, capability>>, allowed)
    /\ repository' = IF approve THEN Noticed(id, org) ELSE repository
    /\ Answer("pipeline", agent, capability, org,
              passes /\ (approve => IsApproved(id, org)))
    /\ UNCHANGED <<clock, approvals>>

(* ToolInterface.execute: the manifest (is it there, enabled and for this   *)
(* capability, and the payload a dict?), then the manager, and no more.     *)
Execute(agent, capability, valid, fits) ==
  /\ Answer("tool", agent, capability, NoOrganization,
            fits /\ Authorize(agent, capability, valid))
  /\ UNCHANGED <<clock, repository, approvals, entry>>

-----------------------------------------------------------------------------
GateNext ==
  \/ GateTick
  \/ \E id \in Id, org \in Owner :
        \/ \E expires \in Time \cup {Never} : Create(id, org, expires)
        \/ \E status \in Status : Decide(id, status, org)
  \/ \E id \in Id, approved \in BOOLEAN : RecordApproval(id, approved)
  \/ \E agent \in Agent, capability \in Capability, valid \in BOOLEAN :
        \/ \E org \in Owner : Pipeline(agent, capability, org, valid)
        \/ \E fits \in BOOLEAN : Execute(agent, capability, valid, fits)

GateSpec == GateInit /\ [][GateNext]_gateVars

-----------------------------------------------------------------------------
(* Properties *)

(* What is decided stays decided: an approval that was rejected, cancelled  *)
(* or expired, or approved, is never decided again nor requested anew.      *)
DecisionsAreFinal ==
  [][\A id \in Id :
       repository[id] # NoRecord /\ repository[id].status # "PENDING"
         => repository'[id] = repository[id]]_gateVars

(* The pipeline lets a risky agent through only by an approval that stands: *)
(* approved, not past its expiry, not another organization's, and created   *)
(* with the id the gate asks for, whatever approval_store says.  (No        *)
(* decision on a record that ApprovalService.request made ever does.)       *)
AllowNeedsStandingApproval ==
  [][answer' # answer /\ answer'.decision = "ALLOW" /\ answer'.by = "pipeline"
       => \/ answer'.agent \notin Risky
          \/ LET r == repository[[kind |-> "gate", agent |-> answer'.agent,
                                capability |-> answer'.capability]] IN
             /\ r # NoRecord
             /\ r.status = "APPROVED" /\ clock =< r.expires
             /\ r.organization = answer'.organization
                  \/ NoOrganization \in {r.organization, answer'.organization}]_gateVars

(* The in-memory limiter is a rate window, too; its windows end at their    *)
(* reset_at, one unit of time before those of the PostgreSQL limiter do.    *)
EntryWindow(k) == INSTANCE RateWindow
  WITH start  <- IF entry[k].reset = 0 THEN NoWindow ELSE entry[k].reset - Window,
       used   <- IF entry[k].reset = 0 THEN 0 ELSE EnforceLimit - entry[k].tokens,
       Limit  <- EnforceLimit, Window <- Window - 1
MemoryIsRateWindow ==
  [][\A k \in Agent \X Capability : EntryWindow(k)!Next \/ UNCHANGED entry[k]]_entry
=============================================================================
