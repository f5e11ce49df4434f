----------------------------- MODULE Orchestrator -----------------------------
(***************************************************************************)
(* InvestigationOrchestrator.orchestrate with the agents it runs: one call *)
(* with a fresh PermissionManager, as run_investigation makes it, on any   *)
(* indicators and with or without evidence ids (run_investigation passes   *)
(* none).  Agents run one after the other; each is granted its             *)
(* allowed_tools when it starts and hands its findings over when it ends.  *)
(*                                                                         *)
(*   given     the indicators of the case                                  *)
(*   stored    whether the caller names evidence ids                       *)
(*   stage     place in Roles of the agent whose turn it is                *)
(*   running   whether that agent has started                              *)
(*   raised    whether a tool raised, and orchestrate() with it            *)
(*   todo      its checks that are left                                    *)
(*   draft     its findings so far                                         *)
(*   granted   granted_permissions of the permission manager               *)
(*   calls     tool calls of all runs                                      *)
(*   findings  findings of the runs that have ended                        *)
(***************************************************************************)
EXTENDS Naturals, AgentTools

CONSTANTS HasProfiler  \* HAS_OSINT_PROFILER: modules.osint_profiler is importable

ASSUME HasProfilerAssumption == HasProfiler \in BOOLEAN

VARIABLES given, stored, stage, running, raised, todo, draft, granted, calls, findings

input == <<given, stored>>
vars  == <<given, stored, stage, running, raised, todo, draft, granted, calls, findings>>

Last    == 6
RoleNow == Roles[stage]
Over    == stage > Last \/ raised

CallStatus == {"ALLOW", "DENY", "denied", "success", "error"}
ToolCall   == [role : Role, capability : Capability, about : Kind, status : CallStatus]
Finding    == [role : Role, capability : Capability \cup {"none"}, about : Kind \cup {"none"},
               status : {"open", "completed"}, review : BOOLEAN]

TypeOK ==
  /\ given \subseteq Kind
  /\ stored \in BOOLEAN
  /\ stage \in 1 .. Last + 1
  /\ running \in BOOLEAN
  /\ raised \in BOOLEAN
  /\ todo \in Seq(Check)
  /\ draft \in Seq(Finding)
  /\ granted \in [Role -> SUBSET Capability]
  /\ calls \subseteq ToolCall
  /\ findings \in Seq(Finding)

Init ==
  /\ given \in SUBSET Kind
  /\ stored \in BOOLEAN
  /\ stage = 1
  /\ running = FALSE
  /\ raised = FALSE
  /\ todo = <<>>
  /\ draft = <<>>
  /\ granted = [role \in Role |-> {}]
  /\ calls = {}
  /\ findings = <<>>

-----------------------------------------------------------------------------
(* Which agents run, and the findings an agent makes without any tool       *)

Needed(role) ==
  CASE role = "evidence"     -> stored
    [] role = "osint"        -> given \cap OsintKinds # {}
    [] role = "threat_intel" -> given \cap ThreatKinds # {}
    [] role = "crypto"       -> given \cap CryptoKinds # {}
    [] OTHER                 -> findings # <<>>

Plain(role, status, review) ==
  [role |-> role, capability |-> "none", about |-> "none", status |-> status, review |-> review]

(* Findings with status "approved"; failing those, the first finding.       *)
Approved ==
  IF \E i \in DOMAIN findings : findings[i].status = "approved"
  THEN SelectSeq(findings, LAMBDA f : f.status = "approved")
  ELSE SubSeq(findings, 1, 1)

EvidenceIntake == <<Plain("evidence", "open", FALSE)>>
Hypothesis     == <<Plain("fraud_analysis", "open", TRUE)>>

(* One conclusion for each approved finding, not to be reviewed any more.   *)
Conclusions == [i \in DOMAIN Approved |-> Plain("report", "completed", FALSE)]

Opening(role) ==
  CASE role = "evidence"       -> EvidenceIntake
    [] role = "fraud_analysis" -> Hypothesis
    [] role = "report"         -> Conclusions
    [] OTHER                   -> <<>>

-----------------------------------------------------------------------------
(* Tool calls                                                               *)

(* _allowed(): a check the class does not list is dropped without a trace.  *)
Listed(role, capability) == AllowedTools[role] = {} \/ capability \in AllowedTools[role]

(* PermissionManager.authorize for an active agent of risk LOW: nothing but *)
(* the grant counts.                                                        *)
Authorized(role, capability) == capability \in granted[role]

(* The statuses a call that was made is recorded with.                      *)

(* ToolInterface.execute without a manifest: DENY, reason missing_manifest. *)
ToolInterfaceStatus == {"DENY"}

(* The osint agent then asks the profiler, if there is one, and records     *)
(* ALLOW whatever that finds.                                               *)
OsintStatus == IF HasProfiler THEN {"ALLOW"} ELSE ToolInterfaceStatus

(* The threat agent calls its adapter directly and records the adapter's    *)
(* own status (a partial answer of the lookup is a success of the adapter). *)
ThreatStatus == {"success", "error"}

Answers(role) ==
  CASE role = "osint"        -> OsintStatus
    [] role = "threat_intel" -> ThreatStatus
    [] OTHER                 -> ToolInterfaceStatus

Asked(check, status) ==
  [role |-> RoleNow, capability |-> check.capability, about |-> check.about, status |-> status]

Reported(check) ==
  [role |-> RoleNow, capability |-> check.capability, about |-> check.about,
   status |-> "open", review |-> TRUE]

-----------------------------------------------------------------------------
(* Actions *)

SkipAgent ==
  /\ ~Over
  /\ ~running
  /\ ~Needed(RoleNow)
  /\ stage' = stage + 1
  /\ UNCHANGED <<input, running, raised, todo, draft, granted, calls, findings>>

(* _run_agent grants the agent its tools, then execute() queues the checks. *)
StartAgent ==
  /\ ~Over
  /\ ~running
  /\ Needed(RoleNow)
  /\ running' = TRUE
  /\ granted' = [granted EXCEPT ![RoleNow] = @ \cup AllowedTools[RoleNow]]
  /\ todo' = Checks(RoleNow, given)
  /\ draft' = Opening(RoleNow)
  /\ UNCHANGED <<input, stage, raised, calls, findings>>

(* One check of the running agent: dropped when the class does not list it, *)
(* recorded as denied when authorize() refuses it, and else made, recorded  *)
(* and turned into a finding whatever the answer is.                        *)
RunCheck ==
  /\ ~Over
  /\ running
  /\ todo # <<>>
  /\ LET check   == Head(todo)
         allowed == Authorized(RoleNow, check.capability)
     IN  IF ~Listed(RoleNow, check.capability)
         THEN UNCHANGED <<calls, draft>>
         ELSE \E status \in IF allowed THEN Answers(RoleNow) ELSE {"denied"} :
                 /\ calls' = calls \cup {Asked(check, status)}
                 /\ draft' = IF allowed THEN Append(draft, Reported(check)) ELSE draft
  /\ todo' = Tail(todo)
  /\ UNCHANGED <<input, stage, running, raised, granted, findings>>

(* The profiler raises on a phone that is not a string, and orchestrate()   *)
(* with it: every finding so far is lost.  All other tool errors are caught *)
(* by the tools.                                                            *)
Raise ==
  /\ ~Over
  /\ running
  /\ todo # <<>>
  /\ RoleNow = "osint" /\ HasProfiler /\ Head(todo).about = "phone"
  /\ raised' = TRUE
  /\ UNCHANGED <<input, stage, running, todo, draft, granted, calls, findings>>

AgentEnds ==
  /\ ~Over
  /\ running
  /\ todo = <<>>
  /\ findings' = findings \o draft
  /\ draft' = <<>>
  /\ running' = FALSE
  /\ stage' = stage + 1
  /\ UNCHANGED <<input, raised, todo, granted, calls>>

Next == SkipAgent \/ StartAgent \/ RunCheck \/ Raise \/ AgentEnds

Spec == Init /\ [][Next]_vars

-----------------------------------------------------------------------------
(* Properties *)

Completed == stage > Last /\ ~raised

(* Statuses of calls that reached a provider, whatever it answered: the     *)
(* others were stopped by authorize() or for want of a manifest.            *)
AskedStatus == {"ALLOW", "success", "error"}

(* Indicators there is a provider for: the adapters of the threat agent,    *)
(* and the profiler of the osint agent if it is there.  A wallet address or *)
(* a transaction hash has none: ToolInterface has no manifest for tracing.  *)
HasProvider(k) == k \in ThreatKinds \/ (HasProfiler /\ k \in OsintKinds)

(* The lists of indicators of the orchestrator, of checks of the agents and *)
(* of allowed_tools agree: of the indicators that somebody can look up,     *)
(* none of a completed orchestration was dropped on the way.                *)
EveryIndicatorIsLookedUp ==
  Completed =>
    \A k \in given : HasProvider(k) =>
      \E c \in calls : c.about = k /\ c.status \in AskedStatus

(* An agent holds permissions only once it has started, only those its      *)
(* class lists, and they are enough: no check of its own is refused.        *)
GrantsFitTheAgent ==
  /\ \A i \in 1 .. Last : granted[Roles[i]] \subseteq (IF i > stage THEN {} ELSE AllowedTools[Roles[i]])
  /\ \A c \in calls : c.status # "denied"

(* Findings of an orchestration are never dropped or reordered by the later *)
(* agents.                                                                  *)
FindingsOnlyGrow ==
  [][/\ Len(findings') >= Len(findings)
     /\ SubSeq(findings', 1, Len(findings)) = findings]_vars

=============================================================================
