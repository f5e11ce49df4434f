---------------------------- MODULE TaskOrchestrator ----------------------------
(***************************************************************************)
(* Orchestrator of orchestrator.py: tasks in memory that any caller plans, *)
(* executes, hands off, completes, fails or cancels in any order, with the *)
(* registry that agents are selected from and one of the two loggers its   *)
(* transitions are recorded with.  An operation first changes the task and *)
(* then records; when record() raises, the change stays and the rest of    *)
(* the operation is skipped.  (result and failure_reason decide nothing    *)
(* and are left out; CLASSIFYING and PLANNING are passed inside plan().)   *)
(*                                                                         *)
(*   status     of each task                                               *)
(*   agent      assigned_agent_id                                          *)
(*   handedOff  whether handoff_chain is not empty                         *)
(*   logger     AuditLogger ("memory") or PersistentAuditLogger ("database") *)
(*   rows       event ids in the session of the latter, never committed    *)
(*   broken     whether that session failed: nothing ever rolls it back    *)
(*   planned    history: the agent plan() chose last                       *)
(***************************************************************************)
EXTENDS AgentRegistry

CONSTANTS Task, Intent,
          Can,       \* capabilities of each agent
          NoAgent

ASSUME TaskAssumption ==
  /\ Can \in [Agent -> SUBSET Intent]
  /\ NoAgent \notin Agent

VARIABLES status, agent, handedOff, logger, rows, broken, planned

taskVars == <<status, agent, handedOff, planned>>
logVars  == <<logger, rows, broken>>
vars     == <<registered, enabled, status, agent, handedOff, planned, logger, rows, broken>>

Status   == {"received", "assigned", "executing", "handoff", "review",
             "completed", "failed", "cancelled"}
Terminal == {"completed", "failed", "cancelled"}
Event    == {"plan", "execute", "review", "handoff", "complete", "fail", "cancel"}

TypeOK ==
  /\ RegistryTypeOK
  /\ status \in [Task -> Status]
  /\ agent \in [Task -> Agent \cup {NoAgent}]
  /\ planned \in [Task -> Agent \cup {NoAgent}]
  /\ handedOff \in [Task -> BOOLEAN]
  /\ logger \in {"memory", "database"}
  /\ rows \subseteq Task \X Event
  /\ broken \in BOOLEAN

Init ==
  /\ RegistryInit
  /\ status = [t \in Task |-> "received"]
  /\ agent = [t \in Task |-> NoAgent]
  /\ planned = [t \in Task |-> NoAgent]
  /\ handedOff = [t \in Task |-> FALSE]
  /\ logger \in {"memory", "database"}
  /\ rows = {}
  /\ broken = FALSE

-----------------------------------------------------------------------------
(* The audit trail.  Event ids are task-<task>-<action>, and event_id is a  *)
(* unique column.                                                           *)

(* A mutant: every event has an id of its own.                              *)
RepeatsNever(t, event) == FALSE

Repeats(t, event) == <<t, event>> \in rows

(* record() succeeds: the in-memory list takes any event.                   *)
Recorded(t, events) ==
  /\ \/ logger = "memory" /\ rows' = rows
     \/ /\ logger = "database" /\ ~broken
        /\ \A e \in events : ~Repeats(t, e)
        /\ rows' = rows \cup {<<t, e>> : e \in events}
  /\ UNCHANGED <<logger, broken>>

(* record() raises, because the id is there already, the connection is lost *)
(* or the session has failed before.  The failed flush rolls back every row *)
(* of the session, and nothing calls its rollback().                        *)
Raises ==
  /\ logger = "database"
  /\ rows' = {}
  /\ broken' = TRUE
  /\ UNCHANGED logger

Record(t, event) == Recorded(t, {event}) \/ Raises

-----------------------------------------------------------------------------
(* Operations *)

Becomes(t, s) == status' = [status EXCEPT ![t] = s]

(* select_agent(): the first enabled agent with the capability, failing     *)
(* that the first enabled one, failing that none.                           *)
Selected(chosen, intent) ==
  LET capable == {a \in enabled : intent \in Can[a]} IN
    \/ IsFirstOf(chosen, capable)
    \/ capable = {} /\ IsFirstOf(chosen, enabled)
    \/ enabled = {} /\ chosen = NoAgent

(* The intent is read from a payload that any caller may change.  With no   *)
(* candidate the task is assigned all the same, to nobody.                  *)
Plan(t) ==
  \E intent \in Intent, chosen \in Agent \cup {NoAgent} :
    /\ Selected(chosen, intent)
    /\ agent' = [agent EXCEPT ![t] = chosen]
    /\ planned' = [planned EXCEPT ![t] = chosen]
    /\ Becomes(t, "assigned")
    /\ Record(t, "plan")
    /\ UNCHANGED <<registryVars, handedOff>>

(* A mutant: a task that was handed off may be executed.                    *)
MayExecuteHandedOff(t) == status[t] \in {"assigned", "executing", "handoff"}

MayExecute(t) == status[t] \in {"assigned", "executing"}

(* execute(): refused, started, or with a result also put up for review,    *)
(* which is a second record; a raise in between leaves it EXECUTING.        *)
Execute(t) ==
  /\ \/ ~MayExecute(t) /\ Becomes(t, "failed") /\ Record(t, "execute")
     \/ MayExecute(t) /\ Becomes(t, "executing") /\ Record(t, "execute")
     \/ /\ MayExecute(t) /\ Becomes(t, "review")
        /\ \/ Recorded(t, {"execute", "review"})
           \/ ~broken /\ ~Repeats(t, "execute") /\ Raises
  /\ UNCHANGED <<registryVars, agent, handedOff, planned>>

(* handoff(): the chain grows even if the target turns out to be unknown;   *)
(* nobody asks whether a known one is enabled.                              *)
Handoff(t) ==
  \E target \in Agent :
    /\ handedOff' = [handedOff EXCEPT ![t] = @ \/ agent[t] # NoAgent]
    /\ IF target \in Known
       THEN agent' = [agent EXCEPT ![t] = target] /\ Becomes(t, "handoff")
       ELSE agent' = agent /\ Becomes(t, "failed")
    /\ Record(t, "handoff")
    /\ UNCHANGED <<registryVars, planned>>

(* complete() and fail(), in any status.                                    *)
Complete(t) ==
  /\ Becomes(t, "completed")
  /\ Record(t, "complete")
  /\ UNCHANGED <<registryVars, agent, handedOff, planned>>

Fail(t) ==
  /\ Becomes(t, "failed")
  /\ Record(t, "fail")
  /\ UNCHANGED <<registryVars, agent, handedOff, planned>>

(* cancel() leaves a task that has ended as it is, and records the refusal. *)
Cancel(t) ==
  /\ IF status[t] \in Terminal THEN UNCHANGED status ELSE Becomes(t, "cancelled")
  /\ Record(t, "cancel")
  /\ UNCHANGED <<registryVars, agent, handedOff, planned>>

ChangeRegistry == RegistryNext /\ UNCHANGED <<taskVars, logVars>>

Next ==
  \/ ChangeRegistry
  \/ \E t \in Task : \/ Plan(t) \/ Execute(t) \/ Handoff(t)
                     \/ Complete(t) \/ Fail(t) \/ Cancel(t)

Spec == Init /\ [][Next]_vars

-----------------------------------------------------------------------------
(* Properties *)

(* Whatever operations came before, finished tasks taken up again included, *)
(* a task is assigned, executing or under review only in the name of the    *)
(* agent plan() chose last, which is enabled.  So a target of handoff()     *)
(* never executes, though it is assigned: execute() fails a task in HANDOFF, *)
(* and only plan(), which puts another agent in, leads back.  In particular *)
(* no agent of the roster ever executes, as the loader enables none.        *)
OnlyPlannedAgentsExecute ==
  \A t \in Task :
    status[t] \in {"assigned", "executing", "review"} =>
      agent[t] = planned[t] /\ agent[t] \in enabled \cup {NoAgent}

(* With the persistent logger a task that an agent handed over never gets   *)
(* as far as a review: it must be planned twice, and the second "plan"      *)
(* repeats an event id, which breaks the trail of all tasks for good, and   *)
(* execute() with it.                                                       *)
HandedOffIsNeverReviewed ==
  \A t \in Task :
    logger = "database" /\ handedOff[t] => status[t] # "review"
=============================================================================
