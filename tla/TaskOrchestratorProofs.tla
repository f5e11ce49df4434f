------------------------- MODULE TaskOrchestratorProofs -------------------------
(***************************************************************************)
(* Proofs about TaskOrchestrator, for any tasks, agents, roster and        *)
(* capabilities.  The invariant says of every task whose agent is or was   *)
(* handed over which event ids the session of a persistent logger holds.   *)
(***************************************************************************)
EXTENDS TaskOrchestrator, FiniteSetTheorems, TLAPS

TasksTyped ==
  /\ status \in [Task -> Status]
  /\ agent \in [Task -> Agent \cup {NoAgent}]
  /\ planned \in [Task -> Agent \cup {NoAgent}]
  /\ handedOff \in [Task -> BOOLEAN]
  /\ logger \in {"memory", "database"}
  /\ broken \in BOOLEAN

Active == {"assigned", "executing", "review"}

(* The trail of the persistent logger is whole.                             *)
Whole == logger = "database" /\ ~broken

(* A task that has an agent was planned or handed over on record.           *)
AgentOnRecord ==
  Whole => \A t \in Task : agent[t] # NoAgent => {<<t, "plan">>, <<t, "handoff">>} \cap rows # {}

(* A task that an agent handed over is at rest, and planning it again would *)
(* repeat an event.                                                         *)
HandedOffRests ==
  Whole => \A t \in Task : handedOff[t] => <<t, "plan">> \in rows /\ status[t] \notin Active

IInv == TasksTyped /\ OnlyPlannedAgentsExecute /\ AgentOnRecord /\ HandedOffRests
        /\ HandedOffIsNeverReviewed

(* The initial states satisfy the invariant.                                *)
LEMMA InitInv == Init => IInv
  BY DEF Init, RegistryInit, IInv, TasksTyped, Status, OnlyPlannedAgentsExecute,
         AgentOnRecord, HandedOffRests, HandedOffIsNeverReviewed

(* plan() selects an enabled agent or none.                                 *)
LEMMA SelectedIsEnabled ==
  ASSUME NEW chosen, NEW intent, Selected(chosen, intent)
  PROVE  chosen \in enabled \cup {NoAgent}
  BY DEF Selected, IsFirstOf

(* Registering and loading agents disables none.                            *)
LEMMA RegistryStep ==
  ASSUME ChangeRegistry
  PROVE  enabled \subseteq enabled' /\ UNCHANGED <<taskVars, logVars>>
  BY DEF ChangeRegistry, RegistryNext, Register, Load

(* What a step makes of one task, in terms of its old and new values.       *)
LEMMA RecordKeepsLogger ==
  ASSUME TasksTyped, NEW t \in Task, NEW event \in Event, Record(t, event)
  PROVE  /\ logger' = logger /\ broken' \in BOOLEAN
         /\ Whole' => /\ Whole
                      /\ <<t, event>> \notin rows
                      /\ rows' = rows \cup {<<t, event>>}
  BY DEF TasksTyped, Record, Recorded, Raises, Repeats, Whole

(* Each operation preserves the invariant.                                  *)
LEMMA NextInv == IInv /\ [Next]_vars => IInv'
<1> SUFFICES ASSUME IInv, [Next]_vars PROVE IInv'
  OBVIOUS
<1> USE DEF IInv
<1>1. CASE UNCHANGED vars
  BY <1>1 DEF vars, TasksTyped, OnlyPlannedAgentsExecute, AgentOnRecord, HandedOffRests,
              HandedOffIsNeverReviewed, Whole
<1>2. CASE ChangeRegistry
  BY <1>2, RegistryStep DEF taskVars, logVars, TasksTyped, OnlyPlannedAgentsExecute,
              AgentOnRecord, HandedOffRests, HandedOffIsNeverReviewed, Whole
<1>3. ASSUME NEW t \in Task, Plan(t) PROVE IInv'
  <2>1. PICK intent \in Intent, chosen \in Agent \cup {NoAgent} :
          /\ Selected(chosen, intent)
          /\ agent' = [agent EXCEPT ![t] = chosen]
          /\ planned' = [planned EXCEPT ![t] = chosen]
          /\ status' = [status EXCEPT ![t] = "assigned"]
          /\ Record(t, "plan")
          /\ UNCHANGED <<registered, enabled, handedOff>>
    BY <1>3 DEF Plan, Becomes, registryVars
  <2>2. chosen \in enabled \cup {NoAgent}
    BY <2>1, SelectedIsEnabled
  <2>3. /\ logger' = logger /\ broken' \in BOOLEAN
        /\ Whole' => /\ Whole
                     /\ <<t, "plan">> \notin rows
                     /\ rows' = rows \cup {<<t, "plan">>}
    BY <2>1, RecordKeepsLogger DEF Event
  <2> QED
    BY <2>1, <2>2, <2>3 DEF TasksTyped, Status, Active, OnlyPlannedAgentsExecute, AgentOnRecord,
       HandedOffRests, HandedOffIsNeverReviewed
<1>4. ASSUME NEW t \in Task, Execute(t) PROVE IInv'
  <2>1. UNCHANGED <<registered, enabled, agent, handedOff, planned>> /\ logger' = logger
    BY <1>4 DEF Execute, registryVars, Record, Recorded, Raises
  <2>2. Whole' => Whole /\ rows \subseteq rows'
    BY <1>4 DEF Execute, Record, Recorded, Raises, Whole
  <2>3. /\ broken' \in BOOLEAN
        /\ \/ status' = [status EXCEPT ![t] = "failed"]
           \/ MayExecute(t) /\ status' = [status EXCEPT ![t] = "executing"]
           \/ /\ MayExecute(t) /\ status' = [status EXCEPT ![t] = "review"]
              /\ logger = "database" => Whole
    BY <1>4 DEF Execute, Becomes, Record, Recorded, Raises, Whole, TasksTyped
  <2> QED
    BY <2>1, <2>2, <2>3 DEF TasksTyped, Status, Active, OnlyPlannedAgentsExecute, AgentOnRecord,
       HandedOffRests, HandedOffIsNeverReviewed, MayExecute
<1>5. ASSUME NEW t \in Task, Handoff(t) PROVE IInv'
  <2>1. PICK target \in Agent :
          /\ handedOff' = [handedOff EXCEPT ![t] = handedOff[t] \/ agent[t] # NoAgent]
          /\ \/ agent' = [agent EXCEPT ![t] = target] /\ status' = [status EXCEPT ![t] = "handoff"]
             \/ agent' = agent /\ status' = [status EXCEPT ![t] = "failed"]
          /\ Record(t, "handoff")
          /\ UNCHANGED <<registered, enabled, planned>>
    BY <1>5 DEF Handoff, Becomes, registryVars
  <2>2. /\ logger' = logger /\ broken' \in BOOLEAN
        /\ Whole' => /\ Whole
                     /\ <<t, "handoff">> \notin rows
                     /\ rows' = rows \cup {<<t, "handoff">>}
    BY <2>1, RecordKeepsLogger DEF Event
  <2>3. TasksTyped' /\ OnlyPlannedAgentsExecute' /\ HandedOffIsNeverReviewed'
    BY <2>1, <2>2 DEF TasksTyped, Status, OnlyPlannedAgentsExecute, HandedOffIsNeverReviewed
  <2>4. AgentOnRecord'
    BY <2>1, <2>2 DEF TasksTyped, AgentOnRecord
  <2>5. HandedOffRests'
    BY <2>1, <2>2 DEF TasksTyped, Active, AgentOnRecord, HandedOffRests
  <2> QED
    BY <2>3, <2>4, <2>5
<1>6. ASSUME NEW t \in Task, Complete(t) \/ Fail(t) \/ Cancel(t) PROVE IInv'
  <2>1. PICK event \in Event : Record(t, event)
    BY <1>6 DEF Complete, Fail, Cancel, Event
  <2>2. /\ status' = status \/ \E s \in Terminal : status' = [status EXCEPT ![t] = s]
        /\ UNCHANGED <<registered, enabled, agent, handedOff, planned>>
    BY <1>6 DEF Complete, Fail, Cancel, Becomes, Terminal, registryVars
  <2>3. /\ logger' = logger /\ broken' \in BOOLEAN
        /\ Whole' => Whole /\ rows \subseteq rows'
    BY <2>1, RecordKeepsLogger
  <2> QED
    BY <2>2, <2>3 DEF TasksTyped, Status, Terminal, Active, OnlyPlannedAgentsExecute, AgentOnRecord,
       HandedOffRests, HandedOffIsNeverReviewed
<1> QED
  BY <1>1, <1>2, <1>3, <1>4, <1>5, <1>6 DEF Next

(* The inductive invariant of TaskOrchestrator.                             *)
THEOREM Invariant == Spec => []IInv
  BY InitInv, NextInv, PTL DEF Spec

(* Only the agent plan() chose, if any, ever executes: no target of a       *)
(* handoff and no agent that is not enabled.                                *)
THEOREM PlannedExecute == Spec => []OnlyPlannedAgentsExecute
<1>1. IInv => OnlyPlannedAgentsExecute
  BY DEF IInv
<1> QED
  BY <1>1, Invariant, PTL

(* With the persistent logger no task that was handed over is reviewed.     *)
THEOREM NeverReviewed == Spec => []HandedOffIsNeverReviewed
<1>1. IInv => HandedOffIsNeverReviewed
  BY DEF IInv
<1> QED
  BY <1>1, Invariant, PTL

-----------------------------------------------------------------------------
(* The registry and its loader                                              *)

(* The n-th of some places of the roster, counted from the first.           *)
Rank(places, i) == Cardinality({j \in places : j =< i})

(* Counting gives every place its own number, from 1 up.                    *)
LEMMA RankIsOnto ==
  ASSUME NEW places \in SUBSET DOMAIN Roster, NEW n \in 1 .. Cardinality(places)
  PROVE  \E i \in places : Rank(places, i) = n
<1> DEFINE upTo(i) == {j \in places : j =< i}
           f == [i \in places |-> Rank(places, i)]
           T == 1 .. Cardinality(places)
<1>1. IsFiniteSet(places) /\ Cardinality(places) \in Nat /\ places \subseteq Nat
  <2>1. Len(Roster) \in Nat /\ places \subseteq 1 .. Len(Roster)
    BY RosterAssumption
  <2>2. IsFiniteSet(1 .. Len(Roster))
    BY <2>1, FS_Interval
  <2>3. QED
    BY <2>1, <2>2, FS_Subset, FS_CardinalityType
<1>2. ASSUME NEW i \in places
      PROVE  /\ IsFiniteSet(upTo(i)) /\ Cardinality(upTo(i)) \in Nat
             /\ Cardinality(upTo(i)) # 0 /\ Cardinality(upTo(i)) =< Cardinality(places)
  <2>1. upTo(i) \subseteq places /\ i \in upTo(i)
    BY <1>1
  <2> HIDE DEF upTo
  <2>2. QED
    BY <1>1, <2>1, FS_Subset, FS_CardinalityType, FS_EmptySet
<1>3. ASSUME NEW i \in places, NEW k \in places, i < k
      PROVE  Cardinality(upTo(i)) < Cardinality(upTo(k))
  <2>1. upTo(i) \subseteq upTo(k) /\ k \in upTo(k) /\ k \notin upTo(i)
    BY <1>1, <1>3
  <2> HIDE DEF upTo
  <2>2. Cardinality(upTo(i)) =< Cardinality(upTo(k)) /\ Cardinality(upTo(i)) # Cardinality(upTo(k))
    BY <1>2, <2>1, FS_Subset
  <2>3. QED
    BY <1>2, <2>2
<1>4. \A i \in places : f[i] = Cardinality(upTo(i))
  BY DEF Rank
<1> HIDE DEF upTo, f
<1>5. f \in Injection(places, T)
  <2>1. f \in [places -> T]
    <3>1. \A i \in places : f[i] \in T
      BY <1>1, <1>2, <1>4
    <3>2. QED
      BY <3>1 DEF f
  <2>2. ASSUME NEW i \in places, NEW k \in places, f[i] = f[k] PROVE i = k
    BY <1>1, <1>2, <1>3, <1>4, <2>2
  <2>3. QED
    BY <2>1, <2>2 DEF Injection, IsInjective
<1>6. IsFiniteSet(T) /\ Cardinality(T) = Cardinality(places)
  BY <1>1, FS_Interval
<1>7. f \in Surjection(places, T)
  BY <1>1, <1>5, <1>6, FS_Injection
<1>8. QED
  BY <1>7 DEF Surjection, f

(* What a loader appends are agents of the roster at the places it added.   *)
LEMMA InRosterOrderType ==
  ASSUME NEW places \in SUBSET DOMAIN Roster
  PROVE  /\ InRosterOrder(places) \in Seq(Agent)
         /\ \A n \in 1 .. Len(InRosterOrder(places)) :
              \E i \in places : InRosterOrder(places)[n] = Roster[i]
<1>1. Cardinality(places) \in Nat
  <2>1. Len(Roster) \in Nat /\ places \subseteq 1 .. Len(Roster)
    BY RosterAssumption
  <2>2. IsFiniteSet(1 .. Len(Roster))
    BY <2>1, FS_Interval
  <2>3. QED
    BY <2>1, <2>2, FS_Subset, FS_CardinalityType
<1>2. ASSUME NEW n \in 1 .. Cardinality(places)
      PROVE  \E i \in places : InRosterOrder(places)[n] = Roster[i]
  <2>1. InRosterOrder(places)[n] = Roster[CHOOSE i \in places : Rank(places, i) = n]
    BY DEF InRosterOrder, Rank
  <2>2. QED
    BY <2>1, RankIsOnto
<1>3. \A i \in places : Roster[i] \in Agent
  BY RosterAssumption
<1>4. InRosterOrder(places) \in [1 .. Cardinality(places) -> Agent]
  BY <1>2, <1>3 DEF InRosterOrder
<1>5. InRosterOrder(places) \in Seq(Agent) /\ Len(InRosterOrder(places)) = Cardinality(places)
  BY <1>1, <1>4
<1>6. QED
  BY <1>2, <1>5

(* A load appends agents of the roster, none of which stands behind a       *)
(* placeholder that was registered already.                                 *)
LEMMA LoadAdds ==
  ASSUME RegistryTypeOK, NEW sources, Load(sources)
  PROVE  /\ registered' \in Seq(Agent) /\ enabled' = enabled
         /\ \A i \in DOMAIN Roster : Roster[i] \in Placeholder \cap Known =>
              {registered'[n] : n \in Len(registered) + 1 .. Len(registered')} \cap Behind(i) = {}
<1> DEFINE candidates == {i \in DOMAIN Roster : Roster[i] \in Placeholder \cup sources}
           added == {i \in candidates : \A j \in candidates : j =< i => Roster[j] \notin Known}
           new == InRosterOrder(added)
<1>1. registered' = registered \o new /\ enabled' = enabled
  BY DEF Load
<1>2. /\ new \in Seq(Agent) /\ registered \in Seq(Agent)
      /\ \A n \in 1 .. Len(new) : \E i \in added : new[n] = Roster[i]
  BY InRosterOrderType DEF RegistryTypeOK
<1> HIDE DEF new
<1>3. registered' \in Seq(Agent) /\ Len(registered') = Len(registered) + Len(new)
  BY <1>1, <1>2
<1>4. ASSUME NEW i \in DOMAIN Roster, Roster[i] \in Placeholder \cap Known,
             NEW n \in Len(registered) + 1 .. Len(registered'), registered'[n] \in Behind(i)
      PROVE  FALSE
  <2>1. n - Len(registered) \in 1 .. Len(new) /\ registered'[n] = new[n - Len(registered)]
    BY <1>1, <1>2, <1>3
  <2>2. PICK k \in added : registered'[n] = Roster[k]
    BY <1>2, <2>1
  <2>3. PICK j \in i + 1 .. Len(Roster) : Roster[j] = Roster[k]
    BY <1>4, <2>2 DEF Behind
  <2>4. Len(Roster) \in Nat /\ DOMAIN Roster = 1 .. Len(Roster)
    BY RosterAssumption
  <2>5. j = k /\ i =< k
    BY <2>3, <2>4, RosterAssumption
  <2>6. i \in candidates
    BY <1>4
  <2>7. QED
    BY <1>4, <2>2, <2>5, <2>6
<1>5. QED
  BY <1>1, <1>3, <1>4

(* Every step preserves the types, and keeps late sources out.              *)
LEMMA RegistryKeeps ==
  ASSUME RegistryTypeOK, [Next]_vars
  PROVE  /\ RegistryTypeOK'
         /\ \/ UNCHANGED registryVars
            \/ \E a \in Agent, usable \in BOOLEAN : Register(a, usable)
            \/ \E sources : Load(sources)
<1>1. ASSUME NEW a \in Agent, NEW usable \in BOOLEAN, Register(a, usable) PROVE RegistryTypeOK'
  BY <1>1 DEF Register, RegistryTypeOK
<1>2. ASSUME NEW sources, Load(sources) PROVE RegistryTypeOK'
  BY <1>2, LoadAdds DEF RegistryTypeOK
<1>3. CASE ChangeRegistry
  BY <1>1, <1>2, <1>3 DEF ChangeRegistry, RegistryNext
<1>4. CASE UNCHANGED registryVars
  BY <1>4 DEF registryVars, RegistryTypeOK
<1>5. UNCHANGED registryVars \/ ChangeRegistry
  BY DEF Next, Plan, Execute, Handoff, Complete, Fail, Cancel, vars, registryVars
<1>6. QED
  BY <1>3, <1>4, <1>5 DEF ChangeRegistry, RegistryNext

(* No load brings in an agent that stands behind a registered placeholder,  *)
(* for any roster and whatever was loaded and registered before.            *)
THEOREM LateStayOut == Spec => LateSourcesStayOut
<1>1. Init => RegistryTypeOK
  BY DEF Init, RegistryInit, RegistryTypeOK
<1>2. RegistryTypeOK /\ [Next]_vars => RegistryTypeOK'
  BY RegistryKeeps
<1> DEFINE Out ==
      \A i \in DOMAIN Roster :
        Roster[i] \in Placeholder \cap Known =>
          LET new == {registered'[n] : n \in Len(registered) + 1 .. Len(registered')}
          IN  new \cap Behind(i) = {}
              \/ \E a \in Agent, usable \in BOOLEAN : Register(a, usable)
<1>3. RegistryTypeOK /\ [Next]_vars => [Out]_registryVars
  BY RegistryKeeps, LoadAdds
<1>4. QED
  BY <1>1, <1>2, <1>3, PTL DEF Spec, LateSourcesStayOut

(* Every variable always has its type.                                      *)
THEOREM TypeCorrect == Spec => []TypeOK
<1>1. Init => TypeOK
  BY InitInv DEF Init, RegistryInit, RegistryTypeOK, IInv, TasksTyped, TypeOK
<1>2. TypeOK /\ IInv /\ [Next]_vars => TypeOK'
  <2> SUFFICES ASSUME TypeOK, IInv, [Next]_vars PROVE TypeOK'
    OBVIOUS
  <2>1. RegistryTypeOK' /\ TasksTyped'
    BY RegistryKeeps, NextInv DEF TypeOK, IInv
  <2>2. rows' \subseteq Task \X Event
    <3>1. ASSUME NEW t \in Task, NEW events \in SUBSET Event, Recorded(t, events)
          PROVE  rows' \subseteq Task \X Event
      BY <3>1 DEF Recorded, TypeOK
    <3>2. Raises => rows' \subseteq Task \X Event
      BY DEF Raises
    <3>3. ASSUME NEW t \in Task, NEW event \in Event, Record(t, event)
          PROVE  rows' \subseteq Task \X Event
      BY <3>1, <3>2, <3>3 DEF Record
    <3>4. ASSUME NEW t \in Task, Plan(t) \/ Execute(t) \/ Handoff(t) \/ Complete(t) \/ Fail(t) \/ Cancel(t)
          PROVE  rows' \subseteq Task \X Event
      BY <3>1, <3>2, <3>3, <3>4 DEF Plan, Execute, Handoff, Complete, Fail, Cancel, Event
    <3>5. CASE ChangeRegistry \/ UNCHANGED vars
      BY <3>5, RegistryStep DEF vars, logVars, TypeOK
    <3>6. QED
      BY <3>4, <3>5 DEF Next
  <2>3. QED
    BY <2>1, <2>2 DEF TypeOK, TasksTyped
<1>3. QED
  BY <1>1, <1>2, Invariant, PTL DEF Spec
=============================================================================
