----------------------------- MODULE AgentRegistry -----------------------------
(***************************************************************************)
(* AgentRegistry and load_approved_roster: the agents of one process, in   *)
(* the order of their registration (a dict keeps it).                      *)
(*                                                                         *)
(*   registered  ids in registration order                                 *)
(*   enabled     those whose record is enabled and ACTIVE; the loader's    *)
(*               records are DRAFT and disabled, and no code changes one   *)
(***************************************************************************)
EXTENDS Naturals, Sequences, FiniteSets

CONSTANTS Agent,        \* agent ids
          Roster,       \* APPROVED_ROSTER, in its order
          Placeholder   \* those of it with a PLACEHOLDER_DEFINITIONS entry and no source file

ASSUME RosterAssumption ==
  /\ Roster \in Seq(Agent)
  /\ \A i, j \in DOMAIN Roster : Roster[i] = Roster[j] => i = j
  /\ Placeholder \subseteq {Roster[i] : i \in DOMAIN Roster}

VARIABLES registered, enabled

registryVars == <<registered, enabled>>

Known == {registered[i] : i \in DOMAIN registered}

RegistryTypeOK ==
  /\ registered \in Seq(Agent)
  /\ enabled \subseteq Agent

RegistryInit ==
  /\ registered = <<>>
  /\ enabled = {}

(* a comes first among the registered agents of S.                          *)
IsFirstOf(a, S) ==
  \E i \in DOMAIN registered :
    /\ registered[i] = a /\ a \in S
    /\ \A j \in 1 .. i - 1 : registered[j] \notin S

(* register() by any caller; of a known id it raises and changes nothing.   *)
Register(a, usable) ==
  /\ a \notin Known
  /\ registered' = Append(registered, a)
  /\ enabled' = IF usable THEN enabled \cup {a} ELSE enabled

(* The agents at these places of the roster, in its order.                  *)
InRosterOrder(places) ==
  [n \in 1 .. Cardinality(places) |->
     Roster[CHOOSE i \in places : Cardinality({j \in places : j =< i}) = n]]

(* A mutant: the loader passes over agents that are registered already.     *)
LoadPassingOver(sources) ==
  LET candidates == {i \in DOMAIN Roster : Roster[i] \in Placeholder \cup sources}
      added      == {i \in candidates : Roster[i] \notin Known}
  IN  /\ registered' = registered \o InRosterOrder(added)
      /\ UNCHANGED enabled

(* load_approved_roster() when `sources` are the roster agents whose file   *)
(* exists and has a name: it goes through the roster, leaves out who has    *)
(* neither source nor placeholder, and ends where register() raises, at the *)
(* first one it finds registered.                                           *)
Load(sources) ==
  LET candidates == {i \in DOMAIN Roster : Roster[i] \in Placeholder \cup sources}
      added      == {i \in candidates : \A j \in candidates : j =< i => Roster[j] \notin Known}
  IN  /\ registered' = registered \o InRosterOrder(added)
      /\ UNCHANGED enabled

Sourced == {Roster[i] : i \in DOMAIN Roster} \ Placeholder

RegistryNext ==
  \/ \E a \in Agent, usable \in BOOLEAN : Register(a, usable)
  \/ \E sources \in SUBSET Sourced : Load(sources)

-----------------------------------------------------------------------------
(* Properties *)

Behind(i) == {Roster[j] : j \in i + 1 .. Len(Roster)}

(* A load that found no file for an agent cannot be repeated once the file  *)
(* is there: as soon as a placeholder is registered, no load brings in an   *)
(* agent that stands behind it in APPROVED_ROSTER, because register() of    *)
(* the placeholder raises first.  Only a registration by hand, of one agent *)
(* at a time, can.                                                          *)
LateSourcesStayOut ==
  [][\A i \in DOMAIN Roster :
       Roster[i] \in Placeholder \cap Known =>
         LET new == {registered'[n] : n \in Len(registered) + 1 .. Len(registered')}
         IN  new \cap Behind(i) = {}
             \/ \E a \in Agent, usable \in BOOLEAN : Register(a, usable)]_registryVars
=============================================================================
