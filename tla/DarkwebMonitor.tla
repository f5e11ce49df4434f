----------------------------- MODULE DarkwebMonitor -----------------------------
(***************************************************************************)
(* modules/darkweb_monitor.py: watched keywords and their alerts in two    *)
(* JSON files, read and rewritten whole by the coroutines of one event     *)
(* loop.  A coroutine runs undisturbed from one await of the network to    *)
(* the next.  run_scheduled_scan keeps the copy of MONITOR_DB it read at   *)
(* its start over all its awaits and writes that back at its end.          *)
(*                                                                         *)
(*   monitors  MONITOR_DB: its entries and each one's alert_count          *)
(*   alerts    ALERTS_DB: how many alerts the lookups of each entry have   *)
(*             stored there; the file itself tells their keywords only     *)
(*   scans     each run_scheduled_scan: its copy and the targets it has    *)
(*             still to ask about; one that is not running has none        *)
(*   settled   history: targets added, or kept, with no scan running and   *)
(*             no failed save of MONITOR_DB since                          *)
(*   lost      history: a save of ALERTS_DB has failed                     *)
(*   smooth    history: no scan has overlapped another or been cut short,  *)
(*             and no save has failed                                      *)
(***************************************************************************)
EXTENDS Naturals, FiniteSets, Functions

CONSTANTS Target,     \* entries: each append makes a new one, also of a keyword that is there
          Keyword,    \* (client, keyword) pairs
          KeywordOf,  \* the pair an entry is of
          Scan,       \* calls of run_scheduled_scan that may overlap
          MaxHits,    \* findings one lookup may have
          MaxAlerts   \* bound of a run: a target with as many, or counting as many, has no more hits

ASSUME MonitorAssumption ==
  MaxHits \in Nat /\ MaxAlerts \in Nat /\ KeywordOf \in [Target -> Keyword]

VARIABLES monitors, alerts, scans, settled, lost, smooth

vars == <<monitors, alerts, scans, settled, lost, smooth>>

File == [has : SUBSET Target, count : [Target -> Nat]]

NoAlerts == [t \in Target |-> 0]

(* What _load_db makes of a file that is missing or does not parse.         *)
Empty == [has |-> {}, count |-> NoAlerts]

Idle == [running |-> FALSE, copy |-> Empty, todo |-> {}]

TypeOK ==
  /\ monitors \in File
  /\ alerts \in [Target -> Nat]
  /\ scans \in [Scan -> [running : BOOLEAN, copy : File, todo : SUBSET Target]]
  /\ settled \subseteq Target
  /\ lost \in BOOLEAN
  /\ smooth \in BOOLEAN

Init ==
  /\ monitors = Empty
  /\ alerts = NoAlerts
  /\ scans = [s \in Scan |-> Idle]
  /\ settled = {}
  /\ lost = FALSE
  /\ smooth = TRUE

Running(s) == scans[s].running
NoneRuns   == \A s \in Scan : ~Running(s)

-----------------------------------------------------------------------------
(* Steps between two awaits *)

(* add_monitor_target loads, appends and saves without an await, whether or *)
(* not the keyword has an entry: t is an entry that the file does not have. *)
AddTarget(t) ==
  /\ t \notin monitors.has
  /\ monitors' = [has |-> monitors.has \cup {t}, count |-> [monitors.count EXCEPT ![t] = 0]]
  /\ settled' = IF NoneRuns THEN settled \cup {t} ELSE settled
  /\ UNCHANGED <<alerts, scans, lost, smooth>>

(* run_scheduled_scan up to its first await: nothing keeps it from starting *)
(* while another is running.  Of an empty file it writes back the copy.     *)
StartScan(s) ==
  /\ ~Running(s)
  /\ IF monitors.has = {}
     THEN monitors' = Empty /\ UNCHANGED <<scans, smooth>>
     ELSE /\ scans' = [scans EXCEPT ![s] =
                         [running |-> TRUE, copy |-> monitors, todo |-> monitors.has]]
          /\ smooth' = (smooth /\ NoneRuns)
          /\ UNCHANGED monitors
  /\ UNCHANGED <<alerts, settled, lost>>

(* A mutant: a lookup with several findings counts once.                    *)
CountedOnce(file, t, hits) == [file EXCEPT !.count[t] = @ + IF hits > 0 THEN 1 ELSE 0]

(* target["alert_count"] += len(findings), in the copy.                     *)
Counted(file, t, hits) == [file EXCEPT !.count[t] = @ + hits]

(* The bound of a run.                                                      *)
Room(s, t, hits) ==
  alerts[t] + hits <= MaxAlerts /\ scans[s].copy.count[t] + hits <= MaxAlerts

(* A mutant: findings of a keyword that has alerts are counted only.        *)
StoredOnce(t, hits) == IF alerts[t] > 0 THEN alerts ELSE [alerts EXCEPT ![t] = hits]

(* _store_alerts loads, appends and saves after the await, in one step.     *)
Stored(t, hits) == [alerts EXCEPT ![t] = @ + hits]

(* A mutant: a scan writes back the targets that it had findings for.       *)
WrittenBackFound(copy) == [copy EXCEPT !.has = {t \in copy.has : copy.count[t] > 0}]

(* The last statement of a scan saves its copy.                             *)
WrittenBack(copy) == copy

(* The lookup of one target answers, or fails, which is no findings: alerts *)
(* are stored, the copy's count raised, and after the last target the copy  *)
(* is written over MONITOR_DB.                                              *)
Answer(s, t, hits) ==
  LET copy == Counted(scans[s].copy, t, hits) IN
    /\ Running(s) /\ t \in scans[s].todo
    /\ Room(s, t, hits)
    /\ alerts' = Stored(t, hits)
    /\ IF scans[s].todo = {t}
       THEN /\ scans' = [scans EXCEPT ![s] = Idle]
            /\ monitors' = WrittenBack(copy)
       ELSE /\ scans' = [scans EXCEPT ![s].copy = copy, ![s].todo = @ \ {t}]
            /\ UNCHANGED monitors
    /\ UNCHANGED <<settled, lost, smooth>>

-----------------------------------------------------------------------------
(* Failures.  write_text empties a file before it fills it: a write that    *)
(* fails, or that the process dies in, leaves what _load_db takes for an    *)
(* empty file, or the file as it was when it failed before that.            *)

(* The coroutine that saves MONITOR_DB, an add or a scan at its end, fails  *)
(* to; or it does not come to it, having stored its last alerts.            *)
MonitorSaveFails ==
  /\ \/ scans' = scans /\ alerts' = alerts
     \/ \E s \in Scan, t \in Target, hits \in 0 .. MaxHits :
          /\ Running(s) /\ scans[s].todo = {t}
          /\ Room(s, t, hits)
          /\ alerts' = Stored(t, hits)
          /\ scans' = [scans EXCEPT ![s] = Idle]
  /\ \/ monitors' = Empty /\ settled' = {}
     \/ UNCHANGED <<monitors, settled>>
  /\ smooth' = FALSE
  /\ UNCHANGED lost

(* The alerts of every client are gone, and the scan ends.                  *)
AlertSaveFails(s) ==
  /\ Running(s)
  /\ MaxHits > 0
  /\ alerts' = NoAlerts
  /\ scans' = [scans EXCEPT ![s] = Idle]
  /\ lost' = TRUE
  /\ smooth' = FALSE
  /\ UNCHANGED <<monitors, settled>>

(* A scan is cancelled at an await: its alerts stay, its counts are lost.   *)
Cancel(s) ==
  /\ Running(s)
  /\ scans' = [scans EXCEPT ![s] = Idle]
  /\ smooth' = FALSE
  /\ UNCHANGED <<monitors, alerts, settled, lost>>

(* The process dies between two steps; the next one finds the files.        *)
Crash ==
  /\ ~NoneRuns
  /\ scans' = [s \in Scan |-> Idle]
  /\ smooth' = FALSE
  /\ UNCHANGED <<monitors, alerts, settled, lost>>

Next ==
  \/ \E t \in Target : AddTarget(t)
  \/ \E s \in Scan : StartScan(s) \/ AlertSaveFails(s) \/ Cancel(s)
  \/ \E s \in Scan, t \in Target, hits \in 0 .. MaxHits : Answer(s, t, hits)
  \/ MonitorSaveFails
  \/ Crash

Spec == Init /\ [][Next]_vars

-----------------------------------------------------------------------------
(* Properties *)

(* An entry that was added while no scan was running is never lost, short   *)
(* of a failed save: every scan that writes MONITOR_DB back started later   *)
(* and has it in its copy.  (An entry added during a scan is lost when that *)
(* scan ends.)                                                              *)
SettledTargetsStay == settled \subseteq monitors.has

(* alert_count never claims alerts that lookups of the entry have not put   *)
(* into ALERTS_DB, unless a save of the alerts failed, however scans overlap, are cut short or write *)
(* stale copies back.                                                       *)
CountsAreBacked ==
  ~lost => \A t \in monitors.has : monitors.count[t] <= alerts[t]

(* The counts, or the stored alerts, of all entries of a keyword; an entry   *)
(* that the file does not have counts nothing.                              *)
Total(counts, k) == SumFunctionOnSet(counts, {t \in Target : KeywordOf[t] = k})

(* And as long as scans ran one after the other to their ends, no save has  *)
(* failed and none is running, a keyword has as many alerts in ALERTS_DB as *)
(* its entries in MONITOR_DB count together, however many it has: each is   *)
(* looked up, and what both find is stored twice.  (Overlapping scans store *)
(* the same alerts twice and count them once.)                              *)
SmoothCountsAgree ==
  smooth /\ NoneRuns =>
    \A k \in Keyword : Total(monitors.count, k) = Total(alerts, k)
=============================================================================
