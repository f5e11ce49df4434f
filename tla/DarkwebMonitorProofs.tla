-------------------------- MODULE DarkwebMonitorProofs --------------------------
(***************************************************************************)
(* Proofs about DarkwebMonitor, for any targets, number of overlapping     *)
(* scans and findings.  What the properties say of the file must hold of   *)
(* the copies of running scans too, since each will become the file.       *)
(***************************************************************************)
EXTENDS DarkwebMonitor, TLAPS

(* A scan asks only about targets of its copy, and nothing is counted for a *)
(* target a file does not have.                                             *)
Sound ==
  /\ \A t \in Target : t \notin monitors.has => monitors.count[t] = 0
  /\ \A s \in Scan : /\ scans[s].todo \subseteq scans[s].copy.has
                     /\ \A t \in Target : t \notin scans[s].copy.has => scans[s].copy.count[t] = 0

Settled ==
  /\ settled \subseteq monitors.has
  /\ \A s \in Scan : Running(s) => settled \subseteq scans[s].copy.has

Backed ==
  ~lost => \A t \in Target : /\ monitors.count[t] <= alerts[t]
                             /\ \A s \in Scan : scans[s].copy.count[t] <= alerts[t]

(* With no overlap whoever will write the file next has the counts right.   *)
Smooth ==
  smooth => /\ NoneRuns => monitors.count = alerts
            /\ \A s \in Scan : Running(s) => scans[s].copy.count = alerts
            /\ \A s, r \in Scan : Running(s) /\ Running(r) => s = r

IInv == TypeOK /\ Sound /\ Settled /\ Backed /\ Smooth

(* An empty file is a file.                                                 *)
LEMMA EmptyIsFile == Empty \in File /\ Empty.has = {} /\ Empty.count = NoAlerts
                     /\ NoAlerts \in [Target -> Nat] /\ \A t \in Target : NoAlerts[t] = 0
  BY DEF Empty, File, NoAlerts

(* A scan that is not running has nothing to do.                            *)
LEMMA IdleIsTyped ==
  /\ Idle \in [running : BOOLEAN, copy : File, todo : SUBSET Target]
  /\ ~Idle.running /\ Idle.copy = Empty /\ Idle.todo = {}
  BY EmptyIsFile DEF Idle

(* The initial states satisfy the invariant.                                *)
LEMMA InitInv == Init => IInv
<1> SUFFICES ASSUME Init PROVE IInv
  OBVIOUS
<1> USE EmptyIsFile, IdleIsTyped DEF Init
<1>1. TypeOK
  BY DEF TypeOK
<1>2. Sound /\ Settled
  BY DEF Sound, Settled, Running
<1>3. Backed /\ Smooth
  BY DEF Backed, Smooth, Running, NoneRuns
<1> QED
  BY <1>1, <1>2, <1>3 DEF IInv

(* Counting hits keeps a file a file.                                       *)
LEMMA CountedIsFile ==
  ASSUME NEW file \in File, NEW t \in Target, NEW hits \in Nat
  PROVE  /\ Counted(file, t, hits) \in File
         /\ Counted(file, t, hits).has = file.has
         /\ Counted(file, t, hits).count = [file.count EXCEPT ![t] = file.count[t] + hits]
  BY DEF File, Counted

(* A scan that ends without a word about MONITOR_DB preserves the invariant *)
(* if smooth says that counts may differ now.                               *)
LEMMA EndingPreserves ==
  ASSUME IInv, ~smooth', smooth' \in BOOLEAN,
         scans' \in [Scan -> [running : BOOLEAN, copy : File, todo : SUBSET Target]],
         \A s \in Scan : scans'[s] = scans[s] \/ scans'[s] = Idle,
         UNCHANGED <<monitors, alerts, settled, lost>>
  PROVE  IInv'
<1>1. TypeOK'
  BY DEF IInv, TypeOK
<1>2. Sound' /\ Settled'
  BY IdleIsTyped, EmptyIsFile DEF IInv, Sound, Settled, Running
<1>3. Backed'
  BY IdleIsTyped, EmptyIsFile DEF IInv, TypeOK, Backed
<1>4. Smooth'
  BY DEF Smooth
<1> QED
  BY <1>1, <1>2, <1>3, <1>4 DEF IInv

(* Adding a target preserves the invariant.                                 *)
LEMMA AddPreserves == ASSUME IInv, NEW t \in Target, AddTarget(t) PROVE IInv'
<1> USE DEF IInv
<1>1. /\ t \notin monitors.has
      /\ monitors' = [has |-> monitors.has \cup {t}, count |-> [monitors.count EXCEPT ![t] = 0]]
      /\ settled' = IF NoneRuns THEN settled \cup {t} ELSE settled
      /\ UNCHANGED <<alerts, scans, lost, smooth>>
  BY DEF AddTarget
<1>2. monitors'.count = monitors.count /\ monitors'.has = monitors.has \cup {t}
  BY <1>1 DEF TypeOK, File, Sound
<1>3. TypeOK'
  BY <1>1 DEF TypeOK, File
<1>4. Sound' /\ Backed'
  BY <1>1, <1>2 DEF Sound, Backed
<1>5. Settled'
  BY <1>1, <1>2 DEF Settled, NoneRuns, Running
<1>6. Smooth'
  BY <1>1, <1>2 DEF Smooth, NoneRuns, Running
<1> QED
  BY <1>3, <1>4, <1>5, <1>6

(* Starting a scan preserves the invariant.                                 *)
LEMMA StartPreserves == ASSUME IInv, NEW s \in Scan, StartScan(s) PROVE IInv'
<1> USE DEF IInv
<1>1. CASE monitors.has = {}
  <2>1. monitors' = Empty /\ UNCHANGED <<scans, smooth, alerts, settled, lost>>
    BY <1>1 DEF StartScan
  <2>2. monitors.count = NoAlerts
    BY <1>1 DEF Sound, TypeOK, File, NoAlerts
  <2>3. TypeOK' /\ Sound' /\ Settled' /\ Backed'
    BY <1>1, <2>1, <2>2, EmptyIsFile DEF TypeOK, Sound, Settled, Backed, Running
  <2>4. Smooth'
    BY <2>1, <2>2, EmptyIsFile DEF Smooth, NoneRuns, Running
  <2> QED
    BY <2>3, <2>4
<1>2. CASE monitors.has # {}
  <2>1. /\ ~Running(s)
        /\ scans' = [scans EXCEPT ![s] =
                       [running |-> TRUE, copy |-> monitors, todo |-> monitors.has]]
        /\ smooth' = (smooth /\ NoneRuns)
        /\ UNCHANGED <<monitors, alerts, settled, lost>>
    BY <1>2 DEF StartScan
  <2>2. /\ scans'[s].running /\ scans'[s].copy = monitors /\ scans'[s].todo = monitors.has
        /\ \A r \in Scan : r # s => scans'[r] = scans[r]
    BY <2>1 DEF TypeOK
  <2>3. TypeOK'
    BY <2>1 DEF TypeOK, File, NoneRuns, Running
  <2>4. Sound' /\ Settled' /\ Backed'
    BY <2>1, <2>2 DEF Sound, Settled, Backed, Running
  <2>5. Smooth'
    BY <2>1, <2>2 DEF Smooth, NoneRuns, Running
  <2> QED
    BY <2>3, <2>4, <2>5
<1> QED
  BY <1>1, <1>2

(* An answer preserves the invariant, the last one of a scan included.      *)
LEMMA AnswerPreserves ==
  ASSUME IInv, MonitorAssumption, NEW s \in Scan, NEW t \in Target, NEW hits \in 0 .. MaxHits, Answer(s, t, hits)
  PROVE  IInv'
<1> USE DEF IInv
<1> DEFINE copy == Counted(scans[s].copy, t, hits)
<1>1. /\ Running(s) /\ t \in scans[s].todo
      /\ alerts' = [alerts EXCEPT ![t] = alerts[t] + hits]
      /\ UNCHANGED <<settled, lost, smooth>>
  BY DEF Answer, Stored
<1>2. hits \in Nat
  BY DEF MonitorAssumption
<1>3. scans[s].copy \in File /\ t \in scans[s].copy.has
  BY <1>1 DEF TypeOK, Sound
<1>4. /\ copy \in File
      /\ copy.has = scans[s].copy.has
      /\ copy.count = [scans[s].copy.count EXCEPT ![t] = scans[s].copy.count[t] + hits]
  BY <1>2, <1>3, CountedIsFile
<1>5. alerts' \in [Target -> Nat] /\ \A u \in Target : alerts[u] <= alerts'[u]
  BY <1>1, <1>2 DEF TypeOK
<1>6. ~lost => \A u \in Target : copy.count[u] <= alerts'[u]
  BY <1>1, <1>2, <1>3, <1>4 DEF TypeOK, File, Backed
<1>7. \A u \in Target : u \notin copy.has => copy.count[u] = 0
  BY <1>2, <1>3, <1>4 DEF TypeOK, File, Sound
<1>8. smooth => copy.count = alerts'
  BY <1>1, <1>4 DEF Smooth
<1>9. \A u \in Target, r \in Scan : /\ alerts[u] \in Nat /\ alerts'[u] \in Nat
                                    /\ monitors.count[u] \in Nat /\ scans[r].copy.count[u] \in Nat
  BY <1>5 DEF TypeOK, File
<1> HIDE DEF copy
<1>10. CASE scans[s].todo = {t}
  <2>1. scans' = [scans EXCEPT ![s] = Idle] /\ monitors' = copy
    BY <1>10 DEF Answer, WrittenBack, copy
  <2>2. scans'[s] = Idle /\ \A r \in Scan : r # s => scans'[r] = scans[r]
    BY <2>1 DEF TypeOK
  <2>3. TypeOK'
    BY <1>1, <1>4, <1>5, <2>1, IdleIsTyped DEF TypeOK
  <2>4. Sound'
    BY <1>7, <2>1, <2>2, IdleIsTyped, EmptyIsFile DEF Sound
  <2>5. Settled'
    BY <1>1, <1>4, <2>1, <2>2, IdleIsTyped DEF Settled, Running
  <2>6. Backed'
    <3>1. \A r \in Scan, u \in Target : ~lost => scans'[r].copy.count[u] <= alerts'[u]
      BY <1>5, <1>9, <2>2, IdleIsTyped, EmptyIsFile DEF Backed
    <3> QED
      BY <1>1, <1>6, <2>1, <3>1 DEF Backed
  <2>7. Smooth'
    BY <1>1, <1>8, <2>1, <2>2, IdleIsTyped DEF Smooth, NoneRuns, Running
  <2> QED
    BY <2>3, <2>4, <2>5, <2>6, <2>7
<1>11. CASE scans[s].todo # {t}
  <2>1. scans' = [scans EXCEPT ![s].copy = copy, ![s].todo = scans[s].todo \ {t}] /\ monitors' = monitors
    BY <1>11 DEF Answer, copy
  <2>2. /\ scans'[s].running = scans[s].running /\ scans'[s].copy = copy
        /\ scans'[s].todo = scans[s].todo \ {t}
        /\ \A r \in Scan : r # s => scans'[r] = scans[r]
        /\ scans' \in [Scan -> [running : BOOLEAN, copy : File, todo : SUBSET Target]]
    BY <1>4, <2>1 DEF TypeOK
  <2>3. TypeOK'
    BY <1>1, <1>5, <2>1, <2>2 DEF TypeOK
  <2>4. Sound'
    <3>1. /\ scans'[s].todo \subseteq scans'[s].copy.has
          /\ \A u \in Target : u \notin scans'[s].copy.has => scans'[s].copy.count[u] = 0
      BY <1>4, <1>7, <2>2 DEF Sound
    <3>2. \A r \in Scan \ {s} :
             /\ scans'[r].todo \subseteq scans'[r].copy.has
             /\ \A u \in Target : u \notin scans'[r].copy.has => scans'[r].copy.count[u] = 0
      BY <2>2 DEF Sound
    <3>3. \A u \in Target : u \notin monitors'.has => monitors'.count[u] = 0
      BY <2>1 DEF Sound
    <3> QED
      BY <3>1, <3>2, <3>3, Zenon DEF Sound
  <2>5. Settled'
    BY <1>1, <1>4, <2>1, <2>2 DEF Settled, Running
  <2>6. Backed'
    <3>1. \A r \in Scan, u \in Target : ~lost => scans'[r].copy.count[u] <= alerts'[u]
      BY <1>5, <1>6, <1>9, <2>2 DEF Backed
    <3>2. \A u \in Target : ~lost => monitors'.count[u] <= alerts'[u]
      BY <1>5, <1>9, <2>1 DEF Backed
    <3> QED
      BY <1>1, <3>1, <3>2 DEF Backed
  <2>7. Smooth'
    BY <1>1, <1>8, <2>1, <2>2 DEF Smooth, NoneRuns, Running
  <2> QED
    BY <2>3, <2>4, <2>5, <2>6, <2>7
<1> QED
  BY <1>10, <1>11

(* A failed save of MONITOR_DB preserves the invariant.                     *)
LEMMA SaveFailurePreserves == ASSUME IInv, MonitorAssumption, MonitorSaveFails PROVE IInv'
<1> USE DEF IInv
<1>1. /\ \/ monitors' = Empty /\ settled' = {}
         \/ UNCHANGED <<monitors, settled>>
      /\ smooth' = FALSE /\ lost' = lost
  BY DEF MonitorSaveFails
<1>2. /\ alerts' \in [Target -> Nat]
      /\ \A u \in Target : alerts[u] <= alerts'[u]
  <2>1. CASE alerts' = alerts
    BY <2>1 DEF TypeOK
  <2>2. ASSUME NEW t \in Target, NEW hits \in 0 .. MaxHits, alerts' = Stored(t, hits)
        PROVE  alerts' \in [Target -> Nat] /\ \A u \in Target : alerts[u] <= alerts'[u]
    BY <2>2 DEF Stored, TypeOK, MonitorAssumption
  <2> QED
    BY <2>1, <2>2 DEF MonitorSaveFails
<1>3. /\ scans' \in [Scan -> [running : BOOLEAN, copy : File, todo : SUBSET Target]]
      /\ \A r \in Scan : scans'[r] = scans[r] \/ scans'[r] = Idle
  BY IdleIsTyped DEF MonitorSaveFails, TypeOK
<1>4. TypeOK'
  BY <1>1, <1>2, <1>3, EmptyIsFile DEF TypeOK
<1>5. Sound' /\ Settled'
  BY <1>1, <1>3, IdleIsTyped, EmptyIsFile DEF Sound, Settled, Running
<1>6. Backed'
  <2>1. \A u \in Target, r \in Scan : /\ alerts[u] \in Nat /\ alerts'[u] \in Nat
                                      /\ scans[r].copy.count[u] \in Nat
    BY <1>2 DEF TypeOK, File
  <2>2. \A r \in Scan, u \in Target : ~lost => scans'[r].copy.count[u] <= alerts'[u]
    BY <1>2, <1>3, <2>1, IdleIsTyped, EmptyIsFile DEF Backed
  <2>3. \A u \in Target : ~lost => monitors'.count[u] <= alerts'[u]
    <3>1. \A u \in Target : /\ monitors.count[u] \in Nat
                             /\ alerts[u] \in Nat /\ alerts'[u] \in Nat
      BY <1>2 DEF TypeOK, File
    <3>2. CASE monitors' = Empty
      BY <1>2, <3>1, <3>2, EmptyIsFile
    <3>3. CASE monitors' = monitors
      BY <1>2, <3>1, <3>3 DEF Backed
    <3> QED
      BY <1>1, <3>2, <3>3
  <2> QED
    BY <1>1, <2>2, <2>3 DEF Backed
<1>7. Smooth'
  BY <1>1 DEF Smooth
<1> QED
  BY <1>4, <1>5, <1>6, <1>7

(* Every step preserves the invariant.                                      *)
LEMMA NextInv == MonitorAssumption /\ IInv /\ [Next]_vars => IInv'
<1> SUFFICES ASSUME MonitorAssumption, IInv, [Next]_vars PROVE IInv'
  OBVIOUS
<1>1. CASE UNCHANGED vars
  BY <1>1 DEF vars, IInv, TypeOK, Sound, Settled, Backed, Smooth, Running, NoneRuns
<1>2. ASSUME NEW s \in Scan, AlertSaveFails(s) PROVE IInv'
  <2>1. /\ alerts' = NoAlerts /\ scans' = [scans EXCEPT ![s] = Idle] /\ lost' /\ ~smooth'
        /\ lost' \in BOOLEAN /\ smooth' \in BOOLEAN
        /\ UNCHANGED <<monitors, settled>>
    BY <1>2 DEF AlertSaveFails
  <2>2. TypeOK'
    BY <2>1, IdleIsTyped, EmptyIsFile DEF IInv, TypeOK
  <2>3. Sound' /\ Settled'
    BY <2>1, IdleIsTyped, EmptyIsFile DEF IInv, TypeOK, Sound, Settled, Running
  <2> QED
    BY <2>1, <2>2, <2>3 DEF IInv, Backed, Smooth
<1>3. ASSUME NEW s \in Scan, Cancel(s) PROVE IInv'
  BY <1>3, EndingPreserves, IdleIsTyped DEF Cancel, IInv, TypeOK
<1>4. CASE Crash
  BY <1>4, EndingPreserves, IdleIsTyped DEF Crash
<1> QED
  BY <1>1, <1>2, <1>3, <1>4, AddPreserves, StartPreserves, AnswerPreserves, SaveFailurePreserves
     DEF Next

(* The inductive invariant of DarkwebMonitor.                               *)
THEOREM Invariant == Spec => []IInv
<1>1. MonitorAssumption
  BY MonitorAssumption
<1> QED
  BY <1>1, InitInv, NextInv, PTL DEF Spec

(* The type invariant.                                                      *)
THEOREM TypeCorrect == Spec => []TypeOK
<1>1. IInv => TypeOK
  BY DEF IInv
<1> QED
  BY <1>1, Invariant, PTL

(* A target added while no scan ran survives every scan.                    *)
THEOREM SettledStay == Spec => []SettledTargetsStay
<1>1. IInv => SettledTargetsStay
  BY DEF IInv, Settled, SettledTargetsStay
<1> QED
  BY <1>1, Invariant, PTL

(* No count claims alerts that are not stored.                              *)
THEOREM CountsBacked == Spec => []CountsAreBacked
<1>1. IInv => CountsAreBacked
  BY DEF IInv, TypeOK, File, Backed, CountsAreBacked
<1> QED
  BY <1>1, Invariant, PTL

(* Scans that never overlapped nor failed counted every alert, also of a    *)
(* keyword with several entries.                                            *)
THEOREM SmoothAgree == Spec => []SmoothCountsAgree
<1>1. IInv => SmoothCountsAgree
  BY DEF IInv, Smooth, SmoothCountsAgree
<1> QED
  BY <1>1, Invariant, PTL
=============================================================================
