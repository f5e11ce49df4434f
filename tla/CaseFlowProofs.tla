----------------------------- MODULE CaseFlowProofs -----------------------------
(***************************************************************************)
(* Theorems about Orchestrator, for every set of indicators, with and      *)
(* without the profiler, and about its composition with FieldCrypto,       *)
(* CaseFlow, for every set of keys, whichever of them are strong and       *)
(* usable.  A key that cannot be used in production is never the cipher    *)
(* there, so that a process only writes what it could seal.                *)
(***************************************************************************)
EXTENDS CaseFlow, SequenceTheorems, TLAPS

(* Orchestrator: the agents and their tools                                 *)

(* The checks an agent may queue: each for a capability its class lists.    *)
CheckOf(role) == [capability : AllowedTools[role], about : Kind]

(* When a check applies or not, a sequence over S stays one.                *)
LEMMA WhenType ==
  ASSUME NEW S, NEW kind, NEW given_, NEW checks \in Seq(S)
  PROVE  When(kind, given_, checks) \in Seq(S)
BY DEF When

(* Every agent's checks are for capabilities of its allowed_tools list.     *)
LEMMA ChecksFit ==
  ASSUME NEW role \in Role, NEW g \in SUBSET Kind
  PROVE  Checks(role, g) \in Seq(CheckOf(role))
<1>1. CASE role = "osint"
  <2> DEFINE C == CheckOf("osint")
  <2>1. AllowedTools["osint"] = {"osint_profile.email", "osint_profile.domain",
          "osint_profile.ip", "osint_profile.username", "osint_profile.phone",
          "reputation_score.email", "reputation_score.phone"}
    BY DEF AllowedTools, Role
  <2>2. /\ Ask("reputation_score.email", "email") \in C
        /\ Ask("osint_profile.email", "email") \in C
        /\ Ask("osint_profile.domain", "domain") \in C
        /\ Ask("osint_profile.ip", "ip_address") \in C
        /\ Ask("osint_profile.username", "username") \in C
        /\ Ask("reputation_score.phone", "phone") \in C
    BY <2>1 DEF Ask, CheckOf, Kind, OsintKinds
  <2> HIDE DEF C
  <2>3. /\ <<Ask("reputation_score.email", "email"),
             Ask("osint_profile.email", "email")>> \in Seq(C)
        /\ <<Ask("osint_profile.domain", "domain")>> \in Seq(C)
        /\ <<Ask("osint_profile.ip", "ip_address")>> \in Seq(C)
        /\ <<Ask("osint_profile.username", "username")>> \in Seq(C)
        /\ <<Ask("reputation_score.phone", "phone")>> \in Seq(C)
    BY <2>2
  <2>4. OsintChecks(g) \in Seq(C)
    <3>1. \A kind, s : s \in Seq(C) => When(kind, g, s) \in Seq(C)
      BY WhenType
    <3>2. \A s, t : s \in Seq(C) /\ t \in Seq(C) => s \o t \in Seq(C)
      OBVIOUS
    <3>3. QED
      BY <2>3, <3>1, <3>2 DEF OsintChecks
  <2>5. QED
    BY <1>1, <2>4 DEF Checks, C
<1>2. CASE role = "threat_intel"
  <2> DEFINE C == CheckOf("threat_intel")
             query == IF "domain" \in g THEN "domain" ELSE "ip_address"
  <2>1. AllowedTools["threat_intel"] = {"dehashed_search", "darkweb_paste",
                                        "shodan_domain", "shodan_host"}
    BY DEF AllowedTools, Role
  <2>2. /\ Ask("shodan_domain", "domain") \in C
        /\ Ask("shodan_host", "ip_address") \in C
        /\ Ask("dehashed_search", query) \in C
        /\ Ask("darkweb_paste", query) \in C
    BY <2>1 DEF Ask, CheckOf, Kind, OsintKinds
  <2> HIDE DEF C, query
  <2>3. /\ <<Ask("shodan_domain", "domain")>> \in Seq(C)
        /\ <<Ask("shodan_host", "ip_address")>> \in Seq(C)
        /\ <<Ask("dehashed_search", query), Ask("darkweb_paste", query)>> \in Seq(C)
    BY <2>2
  <2>4. ThreatChecks(g) \in Seq(C)
    <3>1. \A kind, s : s \in Seq(C) => When(kind, g, s) \in Seq(C)
      BY WhenType
    <3>2. \A s, t : s \in Seq(C) /\ t \in Seq(C) => s \o t \in Seq(C)
      OBVIOUS
    <3>3. QED
      BY <2>3, <3>1, <3>2 DEF ThreatChecks, query
  <2>5. QED
    BY <1>2, <2>4 DEF Checks, C
<1>3. CASE role = "crypto"
  <2> DEFINE C == CheckOf("crypto")
  <2>1. AllowedTools["crypto"] = {"trace_wallet"}
    BY DEF AllowedTools, Role
  <2>2. /\ Ask("trace_wallet", "wallet_address") \in C
        /\ Ask("trace_wallet", "transaction_hash") \in C
    BY <2>1 DEF Ask, CheckOf, Kind, CryptoKinds
  <2> HIDE DEF C
  <2>3. /\ <<Ask("trace_wallet", "wallet_address")>> \in Seq(C)
        /\ <<Ask("trace_wallet", "transaction_hash")>> \in Seq(C)
        /\ << >> \in Seq(C)
    BY <2>2
  <2>4. CryptoChecks(g) \in Seq(C)
    <3>1. \A kind, s : s \in Seq(C) => When(kind, g, s) \in Seq(C)
      BY WhenType
    <3>2. \A s, t : s \in Seq(C) /\ t \in Seq(C) => s \o t \in Seq(C)
      OBVIOUS
    <3>3. QED
      BY <2>3, <3>1, <3>2 DEF CryptoChecks
  <2>5. QED
    BY <1>3, <2>4 DEF Checks, C
<1>4. CASE role \notin {"osint", "threat_intel", "crypto"}
  BY <1>4 DEF Checks
<1>5. QED
  BY <1>1, <1>2, <1>3, <1>4

(* Whether a list of checks asks about an indicator, and how that goes with *)
(* putting lists together.                                                  *)
AsksAbout(checks, k) == \E n \in 1 .. Len(checks) : checks[n].about = k

LEMMA AsksAboutJoined ==
  ASSUME NEW S, NEW s \in Seq(S), NEW t \in Seq(S), NEW k,
         AsksAbout(s, k) \/ AsksAbout(t, k)
  PROVE  AsksAbout(s \o t, k)
<1>1. CASE AsksAbout(s, k)
  <2>1. PICK n \in 1 .. Len(s) : s[n].about = k
    BY <1>1 DEF AsksAbout
  <2>2. n \in 1 .. Len(s \o t) /\ (s \o t)[n] = s[n]
    OBVIOUS
  <2>3. QED
    BY <2>1, <2>2 DEF AsksAbout
<1>2. CASE AsksAbout(t, k)
  <2>1. PICK n \in 1 .. Len(t) : t[n].about = k
    BY <1>2 DEF AsksAbout
  <2>2. Len(s) + n \in 1 .. Len(s \o t) /\ (s \o t)[Len(s) + n] = t[n]
    OBVIOUS
  <2>3. QED
    BY <2>1, <2>2 DEF AsksAbout
<1>3. QED
  BY <1>1, <1>2

(* The indicators whose provider an agent must ask.                         *)
Mine(role, g) ==
  CASE role = "osint"        -> IF HasProfiler THEN g \cap OsintKinds ELSE {}
    [] role = "threat_intel" -> g \cap ThreatKinds
    [] OTHER                 -> {}

(* The checks an agent queues leave none of them out.                       *)
LEMMA ChecksCover ==
  ASSUME NEW role \in Role, NEW g \in SUBSET Kind, NEW k \in Mine(role, g)
  PROVE  AsksAbout(Checks(role, g), k)
<1> DEFINE S == {Ask("reputation_score.email", "email"), Ask("osint_profile.email", "email"),
                 Ask("osint_profile.domain", "domain"), Ask("osint_profile.ip", "ip_address"),
                 Ask("osint_profile.username", "username"),
                 Ask("reputation_score.phone", "phone"),
                 Ask("shodan_domain", "domain"), Ask("shodan_host", "ip_address"),
                 Ask("dehashed_search", "domain"), Ask("dehashed_search", "ip_address"),
                 Ask("darkweb_paste", "domain"), Ask("darkweb_paste", "ip_address")}
<1>0. \A kind, s : s \in Seq(S) => When(kind, g, s) \in Seq(S)
  BY WhenType
<1>1. \A s, t : s \in Seq(S) /\ t \in Seq(S) /\ (AsksAbout(s, k) \/ AsksAbout(t, k))
                => AsksAbout(s \o t, k)
  BY AsksAboutJoined
<1>2. \A s : \A kind \in g : When(kind, g, s) = s
  BY DEF When
<1>3. \A c, d : AsksAbout(<<Ask(c, k)>>, k) /\ AsksAbout(<<Ask(c, k), Ask(d, k)>>, k)
  <2> TAKE c, d
  <2>1. Ask(c, k).about = k
    <3>1. Ask(c, k) = [capability |-> c, about |-> k]
      BY DEF Ask
    <3>2. QED
      BY <3>1
  <2>2. Len(<<Ask(c, k)>>) = 1 /\ <<Ask(c, k)>>[1] = Ask(c, k)
    OBVIOUS
  <2>3. Len(<<Ask(c, k), Ask(d, k)>>) = 2 /\ <<Ask(c, k), Ask(d, k)>>[1] = Ask(c, k)
    OBVIOUS
  <2>4. QED
    BY <2>1, <2>2, <2>3 DEF AsksAbout
<1>4. /\ \A x, y \in S : <<x>> \in Seq(S) /\ <<x, y>> \in Seq(S)
      /\ << >> \in Seq(S)
  <2> HIDE DEF S
  <2>1. QED
    OBVIOUS
<1>5. /\ Ask("reputation_score.email", "email") \in S
      /\ Ask("osint_profile.email", "email") \in S
      /\ Ask("osint_profile.domain", "domain") \in S
      /\ Ask("osint_profile.ip", "ip_address") \in S
      /\ Ask("osint_profile.username", "username") \in S
      /\ Ask("reputation_score.phone", "phone") \in S
      /\ Ask("shodan_domain", "domain") \in S
      /\ Ask("shodan_host", "ip_address") \in S
      /\ Ask("dehashed_search", "domain") \in S
      /\ Ask("dehashed_search", "ip_address") \in S
      /\ Ask("darkweb_paste", "domain") \in S
      /\ Ask("darkweb_paste", "ip_address") \in S
  OBVIOUS
<1> HIDE DEF S
<1>6. CASE role = "osint"
  <2> DEFINE a == When("email", g, <<Ask("reputation_score.email", "email"),
                                     Ask("osint_profile.email", "email")>>)
             b == When("domain", g, <<Ask("osint_profile.domain", "domain")>>)
             c == When("ip_address", g, <<Ask("osint_profile.ip", "ip_address")>>)
             d == When("username", g, <<Ask("osint_profile.username", "username")>>)
             e == When("phone", g, <<Ask("reputation_score.phone", "phone")>>)
  <2>1. a \in Seq(S) /\ b \in Seq(S) /\ c \in Seq(S) /\ d \in Seq(S) /\ e \in Seq(S)
    <3>1. /\ <<Ask("reputation_score.email", "email"),
               Ask("osint_profile.email", "email")>> \in Seq(S)
          /\ <<Ask("osint_profile.domain", "domain")>> \in Seq(S)
          /\ <<Ask("osint_profile.ip", "ip_address")>> \in Seq(S)
          /\ <<Ask("osint_profile.username", "username")>> \in Seq(S)
          /\ <<Ask("reputation_score.phone", "phone")>> \in Seq(S)
      BY <1>4, <1>5
    <3>2. QED
      BY <1>0, <3>1
  <2>2. k \in {"email", "domain", "ip_address", "username", "phone"} /\ k \in g
    BY <1>6 DEF Mine, OsintKinds
  <2>3. \/ AsksAbout(a, k) \/ AsksAbout(b, k) \/ AsksAbout(c, k)
        \/ AsksAbout(d, k) \/ AsksAbout(e, k)
    <3>1. CASE k = "email"
      <4>1. a = <<Ask("reputation_score.email", k), Ask("osint_profile.email", k)>>
        BY <1>2, <2>2, <3>1
      <4>2. QED
        BY <1>3, <4>1
    <3>2. CASE k = "domain"
      <4>1. b = <<Ask("osint_profile.domain", k)>>
        BY <1>2, <2>2, <3>2
      <4>2. QED
        BY <1>3, <4>1
    <3>3. CASE k = "ip_address"
      <4>1. c = <<Ask("osint_profile.ip", k)>>
        BY <1>2, <2>2, <3>3
      <4>2. QED
        BY <1>3, <4>1
    <3>4. CASE k = "username"
      <4>1. d = <<Ask("osint_profile.username", k)>>
        BY <1>2, <2>2, <3>4
      <4>2. QED
        BY <1>3, <4>1
    <3>5. CASE k = "phone"
      <4>1. e = <<Ask("reputation_score.phone", k)>>
        BY <1>2, <2>2, <3>5
      <4>2. QED
        BY <1>3, <4>1
    <3>6. QED
      BY <2>2, <3>1, <3>2, <3>3, <3>4, <3>5
  <2>4. OsintChecks(g) = a \o b \o c \o d \o e
    BY DEF OsintChecks
  <2> HIDE DEF a, b, c, d, e
  <2>5. a \o b \in Seq(S) /\ a \o b \o c \in Seq(S) /\ a \o b \o c \o d \in Seq(S)
    BY <2>1
  <2>6. AsksAbout(a \o b \o c \o d \o e, k)
    <3>1. AsksAbout(a, k) \/ AsksAbout(b, k) => AsksAbout(a \o b, k)
      BY <1>1, <2>1
    <3>2. AsksAbout(a \o b, k) \/ AsksAbout(c, k) => AsksAbout(a \o b \o c, k)
      BY <1>1, <2>1, <2>5
    <3>3. AsksAbout(a \o b \o c, k) \/ AsksAbout(d, k) => AsksAbout(a \o b \o c \o d, k)
      BY <1>1, <2>1, <2>5
    <3>4. AsksAbout(a \o b \o c \o d, k) \/ AsksAbout(e, k)
            => AsksAbout(a \o b \o c \o d \o e, k)
      BY <1>1, <2>1, <2>5
    <3>5. QED
      BY <2>3, <3>1, <3>2, <3>3, <3>4
  <2>7. QED
    BY <1>6, <2>4, <2>6 DEF Checks
<1>7. CASE role = "threat_intel"
  <2> DEFINE query == IF "domain" \in g THEN "domain" ELSE "ip_address"
             a == When("domain", g, <<Ask("shodan_domain", "domain")>>)
             b == When("ip_address", g, <<Ask("shodan_host", "ip_address")>>)
             c == <<Ask("dehashed_search", query), Ask("darkweb_paste", query)>>
  <2>1. a \in Seq(S) /\ b \in Seq(S) /\ c \in Seq(S)
    <3>1. /\ <<Ask("shodan_domain", "domain")>> \in Seq(S)
          /\ <<Ask("shodan_host", "ip_address")>> \in Seq(S)
          /\ <<Ask("dehashed_search", "domain"), Ask("darkweb_paste", "domain")>> \in Seq(S)
          /\ <<Ask("dehashed_search", "ip_address"), Ask("darkweb_paste", "ip_address")>> \in Seq(S)
      BY <1>4, <1>5
    <3>2. query = "domain" \/ query = "ip_address"
      OBVIOUS
    <3> HIDE DEF query
    <3>3. QED
      BY <1>0, <3>1, <3>2
  <2>2. k \in {"domain", "ip_address"} /\ k \in g
    BY <1>7 DEF Mine, ThreatKinds
  <2>3. AsksAbout(a, k) \/ AsksAbout(b, k)
    <3>1. CASE k = "domain"
      <4>1. a = <<Ask("shodan_domain", k)>>
        BY <1>2, <2>2, <3>1
      <4>2. QED
        BY <1>3, <4>1
    <3>2. CASE k = "ip_address"
      <4>1. b = <<Ask("shodan_host", k)>>
        BY <1>2, <2>2, <3>2
      <4>2. QED
        BY <1>3, <4>1
    <3>3. QED
      BY <2>2, <3>1, <3>2
  <2>4. ThreatChecks(g) = a \o b \o c
    BY DEF ThreatChecks
  <2> HIDE DEF a, b, c
  <2>5. a \o b \in Seq(S) /\ AsksAbout(a \o b, k)
    BY <1>1, <2>1, <2>3
  <2>6. AsksAbout(a \o b \o c, k)
    BY <1>1, <2>1, <2>5
  <2>7. QED
    BY <1>7, <2>4, <2>6 DEF Checks
<1>8. CASE role \notin {"osint", "threat_intel"}
  BY <1>8 DEF Mine
<1>9. QED
  BY <1>6, <1>7, <1>8

-----------------------------------------------------------------------------
(* The inductive invariant: the agent that runs holds exactly the tools its *)
(* class lists, so that none of its checks is refused.                      *)
Running ==
  running => /\ stage =< Last
             /\ granted[RoleNow] = AllowedTools[RoleNow]
             /\ todo \in Seq(CheckOf(RoleNow))

(* The provider of an indicator has been asked about it, or that is among   *)
(* the checks that are left, or waits for the agent to start.               *)
Looked ==
  ~raised =>
    \A i \in 1 .. Last : \A k \in Mine(Roles[i], given) :
       \/ i > stage
       \/ i = stage /\ (~running \/ AsksAbout(todo, k))
       \/ \E c \in calls : c.about = k /\ c.status \in AskedStatus

IInv == TypeOK /\ GrantsFitTheAgent /\ Running /\ Looked

(* The agents and their order.                                              *)
LEMMA RolesOrder ==
  /\ \A i \in 1 .. Last : Roles[i] \in Role
  /\ \A i, j \in 1 .. Last : Roles[i] = Roles[j] => i = j
  /\ \A role \in Role : AllowedTools[role] \subseteq Capability
  /\ AllowedTools \in [Role -> SUBSET Capability]
<1>1. \A i \in 1 .. Last : Roles[i] \in Role
  BY DEF Last, Roles, Role
<1>2. \A i, j \in 1 .. Last : Roles[i] = Roles[j] => i = j
  BY DEF Last, Roles
<1>3. \A role \in Role : AllowedTools[role] \subseteq Capability
  BY DEF Capability
<1>4. AllowedTools \in [Role -> SUBSET Capability]
  <2> DEFINE e(role) == AllowedTools[role]
  <2>1. AllowedTools = [role \in Role |-> AllowedTools[role]]
    BY DEF AllowedTools
  <2>2. QED
    BY <1>3, <2>1
<1>5. QED
  BY <1>1, <1>2, <1>3, <1>4

(* Findings an agent makes without any tool.                                *)
LEMMA OpeningType ==
  ASSUME TypeOK, NEW role \in Role
  PROVE  Opening(role) \in Seq(Finding)
<1>1. /\ Plain("evidence", "open", FALSE) \in Finding
      /\ Plain("fraud_analysis", "open", TRUE) \in Finding
      /\ Plain("report", "completed", FALSE) \in Finding
  BY DEF Plain, Finding, Role
<1>2. EvidenceIntake \in Seq(Finding) /\ Hypothesis \in Seq(Finding)
  <2>1. \A f \in Finding : <<f>> \in Seq(Finding)
    OBVIOUS
  <2>2. QED
    BY <1>1, <2>1, Zenon DEF EvidenceIntake, Hypothesis
<1>3. Conclusions \in Seq(Finding)
  <2>1. \A i \in DOMAIN findings : findings[i].status # "approved"
    <3>1. \A i \in DOMAIN findings : findings[i] \in Finding
      BY DEF TypeOK
    <3>2. \A f \in Finding : f.status # "approved"
      BY DEF Finding
    <3>3. QED
      BY <3>1, <3>2, Zenon
  <2>2. Approved = SubSeq(findings, 1, 1)
    BY <2>1, Zenon DEF Approved
  <2>3. DOMAIN SubSeq(findings, 1, 1) = 1 .. 1
    BY DEF TypeOK
  <2>4. \A f \in Finding : [i \in 1 .. 1 |-> f] \in Seq(Finding)
    <3>1. \A f \in Finding : [i \in 1 .. 1 |-> f] \in [1 .. 1 -> Finding]
      OBVIOUS
    <3>2. QED
      BY <3>1, SeqDef
  <2>5. QED
    BY <1>1, <2>2, <2>3, <2>4, Zenon DEF Conclusions
<1>4. << >> \in Seq(Finding)
  OBVIOUS
<1>5. QED
  BY <1>2, <1>3, <1>4, Zenon DEF Opening

(* Every step preserves the invariant.                                      *)
LEMMA InvStep == IInv /\ [Next]_vars => IInv'
<1> SUFFICES ASSUME IInv, [Next]_vars PROVE IInv'
  OBVIOUS
<1> USE DEF IInv, input
<1>0. stage \in Nat /\ Last = 6
  BY DEF TypeOK, Last
<1>1. CASE SkipAgent
  <2>1. TypeOK' /\ stage' = stage + 1 /\ stage =< Last
    BY <1>1, <1>0 DEF SkipAgent, TypeOK, Over
  <2>2. GrantsFitTheAgent'
    BY <1>1, <1>0, <2>1, RolesOrder DEF SkipAgent, GrantsFitTheAgent
  <2>3. Mine(RoleNow, given) = {}
    BY <1>1 DEF SkipAgent, Needed, Mine
  <2>4. Looked'
    BY <1>1, <1>0, <2>1, <2>3 DEF SkipAgent, Looked, RoleNow
  <2>5. QED
    BY <1>1, <2>1, <2>2, <2>4 DEF SkipAgent, Running
<1>2. CASE StartAgent
  <2>0. stage \in 1 .. Last /\ RoleNow \in Role
    BY <1>2, <1>0, RolesOrder DEF StartAgent, TypeOK, Over, RoleNow
  <2>1. Checks(RoleNow, given) \in Seq(CheckOf(RoleNow))
    BY <2>0, ChecksFit DEF TypeOK
  <2>2. CheckOf(RoleNow) \subseteq Check
    BY <2>0, RolesOrder DEF CheckOf, Check
  <2>3. todo' \in Seq(Check) /\ todo' \in Seq(CheckOf(RoleNow))
    BY <1>2, <2>1, <2>2 DEF StartAgent
  <2>4. /\ granted' \in [Role -> SUBSET Capability]
        /\ granted'[RoleNow] = AllowedTools[RoleNow]
        /\ \A i \in 1 .. Last : i # stage => granted'[Roles[i]] = granted[Roles[i]]
    <3>1. granted' = [granted EXCEPT ![RoleNow] = granted[RoleNow] \cup AllowedTools[RoleNow]]
      BY <1>2 DEF StartAgent
    <3>2. granted[RoleNow] \subseteq AllowedTools[RoleNow]
      BY <2>0, <1>0 DEF GrantsFitTheAgent, RoleNow
    <3>3. AllowedTools[RoleNow] \subseteq Capability
      BY <2>0, RolesOrder
    <3>4. granted \in [Role -> SUBSET Capability]
      BY DEF TypeOK
    <3>5. \A i \in 1 .. Last : i # stage => Roles[i] # RoleNow
      BY <2>0, RolesOrder DEF RoleNow
    <3>6. QED
      BY <2>0, <3>1, <3>2, <3>3, <3>4, <3>5, RolesOrder
  <2>5. TypeOK'
    BY <1>2, <2>0, <2>3, <2>4, OpeningType DEF StartAgent, TypeOK
  <2>6. GrantsFitTheAgent'
    BY <1>2, <2>0, <2>4 DEF StartAgent, GrantsFitTheAgent, RoleNow
  <2>7. Looked'
    <3>1. \A k \in Mine(RoleNow, given) : AsksAbout(todo', k)
      BY <1>2, <2>0, ChecksCover DEF StartAgent, TypeOK
    <3>2. QED
      BY <1>2, <3>1 DEF StartAgent, Looked, RoleNow
  <2>8. QED
    BY <1>2, <2>0, <2>3, <2>4, <2>5, <2>6, <2>7
       DEF StartAgent, Running, RoleNow
<1>3. CASE RunCheck
  <2> DEFINE check == Head(todo)
  <2>0. stage \in 1 .. Last /\ RoleNow \in Role
    BY <1>3, <1>0, RolesOrder DEF RunCheck, TypeOK, Over, RoleNow
  <2>1. /\ check \in CheckOf(RoleNow) /\ Tail(todo) \in Seq(CheckOf(RoleNow))
        /\ Tail(todo) \in Seq(Check)
    BY <1>3 DEF RunCheck, Running, TypeOK
  <2>2. /\ Listed(RoleNow, check.capability)
        /\ Authorized(RoleNow, check.capability)
        /\ check.capability \in Capability /\ check.about \in Kind
    BY <1>3, <2>0, <2>1, RolesOrder DEF RunCheck, Running, Listed, Authorized, CheckOf
  <2>3. PICK status \in Answers(RoleNow) :
           /\ calls' = calls \cup {Asked(check, status)}
           /\ draft' = Append(draft, Reported(check))
    BY <1>3, <2>2 DEF RunCheck
  <2>4. /\ status \in CallStatus /\ status # "denied"
        /\ Mine(RoleNow, given) # {} => status \in AskedStatus
    <3>1. CASE RoleNow = "osint"
      <4>1. Answers(RoleNow) = OsintStatus
        BY <3>1 DEF Answers
      <4>2. QED
        BY <3>1, <4>1 DEF OsintStatus, ToolInterfaceStatus, CallStatus, Mine, AskedStatus
    <3>2. CASE RoleNow = "threat_intel"
      <4>1. Answers(RoleNow) = ThreatStatus
        BY <3>2 DEF Answers
      <4>2. QED
        BY <3>2, <4>1 DEF ThreatStatus, CallStatus, AskedStatus
    <3>3. CASE RoleNow \notin {"osint", "threat_intel"}
      <4>1. Answers(RoleNow) = ToolInterfaceStatus
        BY <3>3 DEF Answers
      <4>2. QED
        BY <3>3, <4>1 DEF ToolInterfaceStatus, CallStatus, Mine
    <3>4. QED
      BY <3>1, <3>2, <3>3
  <2>5. Asked(check, status) \in ToolCall
    BY <2>0, <2>2, <2>4 DEF Asked, ToolCall
  <2>6. Reported(check) \in Finding
    BY <2>0, <2>2 DEF Reported, Finding
  <2>7. TypeOK'
    <3>1. draft' \in Seq(Finding)
      BY <2>3, <2>6 DEF TypeOK
    <3>2. calls' \subseteq ToolCall
      BY <2>3, <2>5 DEF TypeOK
    <3>3. QED
      BY <1>3, <2>1, <3>1, <3>2 DEF RunCheck, TypeOK
  <2>8. GrantsFitTheAgent'
    BY <1>3, <2>3, <2>4 DEF RunCheck, GrantsFitTheAgent, Asked
  <2>9. Running'
    BY <1>3, <2>1 DEF RunCheck, Running, RoleNow
  <2>10. Looked'
    <3>1. \A k : AsksAbout(todo, k) => k = check.about \/ AsksAbout(todo', k)
      <4> SUFFICES ASSUME NEW k, AsksAbout(todo, k), k # check.about PROVE AsksAbout(todo', k)
        OBVIOUS
      <4>1. PICK n \in 1 .. Len(todo) : todo[n].about = k
        BY DEF AsksAbout
      <4>2. todo \in Seq(Check) /\ todo # <<>> /\ todo' = Tail(todo) /\ n # 1
        BY <1>3, <4>1 DEF RunCheck, TypeOK
      <4>3. n - 1 \in 1 .. Len(Tail(todo)) /\ Tail(todo)[n - 1] = todo[n]
        BY <4>2
      <4>4. QED
        BY <4>1, <4>2, <4>3 DEF AsksAbout
    <3>2. /\ calls \subseteq calls'
          /\ Mine(RoleNow, given) # {} =>
               \E c \in calls' : c.about = check.about /\ c.status \in AskedStatus
      <4>1. Asked(check, status).about = check.about /\ Asked(check, status).status = status
        BY DEF Asked
      <4>2. QED
        BY <2>3, <2>4, <4>1
    <3>3. UNCHANGED <<given, stage, running, raised>>
      BY <1>3 DEF RunCheck
    <3>4. QED
      BY <3>1, <3>2, <3>3 DEF Looked, RoleNow
  <2>11. QED
    BY <2>7, <2>8, <2>9, <2>10
<1>4. CASE Raise
  BY <1>4 DEF Raise, TypeOK, GrantsFitTheAgent, Running, RoleNow,
              Looked
<1>5. CASE AgentEnds
  <2>1. TypeOK' /\ stage' = stage + 1 /\ stage =< Last
    <3>1. findings' \in Seq(Finding) /\ draft' \in Seq(Finding)
      <4>1. findings \in Seq(Finding) /\ draft \in Seq(Finding)
        BY DEF TypeOK
      <4>2. \A s, t : s \in Seq(Finding) /\ t \in Seq(Finding) => s \o t \in Seq(Finding)
        OBVIOUS
      <4>3. << >> \in Seq(Finding)
        OBVIOUS
      <4>4. QED
        BY <1>5, <4>1, <4>2, <4>3, Zenon DEF AgentEnds
    <3>2. stage' = stage + 1 /\ stage =< Last /\ stage' \in 1 .. Last + 1
      BY <1>5, <1>0 DEF AgentEnds, TypeOK, Over
    <3>3. QED
      BY <1>5, <3>1, <3>2 DEF AgentEnds, TypeOK
  <2>2. GrantsFitTheAgent'
    BY <1>5, <1>0, <2>1, RolesOrder DEF AgentEnds, GrantsFitTheAgent
  <2>3. \A k : ~AsksAbout(todo, k)
    BY <1>5 DEF AgentEnds, AsksAbout
  <2>4. Looked'
    <3>1. UNCHANGED <<given, raised, calls>> /\ running /\ ~running'
      BY <1>5 DEF AgentEnds
    <3>2. QED
      BY <1>0, <2>1, <2>3, <3>1 DEF Looked
  <2>5. QED
    BY <1>5, <2>1, <2>2, <2>4 DEF AgentEnds, Running
<1>6. CASE UNCHANGED vars
  BY <1>6 DEF vars, TypeOK, GrantsFitTheAgent, Running, RoleNow,
              Looked
<1>7. QED
  BY <1>1, <1>2, <1>3, <1>4, <1>5, <1>6 DEF Next

(* The initial states satisfy the invariant.                                *)
LEMMA InitInv == Init => IInv
<1> SUFFICES ASSUME Init PROVE IInv
  OBVIOUS
<1>1. TypeOK
  <2>1. << >> \in Seq(Check) /\ << >> \in Seq(Finding)
    OBVIOUS
  <2>2. stage \in 1 .. Last + 1
    BY DEF Init, Last
  <2>3. granted \in [Role -> SUBSET Capability]
    BY DEF Init
  <2>4. QED
    BY <2>1, <2>2, <2>3, Zenon DEF Init, TypeOK
<1>2. GrantsFitTheAgent
  BY RolesOrder DEF Init, GrantsFitTheAgent
<1>3. Looked
  BY DEF Init, Looked
<1>4. QED
  BY <1>1, <1>2, <1>3 DEF Init, IInv, Running

(* The inductive invariant always holds.                                    *)
THEOREM Invariant == Spec => []IInv
  BY InitInv, InvStep, PTL DEF Spec

(* Every variable always has its type.                                      *)
THEOREM TypeCorrect == Spec => []TypeOK
<1>1. IInv => TypeOK
  BY DEF IInv
<1>2. QED
  BY <1>1, Invariant, PTL

(* An agent never holds a permission of another agent, and is never refused *)
(* one of its own.                                                          *)
THEOREM GrantsFit == Spec => []GrantsFitTheAgent
<1>1. IInv => GrantsFitTheAgent
  BY DEF IInv
<1>2. QED
  BY <1>1, Invariant, PTL

(* The invariant leaves no indicator out at the end.                        *)
LEMMA LookedAtAll == IInv => EveryIndicatorIsLookedUp
<1> SUFFICES ASSUME IInv, Completed, NEW k \in given, HasProvider(k)
             PROVE  \E c \in calls : c.about = k /\ c.status \in AskedStatus
  BY DEF EveryIndicatorIsLookedUp
<1>1. stage \in Nat /\ stage > Last /\ ~raised
  BY DEF IInv, TypeOK, Completed, Last
<1>2. PICK i \in 1 .. Last : k \in Mine(Roles[i], given)
  <2>1. CASE k \in ThreatKinds
    <3>1. k \in Mine(Roles[3], given)
      BY <2>1 DEF Mine, Roles
    <3>2. QED
      BY <3>1 DEF Last
  <2>2. CASE HasProfiler /\ k \in OsintKinds
    <3>1. k \in Mine(Roles[2], given)
      BY <2>2 DEF Mine, Roles
    <3>2. QED
      BY <3>1 DEF Last
  <2>3. QED
    BY <2>1, <2>2 DEF HasProvider
<1>3. ~(i > stage) /\ i # stage
  BY <1>1 DEF Last
<1>4. QED
  BY <1>1, <1>2, <1>3 DEF IInv, Looked

(* The lists of orchestrate(), of the agents and of their allowed_tools     *)
(* agree: each indicator that has a provider was put to it.                 *)
THEOREM IndicatorsLookedUp == Spec => []EveryIndicatorIsLookedUp
  BY LookedAtAll, Invariant, PTL

(* Findings of earlier agents stay first, and in order.                     *)
THEOREM FindingsStay == Spec => FindingsOnlyGrow
<1>1. IInv /\ [Next]_vars =>
        [/\ Len(findings') >= Len(findings)
         /\ SubSeq(findings', 1, Len(findings)) = findings]_vars
  <2> SUFFICES ASSUME IInv, Next
               PROVE  /\ Len(findings') >= Len(findings)
                      /\ SubSeq(findings', 1, Len(findings)) = findings
    OBVIOUS
  <2>1. findings \in Seq(Finding) /\ draft \in Seq(Finding)
    BY DEF IInv, TypeOK
  <2>2. CASE AgentEnds
    BY <2>1, <2>2 DEF AgentEnds
  <2>3. CASE findings' = findings
    BY <2>1, <2>3
  <2>4. QED
    BY <2>2, <2>3 DEF Next, SkipAgent, StartAgent, RunCheck, Raise
<1>2. QED
  BY <1>1, Invariant, PTL DEF Spec, FindingsOnlyGrow

-----------------------------------------------------------------------------
(* CaseFlow: the target from its caller to the lookups                      *)

(* The inductive invariant: that of the orchestration, and that every       *)
(* process that runs was allowed to start.                                  *)
CaseIInv ==
  /\ IInv
  /\ FieldTypeOK
  /\ basis \in Bases
  /\ basis = "none" => stage = 1 /\ ~running
  /\ MayRun(env)
  /\ ProductionCellsAreSealed
  /\ meant \subseteq Kind
  /\ ApiNeverLooksUpCiphertext

(* In production a process either raises or has a cipher that is both       *)
(* strong and usable, or none.                                              *)
LEMMA CipherIsSound ==
  ASSUME NEW e \in Env
  PROVE  /\ Cipher(e) \in Key \cup {NoKey}
         /\ e.mode = "production" /\ ~Refuses(e) /\ Cipher(e) # NoKey
              => Cipher(e) \in Strong \cap Usable
BY KeyAssumption DEF Env, Cipher, Refuses

(* What a process writes keeps the type of the columns, and their seal.     *)
LEMMA WriteSeals ==
  ASSUME FieldTypeOK, ProductionCellsAreSealed,
         NEW column \in Column, NEW text \in Text, Write(column, text)
  PROVE  FieldTypeOK' /\ ProductionCellsAreSealed' /\ env' = env
<1>1. env \in Env /\ env.mode \in Mode
  BY DEF FieldTypeOK, Env
<1>2. Written(text) \in Cell
  BY <1>1, CipherIsSound DEF Written, Cell
<1>3. cells' = [cells EXCEPT ![column] = Written(text)] /\ env' = env
  BY DEF Write
<1>4. FieldTypeOK'
  BY <1>2, <1>3 DEF FieldTypeOK
<1>5. Written(text).mode = "production" => Written(text).under \in Strong \cap Usable
  BY <1>1, CipherIsSound DEF Write, MayWrite, Written
<1>6. ProductionCellsAreSealed'
  BY <1>3, <1>5 DEF ProductionCellsAreSealed, FieldTypeOK
<1>7. QED
  BY <1>3, <1>4, <1>6

(* No intake has an indicator that the orchestration does not know.         *)
LEMMA ContextIsKnown ==
  ASSUME NEW value
  PROVE  CaseContext(value) \subseteq SUBSET Kind
BY DEF CaseContext, IntakeKinds, Kind, OsintKinds, ThreatKinds, CryptoKinds

(* Setting the indicators of an orchestration that has not started leaves   *)
(* its invariant alone.                                                     *)
LEMMA BeginKeeps ==
  ASSUME IInv, stage = 1, ~running, NEW value, NEW origin, Begin(value, origin)
  PROVE  IInv' /\ given' \in CaseContext(value) /\ basis' = origin
<1>1. Looked'
  BY DEF Begin, Looked
<1>2. QED
  BY <1>1, ContextIsKnown
     DEF Begin, IInv, TypeOK, GrantsFitTheAgent, Running, RoleNow

(* A target written to a new row keeps the seal and means known indicators. *)
LEMMA WriteTargetSeals ==
  ASSUME FieldTypeOK, ProductionCellsAreSealed, NEW text \in Text, WriteTarget(text)
  PROVE  FieldTypeOK' /\ ProductionCellsAreSealed' /\ env' = env /\ meant' \subseteq Kind
<1>1. "target" \in Column /\ Write("target", text) /\ meant' \in CaseContext(text)
  BY DEF WriteTarget, Column
<1>2. QED
  BY <1>1, WriteSeals, ContextIsKnown

(* Every step preserves the invariant.                                      *)
LEMMA CaseStep == CaseIInv /\ [CaseNext]_caseVars => CaseIInv'
<1> SUFFICES ASSUME CaseIInv, [CaseNext]_caseVars PROVE CaseIInv'
  OBVIOUS
<1> USE DEF CaseIInv
<1>0. "target" \in Column /\ "results" \in Column /\ "case" \in Text
  BY DEF Column, Text
<1>1. CASE Create
  <2>1. FieldTypeOK' /\ ProductionCellsAreSealed' /\ env' = env /\ meant' \subseteq Kind
    BY <1>1, WriteTargetSeals, Zenon DEF Create
  <2>2. [Next]_vars
    BY <1>1 DEF Create
  <2>3. IInv'
    BY <2>2, InvStep
  <2>4. QED
    BY <1>1, <2>1, <2>3
       DEF Create, vars, MayRun, Enabled, Refuses, Cipher,
           ApiNeverLooksUpCiphertext
<1>2. CASE RunNew
  <2>1. PICK text \in Text : WriteTarget(text) /\ Begin(text, "memory")
    BY <1>2 DEF RunNew
  <2>2. FieldTypeOK' /\ ProductionCellsAreSealed' /\ env' = env /\ meant' \subseteq Kind
    BY <2>1, WriteTargetSeals
  <2>3. IInv' /\ basis' = "memory"
    BY <2>1, BeginKeeps DEF WriteTarget
  <2>4. QED
    BY <2>2, <2>3
       DEF Bases, MayRun, Enabled, Refuses, Cipher,
           ApiNeverLooksUpCiphertext
<1>3. CASE RunAgain
  <2> DEFINE value == ReadBack(cells["target"])
  <2>1. /\ MayRead(cells["target"]) /\ cells["target"] \in Cell
        /\ env' = env /\ cells' = cells /\ meant' = meant
    BY <1>0, <1>3 DEF RunAgain, HasRow, FieldTypeOK, fieldVars
  <2>2. env.process = "api" /\ env.mode = "production" => value # "ciphertext"
    BY <2>1 DEF MayRun, Enabled, MayRead, ReadBack, Cell, Text
  <2>3. \/ value = "ciphertext" /\ Begin(value, "ciphertext")
        \/ Begin(value, "row") \/ Begin("", "row")
        \/ \E text \in Text : Begin(text, "memory")
    BY <1>3, Zenon DEF RunAgain
  <2>4. stage = 1 /\ ~running
    BY <1>3 DEF RunAgain
  <2>5. /\ IInv'
        /\ basis' \in {"ciphertext", "row", "memory"}
        /\ basis' = "ciphertext" => value = "ciphertext"
    <3>1. CASE value = "ciphertext" /\ Begin(value, "ciphertext")
      BY <2>4, <3>1, BeginKeeps
    <3>2. CASE Begin(value, "row") \/ Begin("", "row")
      <4>1. PICK read : Begin(read, "row")
        BY <3>2
      <4>2. IInv' /\ basis' = "row"
        BY <2>4, <4>1, BeginKeeps
      <4>3. QED
        BY <4>2
    <3>3. CASE \E text \in Text : Begin(text, "memory")
      <4>1. PICK text \in Text : Begin(text, "memory")
        BY <3>3
      <4>2. IInv' /\ basis' = "memory"
        BY <2>4, <4>1, BeginKeeps
      <4>3. QED
        BY <4>2
    <3>4. QED
      BY <2>3, <3>1, <3>2, <3>3
  <2>6. QED
    BY <2>1, <2>2, <2>5
       DEF Bases, FieldTypeOK, MayRun, Enabled, Refuses, Cipher, ProductionCellsAreSealed,
           ApiNeverLooksUpCiphertext
<1>4. CASE Orchestrate
  <2>1. IInv'
    BY <1>4, InvStep DEF Orchestrate
  <2>2. QED
    BY <1>4, <2>1
       DEF Orchestrate, fieldVars, FieldTypeOK, MayRun, Enabled, Refuses, Cipher,
           ProductionCellsAreSealed, ApiNeverLooksUpCiphertext
<1>5. CASE Store
  <2>1. FieldTypeOK' /\ ProductionCellsAreSealed' /\ env' = env
    BY <1>0, <1>5, WriteSeals, Zenon DEF Store
  <2>2. [Next]_vars
    BY <1>5 DEF Store
  <2>3. IInv'
    BY <2>2, InvStep
  <2>4. QED
    BY <1>5, <2>1, <2>3
       DEF Store, Bases, MayRun, Enabled, Refuses, Cipher,
           ApiNeverLooksUpCiphertext
<1>6. CASE NextProcess
  <2>1. [Next]_vars
    BY <1>6 DEF NextProcess
  <2>2. IInv'
    BY <2>1, InvStep
  <2>3. env' \in Env /\ MayRun(env') /\ cells' = cells /\ basis' = "none" /\ meant' = meant
    BY <1>6 DEF NextProcess, Restart
  <2>4. MayRun(env)'
    BY <2>3 DEF MayRun, Enabled, Refuses, Cipher
  <2>5. stage' = stage /\ running' = running /\ basis = "none"
    BY <1>6 DEF NextProcess, vars
  <2>6. QED
    BY <2>2, <2>3, <2>4, <2>5
       DEF Bases, FieldTypeOK, ProductionCellsAreSealed,
           ApiNeverLooksUpCiphertext
<1>7. CASE UNCHANGED caseVars
  <2>1. IInv'
    BY <1>7, InvStep DEF caseVars
  <2>2. QED
    BY <1>7, <2>1
       DEF caseVars, vars, fieldVars, FieldTypeOK, MayRun, Enabled, Refuses, Cipher,
           ProductionCellsAreSealed, ApiNeverLooksUpCiphertext
<1>8. QED
  BY <1>1, <1>2, <1>3, <1>4, <1>5, <1>6, <1>7 DEF CaseNext

(* The initial states satisfy the invariant.                                *)
LEMMA CaseInitInv == CaseInit => CaseIInv
<1> SUFFICES ASSUME CaseInit PROVE CaseIInv
  OBVIOUS
<1>1. IInv
  BY InitInv DEF CaseInit
<1>2. env \in Env /\ MayRun(env) /\ basis \in {"none", "direct"}
  <2>1. CASE basis = "none"
    BY <2>1 DEF CaseInit, FieldInit
  <2>2. CASE basis = "direct"
    BY <2>2 DEF CaseInit, FieldInit
  <2>3. QED
    BY <2>1, <2>2 DEF CaseInit
<1>3. cells = [c \in Column |-> Absent] /\ meant = {}
  BY DEF CaseInit, FieldInit
<1>4. stage = 1 /\ ~running
  BY DEF CaseInit, Init
<1>5. QED
  BY <1>1, <1>2, <1>3, <1>4
     DEF CaseIInv, FieldTypeOK, Bases, ProductionCellsAreSealed,
         ApiNeverLooksUpCiphertext

(* The inductive invariant always holds.                                    *)
THEOREM CaseInvariant == CaseSpec => []CaseIInv
  BY CaseInitInv, CaseStep, PTL DEF CaseSpec

(* Every variable always has its type.                                      *)
THEOREM CaseTypeCorrect == CaseSpec => []CaseTypeOK
<1>1. CaseIInv => CaseTypeOK
  BY DEF CaseIInv, IInv, CaseTypeOK
<1>2. QED
  BY <1>1, CaseInvariant, PTL

(* Whatever the target was taken for, no indicator made of it that has a    *)
(* provider is dropped on the way to it.                                    *)
THEOREM CaseIndicators == CaseSpec => []EveryIndicatorIsLookedUp
<1>1. CaseIInv => EveryIndicatorIsLookedUp
  BY LookedAtAll DEF CaseIInv
<1>2. QED
  BY <1>1, CaseInvariant, PTL

(* In whatever order processes with whatever keys are started, what is      *)
(* written in production is encrypted under a strong key that works.        *)
THEOREM CellsSealed == CaseSpec => []ProductionCellsAreSealed
<1>1. CaseIInv => ProductionCellsAreSealed
  BY DEF CaseIInv
<1>2. QED
  BY <1>1, CaseInvariant, PTL

(* The API in production never sends ciphertext to the lookups.             *)
THEOREM NoCiphertextLookup == CaseSpec => []ApiNeverLooksUpCiphertext
<1>1. CaseIInv => ApiNeverLooksUpCiphertext
  BY DEF CaseIInv
<1>2. QED
  BY <1>1, CaseInvariant, PTL
=============================================================================
