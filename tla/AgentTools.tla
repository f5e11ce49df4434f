------------------------------ MODULE AgentTools ------------------------------
(***************************************************************************)
(* The static side of the investigation agents of safenestt/agents: which  *)
(* indicators start an agent, which tool checks it queues for them, and    *)
(* which capabilities its allowed_tools list lets it use.                  *)
(***************************************************************************)
EXTENDS Sequences

OsintKinds  == {"email", "domain", "ip_address", "username", "phone"}
ThreatKinds == {"domain", "ip_address"}
CryptoKinds == {"wallet_address", "transaction_hash"}
Kind        == OsintKinds \cup CryptoKinds

(* The order in which orchestrate() considers its agents.                   *)
Roles  == <<"evidence", "osint", "threat_intel", "crypto", "fraud_analysis", "report">>
Role   == {"evidence", "osint", "threat_intel", "crypto", "fraud_analysis", "report"}

(* allowed_tools of each agent class.                                       *)
AllowedTools ==
  [role \in Role |->
     CASE role = "osint" -> {"osint_profile.email", "osint_profile.domain",
                             "osint_profile.ip", "osint_profile.username",
                             "osint_profile.phone", "reputation_score.email",
                             "reputation_score.phone"}
       [] role = "threat_intel" -> {"dehashed_search", "darkweb_paste",
                                    "shodan_domain", "shodan_host"}
       [] role = "crypto" -> {"trace_wallet"}
       [] OTHER -> {}]

Capability == UNION {AllowedTools[role] : role \in Role}

(* A check: the capability and the indicator it is asked about.             *)
Check == [capability : Capability, about : Kind]

When(kind, given, checks) == IF kind \in given THEN checks ELSE <<>>
Ask(capability, kind) == [capability |-> capability, about |-> kind]

(* A mutant: the check of the phone number is forgotten.                    *)
OsintChecksNoPhone(given) ==
  When("email", given, <<Ask("reputation_score.email", "email"),
                         Ask("osint_profile.email", "email")>>)
  \o When("domain", given, <<Ask("osint_profile.domain", "domain")>>)
  \o When("ip_address", given, <<Ask("osint_profile.ip", "ip_address")>>)
  \o When("username", given, <<Ask("osint_profile.username", "username")>>)

OsintChecks(given) ==
  When("email", given, <<Ask("reputation_score.email", "email"),
                         Ask("osint_profile.email", "email")>>)
  \o When("domain", given, <<Ask("osint_profile.domain", "domain")>>)
  \o When("ip_address", given, <<Ask("osint_profile.ip", "ip_address")>>)
  \o When("username", given, <<Ask("osint_profile.username", "username")>>)
  \o When("phone", given, <<Ask("reputation_score.phone", "phone")>>)

(* The two general searches are about the domain if there is one.           *)
ThreatChecks(given) ==
  LET query == IF "domain" \in given THEN "domain" ELSE "ip_address" IN
  When("domain", given, <<Ask("shodan_domain", "domain")>>)
  \o When("ip_address", given, <<Ask("shodan_host", "ip_address")>>)
  \o <<Ask("dehashed_search", query), Ask("darkweb_paste", query)>>

(* A transaction hash is traced only when there is no wallet address.       *)
CryptoChecks(given) ==
  When("wallet_address", given, <<Ask("trace_wallet", "wallet_address")>>)
  \o IF "wallet_address" \in given THEN <<>>
      ELSE When("transaction_hash", given, <<Ask("trace_wallet", "transaction_hash")>>)

Checks(role, given) ==
  CASE role = "osint"        -> OsintChecks(given)
    [] role = "threat_intel" -> ThreatChecks(given)
    [] role = "crypto"       -> CryptoChecks(given)
    [] OTHER                 -> <<>>
=============================================================================
