-------------------------------- MODULE CaseFlow --------------------------------
(***************************************************************************)
(* From the target a caller gives to the indicators that are looked up:    *)
(* an investigation is created by the API or by run_investigation, its     *)
(* target is encrypted, read back by a later process, turned into          *)
(* indicators by _case_context, and the orchestration (Orchestrator) of    *)
(* these ends with results that are encrypted in turn.  One investigation  *)
(* and at most one orchestration; the steps of the row between are those   *)
(* of Investigator and are not repeated here.  (At this commit the API's   *)
(* handlers fail where they construct the store, see Api; the steps here   *)
(* are those that their code has after it.)                                *)
(*                                                                         *)
(*   basis   where the orchestrated target came from: not started, the     *)
(*           caller's memory, the row, the row's ciphertext, or orchestrate *)
(*           was called directly                                           *)
(*   meant   history: the indicators of the target as it was written       *)
(***************************************************************************)
EXTENDS Orchestrator, FieldCrypto

VARIABLES basis, meant

caseVars == <<vars, fieldVars, basis, meant>>

Bases == {"none", "memory", "row", "ciphertext", "direct", "stored"}

CaseTypeOK == TypeOK /\ FieldTypeOK /\ basis \in Bases /\ meant \subseteq Kind

(* The indicators _case_context takes from an intake.                       *)
IntakeKinds == {"email", "phone", "ip_address", "domain", "wallet_address", "transaction_hash"}

(* _case_context: a string that is a JSON object gives its intake's         *)
(* indicators, any of them; nothing gives nothing; anything else, of any    *)
(* type, is "the domain".                                                   *)
CaseContext(value) ==
  CASE value = "case"       -> SUBSET IntakeKinds
    [] value = ""           -> {{}}
    [] OTHER                -> {{"domain"}}

(* orchestrate() may also be called directly, on any indicators, which is   *)
(* then the whole behaviour.                                                *)
CaseInit ==
  /\ Init
  /\ FieldInit
  /\ meant = {}
  /\ \/ basis = "none" /\ given = {} /\ stored = FALSE
     \/ basis = "direct" /\ env = [process |-> "script", mode |-> "development", key |-> NoKey]

HasRow == cells["target"] # Absent

(* run_investigation reaches orchestrate() with this target, of `origin`.   *)
Begin(value, origin) ==
  /\ given' \in CaseContext(value)
  /\ basis' = origin
  /\ UNCHANGED <<stored, stage, running, raised, todo, draft, granted, calls, findings>>

(* The target is written to a new row.                                      *)
WriteTarget(text) ==
  /\ basis = "none" /\ ~HasRow
  /\ Write("target", text)
  /\ meant' \in CaseContext(text)

(* The row is written and the investigation is not started: by POST         *)
(* /v1/investigations, or by a run_investigation that then finds no model   *)
(* provider.                                                                *)
Create ==
  /\ \E text \in Text : WriteTarget(text)
  /\ UNCHANGED <<vars, basis>>

(* run_investigation by a script creates the row and goes on with the       *)
(* record it has in memory.                                                 *)
RunNew ==
  /\ env.process = "script"
  /\ \E text \in Text : WriteTarget(text) /\ Begin(text, "memory") /\ given' = meant'

(* run_investigation of an existing row: the target is what the store reads *)
(* back; when that is None, the caller's, for which the API passes "".      *)
RunAgain ==
  /\ basis = "none" /\ HasRow
  /\ MayRead(cells["target"])
  /\ LET value == ReadBack(cells["target"]) IN
       IF value # "None"
       THEN Begin(value, IF value = "ciphertext" THEN "ciphertext" ELSE "row")
       ELSE IF env.process = "api" THEN Begin("", "row")
       ELSE \E text \in Text : Begin(text, "memory")
  /\ UNCHANGED <<fieldVars, meant>>

(* A step of the orchestration.                                             *)
Orchestrate ==
  /\ basis \in {"memory", "row", "ciphertext", "direct"}
  /\ Next
  /\ UNCHANGED <<fieldVars, basis, meant>>

(* add_evidence and add_finding encrypt the results of an orchestration     *)
(* that returned, or raise.                                                 *)
Store ==
  /\ basis \in {"memory", "row", "ciphertext"}
  /\ stage > Last
  /\ Write("results", "case")
  /\ basis' = "stored"
  /\ UNCHANGED <<vars, meant>>

NextProcess ==
  /\ basis = "none"
  /\ Restart
  /\ UNCHANGED <<vars, basis, meant>>

CaseNext == Create \/ RunNew \/ RunAgain \/ Orchestrate \/ Store \/ NextProcess

CaseSpec == CaseInit /\ [][CaseNext]_caseVars

-----------------------------------------------------------------------------
(* Properties *)

(* What the tests of encryption.py ask of a target read back, "must return  *)
(* plaintext (decrypted at boundary)": it stands for the indicators it was  *)
(* written with.  Not so for a structured case, which is read back as a     *)
(* dict that _case_context does not recognize, so that all of it is looked  *)
(* up as one domain.  (Of scripts, as the API's handlers fail before that.) *)
TargetSurvivesItsRow ==
  basis = "row" /\ env.process = "script" => given = meant

(* A process without a cipher takes ciphertext for the target and sends it  *)
(* to the lookups.  The API in production never does, as it does not start  *)
(* without a key that works.                                                *)
ApiNeverLooksUpCiphertext ==
  env.process = "api" /\ env.mode = "production" => basis # "ciphertext"
=============================================================================
