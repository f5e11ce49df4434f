# A TLA+ model of SafeNestT AI

SafeNestT AI (`src/safenestt`) runs fraud investigations for several tenants: an HTTP API
authenticates a key, limits its rate, stores an investigation in PostgreSQL under row level
security, lets six agents call tools, and records findings, evidence and a hash-chained audit
log. This directory models its core in TLA+, checks it with TLC and proves what it can with
TLAPS. `PROJECT.json` maps every definition to the source lines it stands for.

## Inventory

| Part | State it keeps | Operations | Hard behaviour | What makes it correct |
|---|---|---|---|---|
| Investigation workflow (`investigations/investigator.py`, `records.py`, `reality.py`) | row, evidence, findings; the caller's record in memory | `run_investigation`, `mark` | each store call is a transaction: overlapping calls, aborted transactions, a call that dies half-way, a requeue | the row follows `TRANSITIONS`; findings cite stored evidence; a return value agrees with the row |
| Investigation store (`investigations/store.py`) | `investigations`, `evidence`, `findings` | get, create, update, add, list | status written blindly over the row; `error` written only when set | as above |
| Rate limiter (`security/rate_limit.py`) | one counter row per (scope, key) | `check`: four SQL statements and a commit | READ COMMITTED interleavings, the row lock, a strict comparison at the window's end, a lost connection | a window admits at most its limit; denied only when spent |
| API keys (`security/api_keys.py`) | key rows, audit rows | create, validate, revoke, rotate, clean up | rotation is three transactions; validation writes after a long Argon2 check | revoked stays revoked; audit rows explain every deactivation |
| Audit chain (`persistence/repositories.py`) | `audit_events` | record, list_all, verify | previous hash read without a lock, and under row level security | an untouched chain verifies; what a hash was built on cannot be changed behind it |
| Tenant context (`persistence/engine.py`, `rls.py`, functions of `migrate.py`) | a row per backend process | establish, clear, read; sessions that do neither | pooled connections, rollback of a context, expiry, keys that end | a session sees its own tenant and no other |
| Orchestration (`investigation/orchestrator.py`, `agents/*`) | findings, grants, tool call records | `orchestrate`, six agents | tables of capabilities in several files; a tool that raises | every indicator is looked up by an agent that may |
| Tool interface, permissions, approvals (`tools/interface.py`, `security/permissions.py`, `approval.py`, `pipeline.py`) | grants, approvals (twice), the in-memory limiter | request, decide, authorize, execute | two stores of approvals, two forms of ids, expiry | risky tools run only by an approval that stands |
| HTTP API (`api/app.py`) | none of its own | create, start, read | threads; buckets shared by keys | limits and answers as documented |
| Migration (`persistence/migrate.py`, `wait_for_migrate.py`, `security/setup_security.py`) | the database's catalogue | migrate, wait, harden | failure between transactions, reruns | no table readable without its policies |
| Field encryption (`security/encryption.py`) | none; the key and the mode of a process | encrypt, decrypt | processes with other keys, strong keys that do not work, values that parse as JSON | nothing in plaintext in production; what is read is what was meant |
| Task orchestrator (`orchestrator.py`), registry and loader (`registry.py`, `agent_loader.py`), audit loggers (`security/audit.py`, `persistence/store.py`) | tasks and agents in memory, a list or an uncommitted session of audit rows | plan, execute, handoff, complete, fail, cancel; register, load | operations in any order; record() raises after the change; repeated event ids; repeated loads | only planned, enabled agents execute |
| Dark web monitor (`modules/darkweb_monitor.py`) | two JSON files | add a target, the scheduled scan | overlapping coroutines with stale copies, torn writes, crashes | targets are kept; counts agree with alerts |
| Generic repositories and models, model providers, tool adapters, redaction, secrets, memory | tables, static tables or none | lookups, conversions, HTTP | answers of services | see "Not modelled" |

How they interact: the API validates the key (ApiKeys), takes tokens (Api, PgRateLimiter), and
calls `run_investigation` (Investigator), which calls `orchestrate` (Orchestrator), whose agents
go through the tool interface and the permission manager. The store encrypts the target and what
the orchestration returns (FieldCrypto, CaseFlow). Store and audit chain work in
sessions that carry the tenant context (TenantContext); the catalogue they rely on is made
by the migration job (Deployment). The parts share the database and nothing else: no queues, no
callbacks. All concurrency is that of API threads and worker processes. The task orchestrator and the
dark web monitor stand apart: no other module of the repository calls them, but for the monitor's
lookups, which the threat intelligence adapter uses. The monitor is the one part that runs as coroutines of an event loop.

## Modules

| Module | Models | State and actions |
|---|---|---|
| `InvestigationStatus` | `VALID_STATUSES`, `TRANSITIONS`, `mark` | operators only |
| `StatusLifecycle` | what `mark` promises of one record | abstract: `status` moves along `TRANSITIONS` |
| `Investigator` | `run_investigation` for one investigation by several workers | `row`, `evidence`, `findings` are the committed tables; per worker the record in memory and what it still has to store. One store call is one action; `Abort` is a transaction that fails |
| `Clock` | the hosts' clock, the length of a window | extended by the three limiters below |
| `RateWindow` | what a limiter promises | abstract: window start and requests used, one atomic check |
| `PgRateLimiter` | `PostgreSQLRateLimiter.check` | committed row, snapshot and lock; each SQL statement is an action |
| `ApiKeys` | `APIKeyStore` | key rows, audit rows; per worker where its call is. A transaction's write and commit are one action, as row locks only delay |
| `AuditChain` | `AuditEventRepository` | committed table, each session's pending rows, the id sequence, and as history the rows as they were recorded. A hash is the sequence of what was hashed; `decision` stands for the hashed columns, `risk_level` for the others. `Edit` and `Delete` are an owner of the database behind the code's back. A row's place in a query's order is the number of rows up to it |
| `AgentTools`, `Orchestrator` | `orchestrate`, the six agents, their tools | grants, the running agent's checks, findings; a check is an action, its answer a choice |
| `Api` | the authenticated routes | clock, valid keys, buckets per tenant and rule, each thread's request |
| `TenantContext` | context row, policies' view, sessions | committed and pending context per connection, `NOW()` of its transaction, sessions |
| `ApprovalGate` | approvals, manager, pipeline, tool interface, in-memory limiter | records, `approval_store`, grants, limiter entries, the last answer |
| `Deployment` | the catalogue under migration and hardening; the waiting container | tables, privileges, policies; a transaction of the job or a statement of the script is an action |
| `SecuredDatabase` | sessions on a database that is being migrated | composes `TenantContext` and `Deployment`: a step of one leaves the other alone, and sessions need the role and the functions the job makes |
| `FieldCrypto` | `encrypt_value`, `decrypt_value`, the API's refusal to start | the running process's mode and key; per encrypted column the text and the key it is under. A process takes over by `Restart` |
| `CaseFlow` | a target from its caller to the lookups | composes `Orchestrator` and `FieldCrypto`; `basis` says where the orchestrated target came from |
| `AgentRegistry` | `AgentRegistry`, `load_approved_roster` | registered agents in order, which of them are usable |
| `TaskOrchestrator` | `Orchestrator` of `orchestrator.py` with its registry and logger | status, agent and handoff of each task; the uncommitted session and whether it has failed. One operation is one action, with the exits a raising `record()` gives it |
| `DarkwebMonitor` | `darkweb_monitor.py` | the two files, each running scan's copy and what it still has to ask. A step is what runs between two awaits |

Compositions: `SecuredDatabase` and `CaseFlow` as above; `TaskOrchestrator` extends `AgentRegistry`;
`Investigator` uses `InvestigationStatus` and implements `StatusLifecycle`;
`PgRateLimiter` and `ApprovalGate` (the in-memory limiter)
each implement `RateWindow`; `Orchestrator` uses `AgentTools`. `MC*` modules hold model values.
Definitions commented "A mutant" are used by no specification; they are the plausible bugs that
each property was seen to catch.

### Decisions that a reader may question

- Investigator serves one investigation of one tenant: nothing in the workflow relates two.
- `Build` creates evidence and findings and runs the reality check in one step. The check
  reads evidence rows, but the ids it asks for were drawn in the same call, so no other
  worker can have stored them. The fallback finding is checked after storing and cites nothing.
- In Orchestrator every agent sees all indicators, because `{"indicators": osint_indicators,
  **inputs}` lets `inputs` win; a phone number that is no string makes the profiler raise, and
  nothing catches it; the threat adapter turns "partial" into "success".
- In Api a check of the limiter is atomic. PgRateLimiter's refinement of RateWindow is
  what justifies it.
- In ApprovalGate the pipeline's `enforce()` is either that of PostgreSQL, whose rows are elsewhere and whose answer
  is any, or the in-memory one by its entry.
- In AuditChain the owner of the database leaves `chain_hash` alone: the chain has no secret, so that who computes it
  again from an edited row on is not seen by any verification. Nor does `Edit` give a row another event id.
- In TenantContext a scope commits at its end only; the commits in the middle of a scope occur
  in tests. A lost connection is a rollback, and a backend that reuses its pid finds the row
  as after one.
- In ApprovalGate the two forms of approval id are a field `kind`. For tool ids as the repository
  has them the two strings never agree. Records are created with either kind of id, as
  `repository.create` takes any. SecurityPipeline is constructed
  by `run_investigation` but not called there.
- `ReturnMatchesRow` and `FollowsLifecycle` of Investigator are about behaviours in which no two calls have
  overlapped so far (`OneCaller`); `inv_final` shows what overlapping calls do to the lifecycle.
- In CaseFlow the row has one target and one results column; evidence and findings are encrypted
  alike. The API's steps are those its handlers have after constructing the store, which fails at this
  commit (below), so that for the API they say what the code would do once the constructor is repaired.
- FieldCrypto takes a key by two facts, whether `_is_valid_key` accepts it and whether Fernet does. They are
  independent: a passphrase of 40 characters is strong and no Fernet key; a Fernet key may contain "dev".
- TaskOrchestrator's `Raises` is the repeated event id, a lost connection or a session that failed before:
  the flush rolls back what the session held, and as nothing calls `rollback()`, every later use raises.
- In DarkwebMonitor a failed or interrupted `write_text` leaves an empty file, which `_load_db` takes for no
  targets; one that fails before that leaves the file as it was. Entries are told apart in the model, and several may
  watch one keyword (`KeywordOf`), as `add_monitor_target` looks for none. A scan that loses its file this way goes on with its copy in memory and writes that back at its end.
- In SecuredDatabase a connection is opened under the role as soon as the job has made it. The policies of
  `audit_events` show rows without an investigation to everyone; they belong to no tenant and are left out of
  `Reads`.
- In Deployment a transaction of the job is one step: PostgreSQL's DDL is transactional.
  `ensure_schema` is run by the API as `safenestt_app`, which may create nothing in
  `public` (PostgreSQL 16) and owns no table; it changes nothing, and its errors are swallowed.

## Runs

Each run asks one question; "about" in `PROJECT.json` says which. Bounds are constants named
in the module or the configuration.

| Run | Instance | Shows |
|---|---|---|
| `inv_calls` | 2 workers, 3 calls, 2 kinds of results | findings cite stored evidence; none is ever EVIDENCE_SUPPORTED (the check comes before storing); COMPLETED rows have findings; an error is never cleared; without overlap the row follows the lifecycle and a call returns what the row says; an interrupted investigation stays where it was |
| `rate_safe` | 3 workers, 4 checks, 4 times, fair | at most Limit per window, denied only when spent, refinement of RateWindow; no check waits for ever |
| `keys_safe` | 2 workers, 2 keys, 4 calls | revocation is immediate and final, audit matches rows and says why each is inactive, rotation replaces |
| `chain_tenants` | 1 session, 3 events, own or shared, 2 tenants, a limit of 2, 1 edited row | an untouched list verifies for every tenant for whom no shared event was hashed onto rows it does not see; a list that verifies lacks nothing its hashes were built on |
| `case_lookup` | all combinations of indicators, 3 keys, 2 modes, any number of processes, with the profiler | a provider is asked about each indicator there is one for; production stores nothing in plaintext nor under a bad key; the API never looks up ciphertext |
| `api_windows` | 2 threads, 2 tenants, 5 requests, 4 times | the rule for starts never refuses what the other admits |
| `db_tenants` | 2 sessions, 2 connections, 2 tenants with a key each, 2 times, 3 tables, unbounded reruns | a scope sees its tenant only; sight is stable and vouched for; reads of protected tables are vouched for at every point of the migration; success is complete whatever the hardening script did, the context table stays private |
| `gate_gate` | 1 risky agent, 2 organizations, 3 times | decisions are final; the pipeline needs a standing approval, and no request makes one; the in-memory limiter is a window |
| `task_handoff` | 1 task, 4 agents, a roster of 3, both loggers | only planned agents execute; with the persistent logger a task handed over is never reviewed; later loads stop at placeholders |
| `monitor_scans` | 2 scans, 2 entries of one keyword, up to 2 alerts each | settled targets stay; counts never exceed the alerts, and together equal them while scans take turns |
| `inv_final` | 2 workers, 2 calls | violated: an overlapping call writes over COMPLETED (a test says that the state machine rejects it) |
| `chain_concurrent` | 2 sessions, 1 tenant | violated: two writers chain to the same row, and the untouched chain does not verify (a test says that integrity is maintained) |

Why the bounds suffice: the properties relate at most two callers to one row or file, so two
workers (three where a third waits for a lock held while a second is queued) reach every conflict, and
the clocks run over at least one complete window and into the next. Two tenants, keys and
connections are the least for one to be taken for another. `inv_calls` has three calls, so that two overlap and a
third requeues what they left; its two results are none at all and the largest of a
phone number, with evidence. In `db_tenants` an hour is one unit: a context expires at the second time, and a key ends
before, at or after it. `task_handoff` has one task, but a trail that others broke is among its states by the lost
connection; its roster has two agents with a source behind a placeholder, so that a load of both is
told from a registration by hand, and only one agent can do what is asked for. In `monitor_scans` a lookup may have more than one hit and a target may be found twice. In `chain_tenants`
`MaxEdits` bounds the rows that are not as recorded at a time, and one event more than the limit is recorded.
CaseFlow, Deployment and TaskOrchestrator have no bound on length: their state is finite. The theorems cover every size.

`StartBucketNeverBinds` needs `StartLimit >= 2 * CreateLimit +` the requests in flight: with the
defaults of 10 and 30 it holds for up to ten requests of a tenant at a time.

### Other disagreements met while modelling

Five configurations beside the runs refute what the repository says of itself; each property stands in its module
with the claim it states, and TLC's counterexample is a few steps long:

| configuration | property | what is said, and what happens |
| --- | --- | --- |
| `MCAuditChain_edited.cfg` | `HistoryIsTamperEvident` | repositories.py:264, "tampering with any historical row invalidates all subsequent hashes": five columns are hashed, and a change of risk_level, resource, detail, meta or investigation_id in a row that others follow verifies |
| `MCAuditChain_shared.cfg` | `EveryChainVerifies` | test_persistence.py:399, the chain holds "across multiple events": an event without an investigation is hashed onto a row the other tenant does not see, whose untouched list does not verify, with one writer at a time |
| `MCCaseFlow_reread.cfg` | `TargetSurvivesItsRow` | test_encryption.py:96, "Must return plaintext": a script that takes up a structured case from its row gets a dict and orchestrates one domain instead |
| `MCApi_perkey.cfg` | `LimitsAreThoseOfKeys` | app.py:105, "per-API-key rate limiting": the dependency's pair is unpacked the wrong way round (212), and a key is refused for another's requests |
| `Deployment_hardened.cfg` | `AuditStaysInsertOnly` | setup_security.py:3, "ONCE", "permanent": every later migration grants UPDATE and DELETE on audit_events back (migrate.py:158) |

The models also reproduce the following, each of which follows from one or two lines.

- Every handler of `api/app.py` (215, 239, 273, ...) constructs the store with
  `api_key_hash=`, which `PersistentInvestigationStore` does not take: an admitted request is
  answered 500 (`Handle`).
- A start also spends a token of the creations' bucket, so that the documented 30 starts a minute are 10.
- No provider traces wallets or transactions: `ToolInterface` has no manifest for the crypto agent's capabilities, so
  that every one of its calls is recorded as DENY `missing_manifest`. `EveryIndicatorIsLookedUp` is about the others.
- Only the osint agent's calls with the profiler installed are recorded as ALLOW, which is what `run_investigation`
  stores evidence for; the other agents record their tool's own status.
- `rotate_key` ignores `revoke_key`'s False, so a rotation may be on record without a revocation,
  against its comment (api_keys.py:243).
- A tenant's audit row chains to the newest row that tenant can see, not to the previous row of the
  table (repositories.py:262). Deleted rows at the end of a list, and rows beyond the limit of `list_all`, leave no
  trace in a verification.
- `ToolInterface.execute` asks the manager only and does not see a record that was rejected.
  `is_approved` calls `expire` for a late approval, which changes nothing as the record is
  not PENDING.
- `orchestrate` hands the first finding to the report agent as approved when none is.
- Tables dropped and made again would carry the default
  privileges before they have policies; the model drops no tables.
- `validate_key` reads and writes `use_count` without a lock, so that two validations may count one use; when
  `run_investigation` raises, `start_investigation` (app.py:260) would write the record it read before the call over the row.
- `test_encryption.py:5` says "Plaintext is never stored in the database": true in production
  (`ProductionCellsAreSealed`), while without a key in development plaintext is stored. Listings raise on such rows
  once a key is set.
- `PersistentStore` makes sessions that nothing commits, and nothing rolls back a failed one; event ids of
  the task orchestrator repeat, so that a second plan of one task ends the trail of all.
- No code enables an agent of the roster, so `select_agent` finds none of them; `handoff()` takes any that is
  registered. `orchestrator/agency.py` cannot be imported: `orchestrator.py` comes before the directory.
- `scan_*_sync` return no findings inside a running event loop.
- `load_approved_roster` cannot be called twice on one registry: the first agent it registered raises.
- Nothing creates `_migration_complete`, for which `wait_for_migrate.py` polls
  (`ApiNeverStarts`).

## Fairness

`FairSpec` of PgRateLimiter is weak fairness of each worker's started call:
a thread that runs goes on running, and each statement or wait for a lock ends
in a result or an error, as PostgreSQL ends every transaction. Starting a call, the clock
and failures carry no fairness. The other specifications are safety only: agents, tasks and scans
are driven by callers and services that owe nothing.

## Proofs

TLAPS checks the following for every value of the constants. Together they state every safety property that a
passing run checks, and the type invariant of every component.

- `InvestigatorProofs`: `CitedEvidenceIsStored`, `NoFindingIsEverSupported`, `CompletedHasFindings`,
  `ErrorSurvives`; as long as no two calls have overlapped, `ReturnMatchesRow` and `FollowsLifecycle`, for any
  number of workers; with a single worker the refinement of `StatusLifecycle` and that COMPLETED is final
  (`OneWorkerCompletes`), which `inv_final` shows to fail for two.
  A finding cites ids that its own call drew, so the inductive invariant `IInv` adds that calls have
  distinct numbers (`RunsDistinct`), that stored evidence and unstored items belong to calls
  already made (`EvidenceFresh`), that a draft cites only what is stored or about to be (`Pending`), and
  that a call past storing has left findings (`Found`). While there is one caller, its record agrees with the row.
  `InterruptedStaysStuck` is itself a temporal formula about what never happens: a row in a status that only a call
  on its way leaves, with no such call, is a state (`Stuck`) that every step keeps.
- `LimiterProofs`, the limiters and what uses them:
  - `PgRateLimiter`: `NoOverAdmission`, `DeniedOnlyWhenSpent` and the refinement of `RateWindow`. The invariant counts: in the committed window, tokens
    left and checks granted make up the limit; another conjunct says what the transaction that holds the lock
    has written, and another what those that wait can rely on. The lock makes the statements of a check one step.
  - the routes of `Api`: `StartBucketNeverBinds`. Every start in the starts' window was either on
    its way when that window opened or has been counted as a creation since, and since then there was one window of
    creations, or that and one more (`StartsWereCreations`). Hence the factor 2 and the requests in flight; the
    clock and the windows' limits alone do not give it.
  - `ApprovalGate`: `DecisionsAreFinal`, `AllowNeedsStandingApproval`, `MemoryIsRateWindow`. The refinement holds
    because a window that was opened ends at `Window` or later, so that an entry's end tells its beginning.
- `ApiKeysProofs`: `RevocationIsImmediate`, `AuditMatchesRows`, `RotationReplaces`, `RevokedStaysRevoked`. A call works
  on a row that it read in an earlier transaction, so `IInv` says what that reading still tells of the row now: it can
  only have come to exist, been deactivated or been used since (`ReadEarlier`). A call that came after the
  revocation reads it and goes no further (`LateCallsFail`), and a rotation creates its key when the old
  one is inactive (`RotationsGoOn`).
- `AuditChainProofs`: `TamperingIsDetected` for sessions that overlap, share events and roll back as they like, and
  any edits. A verified list's hashes are those of its rows up to each place, so a hash that begins another stands in the
  list; it belongs to the row that was recorded with it, as no event is recorded twice (`HashesTell`) and edits leave
  hashes alone (`HashesStay`). `ChainVerifies` needs that sessions take turns (`[]TakeTurns`): those of one tenant
  always, and all while one of them records a shared event. `chain_concurrent` shows that it cannot be dropped, and
  `MCAuditChain_shared.cfg` why tenants that are `apart` are left out. The invariant `ChainsHold` says it of what is committed and
  of what each tenant would see if a session committed now, and that a session about to insert a shared event sees what
  all tenants see that are not apart. With one session it holds without condition (`OneSessionVerifies`). The order of a query is stated by counting, and most lemmas are
  about what one more row does to it.
- `CaseFlowProofs`, first of `Orchestrator`: `GrantsFitTheAgent`, `EveryIndicatorIsLookedUp`,
  `FindingsOnlyGrow`. The invariant is that a running agent holds exactly what its class
  lists, that its remaining checks are among those, and that whatever it or an earlier agent
  has to look up is looked up or still to come (`Looked`); that the roles of the agents cover all kinds of indicators
  and that each is allowed the capabilities of its checks is proved from the tables. Then of the composition: the same
  by the step lemmas, `ProductionCellsAreSealed`, `ApiNeverLooksUpCiphertext`. Its invariant
  adds that every cell was written under a key its process could write with, and that the API runs with a key
  that works.
- `SecuredDatabaseProofs`, first of the tenant context: `ScopeDecidesSight`, `SightIsVouchedFor`, `SightIsStable`.
  The invariant adds that no two open sessions share a connection (`Exclusive`), what each session made of its
  row (`Fits`), and that every row, committed or pending, expires at most an hour after both the present
  and the end of its key (`Vouched`). Then of the deployment `ContextIsPrivate`, `NoReadsWithoutPolicies`,
  `MigratedIsComplete`, and that the API container never starts. `Prepared` says what each transaction of the job finds
  done by those before it, `Granted` that default privileges exist only once every table does, so that no
  rerun creates a readable one. `Components` shows that a behaviour of the composition is one of each part;
  `ReadsAreVouchedFor` follows from `NoReadsWithoutPolicies` and the vouched rows.
- `TaskOrchestratorProofs`: `OnlyPlannedAgentsExecute`, `HandedOffIsNeverReviewed`, `LateSourcesStayOut`. With the
  persistent logger a task that an agent handed over has a "plan" in the trail or the trail is broken; it is then never
  planned again without breaking it, and only planning leads back to execution. For any roster, a load
  adds a beginning of what is new in it, and stops at the first placeholder.
- `DarkwebMonitorProofs`: `SettledTargetsStay`, `CountsAreBacked`, `SmoothCountsAgree`. The invariant says of the
  copy of every running scan what the properties say of the file: it has the settled targets, and counts no
  more than is stored (exactly as much, while scans take turns).

Assumptions: the named ones of the modules, which TLC evaluates, and the hypotheses that a theorem states itself: one
worker, sessions that take turns, as above, and a window that has a length for
`MemoryIsRateWindow` (`enforce()` passes 60 seconds; its windows end one unit early, which takes a unit to begin with). The named assumptions are types and sizes the code has anyway: threads are finitely many,
there is a key, markers such as "no window" and "shared" are no values. `StartBucketNeverBinds` has its relation of
the limits in the property. `GrantsFitTheAgent`, `FindingsOnlyGrow` and `NoReadsWithoutPolicies` are proved and
checked by no run: they serve the results above. `OneWorkerCompletes` has no passing run either.

Only model-checked is the liveness property `EveryCheckEnds`: it rests on fairness and
ENABLED, which this prover does not treat.

## Not modelled

Redaction and secrets are conversions and reads of the environment without state; model providers and
tool adapters are clients of services, whose answers are choices in Orchestrator and Investigator. The generic
repositories insert and update single rows in sessions nobody commits. AuditService (`audit_persistent.py`), the memory
provider and the isolation guard are called by nothing that keeps state. Risk numbers, report
wording, manifests' fields and metadata decide nothing. `list_*` methods only read. One investigation and one
tenant at a time in Investigator and CaseFlow: rows of others are invisible by `TenantContext`. The HTTP API is
partly modelled: health, the HTTPS redirect and the formatting of records are left out, and its handlers after the
store's constructor raises are in Investigator and CaseFlow only.

## Plan

1. (done) Investigator, StatusLifecycle; PgRateLimiter, RateWindow; ApiKeys; AuditChain;
   Orchestrator; Api; TenantContext; ApprovalGate; Deployment.
2. (done) TaskOrchestrator with AgentRegistry; FieldCrypto and CaseFlow; DarkwebMonitor; SecuredDatabase; proofs
   of these and of Investigator, PgRateLimiter, Orchestrator and TenantContext.
3. (done) Proofs of the others: ApiKeys, AuditChain, Api, ApprovalGate, the registry's loads, and the type invariants.
4. Next: what a requeued investigation keeps of its earlier findings and evidence, proved as an action property;
   `use_count` against the audit rows of validations when calls take turns.
