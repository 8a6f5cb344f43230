# TLA+ verification of the energy business analytics backend

This directory models the parts of the backend in which several requests,
background workers, database transactions, caches and external services
interact, checks them with TLC on small instances, and proves their most
important promises with TLAPS for every value of the constants. `PROJECT.json`
maps every definition to the lines it stands for, lists the runs, theorems and
findings, and lists the hazards of the code with the properties that cover them.
Paths without a prefix are relative to `src/backend/app/`.

- [1 The system](#1-the-system)
- [2 Modules and how they correspond to the code](#2-modules-and-how-they-correspond-to-the-code)
- [3 Runs](#3-runs)
- [4 Bounds, symmetry and fairness](#4-bounds-symmetry-and-fairness)
- [5 Proofs](#5-proofs)
- [6 Where the code and its documents disagree](#6-where-the-code-and-its-documents-disagree)
- [7 What is not modelled](#7-what-is-not-modelled)
- [8 What is left](#8-what-is-left)

## 1 The system

A modular monolith: FastAPI handlers run in a thread pool, each with a
SQLAlchemy session of its own on PostgreSQL; `MemoryLifecycleScheduler` runs in
every backend process; Redis, a vector index and an object store hold copies
of data derived from memory records; SQLBot, the identity provider, model
providers and a webhook endpoint are called over HTTP. There is no in-process
lock around the business state (the SQLBot session cache and breaker have one).
Handlers coordinate through rows, unique keys, a few `SELECT ... FOR UPDATE` and
idempotency keys. Two settings of `SessionLocal` (`core/database.py:34`) shape
every race: `autoflush=False`, so that an update is sent, and its row locked, at
an explicit flush or at the commit; and `expire_on_commit=False`, so that a row
once loaded is not read again. A third fact is SQLAlchemy's: an attribute that
is equal to the value it was loaded with is not written, so that two overlapping
requests can mix their columns in one row.

| Component | State | Operations | Interacts with | Hard behaviour | What makes it correct |
|---|---|---|---|---|---|
| Memory deletion (`memory/deletion.py`, `jobs.py`, `scheduler.py`, `stores.py`) | records, lifecycle tasks, outbox events, verification rows, derived copies | delete one record, purge a user, claim, deliver, verify, retry | legal holds, audit, Redis, vector and object stores | requests and workers on the same task, leases without fencing, partial delivery, commits in the middle | COMPLETED means erased everywhere; nothing is erased without a durable event; a hold stops every later deletion; due work settles |
| Legal hold and retention (`governance/retention.py`) | holds, policies | create, release, evaluate | deletion, audit | the decision is taken before the effect; recording a refusal commits the caller | a held record stays |
| Semantic and episodic memory (`memory/semantic.py`, `writer.py`, `retrieval.py`, `signals.py`, `episodic.py`) | candidates, versioned records, episodes | propose, confirm, reject, recall, feed back | deletion, maintenance, skills | confirmations, recalls and aging at once, unlocked | no newest value is lost; what ended is never recalled again |
| Memory maintenance (`memory/lifecycle.py`, `scheduler.py`) | record status and rank, tasks, events | expire, archive, decay, drop derived copies | the worker, derived stores | commits inside the task it belongs to | a live record keeps its copies; COMPLETED has dropped those it wrote events for |
| Working memory (`memory/working.py`) | Redis keys and a registry of them | save, close, purge, expire | purge, conversations | key and registry are written apart | a purge finds every key but for named losses |
| Conversations (`chatbi/`, `sales_ops/chat_service.py`) | binding, context, runs, work state | bind, load, answer, clear | query engines | a question that loaded its context before another, or a clear, wrote it | a context belongs to its owner; what was cleared is not used again |
| Skills and composite questions (`skills/runtime.py`, `orchestration/`) | execution rows, what a run leaves in memory | match, execute, compose, remember | memory policy, procedures | switches change at any moment | a run with memory off leaves nothing |
| Ingestion and publication (`services/data_integration.py`) | runs, preview, quality checks, reviews, snapshots | ingest, check, submit, decide, publish | connectors, metrics | "latest run" checked before it is used | a snapshot is of the batch that passed and was approved, and is immutable |
| Dataset release (`platform/dataset_release.py`) | versions, reviews, release records, one pointer per dataset | create, submit, decide, publish, activate, roll back | semantic registry, ingestion, query context | reads before the lock, stale sessions, two partial unique indexes | what is served was approved and published |
| Semantic registry, scenario packages (`platform/semantic_registry.py`, `scenario_packages.py`, the `package_adapter.py` of both scenarios) | packages, model versions | register, validate, publish, activate, install | dataset release, query engines | a dozen commits in one session; installations at once | what an installation returned for is in force; the pointer names released data |
| Reports, metrics, alerts (`business_loop/`) | versions, reviews, evidence, timelines | draft, review, publish, transition | metrics, audit | read-check-write of statuses | published evidence is of the approved version; an alert is generated once |
| Knowledge (`knowledge/`) | documents, versions, publication events | ingest, publish, retire, delete, roll back, search | model gateway | publication without a lock | a published document stays published until it is withdrawn |
| Backup and drill (`src/scripts/private_deployment.py`) | dumps, manifests, restore schemas | back up, drill a restore | the live database | the manifest is read after the dump; drills and dumps overlap | a passed drill shows that the manifest describes the dump |
| Identity and sessions (`preproduction/oidc.py`, `governance/identity.py`, `api/dependencies.py`) | transactions and sessions in Redis, principals, users | log in, call back, check a request, log out | identity provider, audit | a switch or a logout between two checks of a request | one login, one session; nothing revoked admits a request |
| Data sources, credentials (`preproduction/datasource.py`, `governance/secrets.py`) | versions of a source, references | evidence, review, publish, activate, rotate, roll back | Vault, audit | three commits of a rotation | an active version was approved; a credential is always there |
| Governed releases, procedures, policies (`governance/release.py`, `policy.py`, `memory/procedural.py`) | statuses, approvals, bindings | create, review, approve, activate, roll back | authorization, skills | no uniqueness of ACTIVE; slow decisions overwrite | nothing unreviewed is in force |
| Production gates (`production_acceptance/registry.py`, `bootstrap.py`) | gates, history | install, decide, expire, summarise | evidence files | columns of two decisions in one row; a gate that is installed as PASSED | a clearance was decided, or installed, on evidence |
| Security alerts (`governance/audit.py`) | counters, statuses | observe, escalate, acknowledge | every audited call | counters without a lock | an alarm had its events |
| Model gateway (`ai/model_gateway/router.py`) | a circuit per model | complete, retry, fall back | providers | counters of objects that are replaced meanwhile | an open circuit had its failures |
| External alerts (`preproduction/alerts.py`) | delivery rows, a circuit | deliver, retry | webhook, secrets | commit before the post, retries, time-outs | one delivery per key |
| SQLBot bindings, provisioning (`query_engines/sqlbot/source_binding.py`, `src/deploy/sqlbot/provision_runtime_api.py`) | binding versions, SQLBot's sources | install at start, roll back, register, verify | SQLBot | processes of two releases; scripts that are stopped and repeated | a bound scenario stays bound, to its own source |
| Query engines (`query_engines/router.py`, `sqlbot/`) | session cache, breaker | route, generate, guard, repair, execute, fall back | SQLBot, semantic registry | lock held over a call; a breaker that others reset | one probe per window; no unguarded answer; every question ends, with an answer or an error |
| Metrics, dashboards, diagnostics, response composition, connectors, evaluation, seeds, frontend | per-request values or offline data | compute, render, load | – | none of their own | – |

## 2 Modules and how they correspond to the code

```
LifecycleContracts                       decisions shared by tasks and events
 ├── MemoryForget ── MCMemoryForget      deleting one record
 │     ├── implements DeletionContract   what a deletion promises
 │     └── ForgetProofs
 ├── MemoryPurge                         forgetting a user
 │     ├── implements PurgeContract      what forgetting a user promises
 │     ├── PurgeProofs
 │     └── MCPurgeRaces ── RaceProofs    with concurrent purges (Pair) and a
 │                                       MemoryForget over two stores (Wide)
 └── MemoryMaintain                      aging, in MCMemoryRecords
DatasetRelease ── MCDatasetRelease, ReleaseProofs
MCMemoryRecords ── MemoryProofs
   = MemoryFacts, MemoryMaintain, WorkingMemory, Conversation, RunMemory
MCBusiness ── BusinessProofs
   = DataIntegration, ReportLifecycle, MetricGovernance, BusinessAlerts,
     KnowledgePublication, ScenarioInstall, BackupDrill, IdentitySessions
MCPlatform ── PlatformProofs
   = DataSources, GovernedRelease, ProcedureRegistry, PolicyGovernance,
     ProductionGates, SecurityAlerts, ModelGateway, ExternalAlerts,
     SourceBindings, SourceProvisioning
SQLBotRuntime ── MCSQLBotRuntime, SQLBotProofs
StatusSessions                           plan and commit, used by eight registries
```

**Granularity.** An action ends where a transaction commits, where a statement
takes a lock or reads what may be stale later, or where an external store
answers. What a handler holds in memory or in its open transaction lies in its
session variable (`sess[a]`, `request[q]`, `job[j]`) and is lost when it stops.
Everything a handler does between two such points is one action.

**Composites and focus.** MCPurgeRaces, MCMemoryRecords, MCBusiness and
MCPlatform hold several specifications that share no row. A behaviour picks one
of them (`focus`), moves it and keeps the others: the reachable states are those
of each component, and interleaving what cannot meet would only multiply them.
An invariant of a component is asked of the behaviours that move it. Components
that do share state are one module (a request and the worker that takes its task
over, a publication and the activation beside it). The sets and bounds of every
component are constants of its composite; what is fixed in one is what the code
fixes (the statuses, the two scenarios, the drill's one database).

**Calm.** Many handlers of the registries are correct as long as requests do not
overlap and lose the same property when they do. The history variable `calm`
says that no two have overlapped so far. A property named `Calm...`, or guarded
by `calm`, is about sequences of whole requests, of any length and in any order,
with failures; the properties without it hold whatever overlaps. Which is which
is the result: the comments of the properties say what an overlap does.

Definitions commented **Variant** are the code with one plausible bug (a dropped
guard, a missing check). No specification uses them. Each stands before the
definition it would replace and shows that a property tells them apart;
`PROJECT.json` "mutants" says which one breaks which property.

### Forgetting: LifecycleContracts, MemoryForget, DeletionContract, MemoryPurge, PurgeContract

**LifecycleContracts** has no state: task and event statuses
(`memory/contracts.py`), the selection of due tasks (`due_task_query`), the row
an event becomes after one more attempt and the status a task gets from its
events and the verification (`dispatch_and_verify`), and the worker's error
branch. `Written` is what the flush makes of an event: a RETRY that was read and
is assigned again is no change of the column, so what another handler has
committed there meanwhile stays and only the attempts are written. Attempt counters are compared with `max_attempts` and nothing else, so
they saturate there. Deadlines (`next_attempt_at`, the five-minute lease) are
left out: whatever is not finished may be due at any moment.

**MemoryForget** is `delete_one` and the FORGET_MEMORY branch of `run_once`.
The idempotency key names the record, so tasks are indexed by record.

| Code | Action |
|---|---|
| `delete_one` up to the durable commit of its task (`deletion.py:65-85`) | `Request` |
| a blocked decision: the audit's commit, then BLOCKED (`deletion.py:87-100`) | `ClientHeld`, `ClientBlock` |
| `_anonymize` and the look-up of outbox rows (`:101-109`) | `ClientAllowed` |
| claim with `FOR UPDATE SKIP LOCKED` (`scheduler.py:65-75`) | `Claim` |
| the worker's decision, and its except branch (`:97-144`, `:163-188`) | `WorkerBlock`, `WorkerAllowed`, `WorkerError` |
| flush: row locks, inserts under the unique key (`jobs.py:140-201`) | `Flush`, `FlushConflict` |
| one `store.delete` (`:202-222`) | `DeliverOK`, `DeliverFail` |
| counts, `verify`, result, commit (`:223-323`) | `Commit` |
| holds, stores that settle late, a process that stops | `HoldChange`, `StoreSettles`, `Crash` |

A lease is a flag: `Claim` may reclaim a RUNNING task at any time, so a slow
worker and its successor both run on, as they do without a fencing token.
`retention` blocks like a hold and is folded into `hold`.

**DeletionContract** is what the above is for, without requests, workers,
leases, retries and transactions: a record is LIVE, CLEARED once a deletion
passed the governance check, and DELETED for good; only a record that is not
LIVE may have a store told to delete its copy; a deletion is attested only when
nothing is left. Two things the contract leaves open because the code does: a
cleared record becomes LIVE again when its handler fails (`Lapse`), although
copies may be gone by then, and an attestation may be taken back by a slower
handler (`Retract`). The refinement mapping is at the end of MemoryForget: `Phase`
is CLEARED while a session holds a pending UPDATE of the record, and `Attested`
are the records whose task is COMPLETED or whose stored result is verified.

**MemoryPurge** is `purge_current_user` and the FORGET_USER branch. What it
adds: one decision per record in one session, and the commit that recording a
blocked decision makes half-way (`governance/retention.py:198-207`); tasks
named by the digest of the live record ids, hence by that set; candidates; the
working-memory registry in Redis, which only a request asks for. Redis is the
only derived store the API and the scheduler configure, and its deletes are
verified before they are confirmed (`stores.py:27-56`).

**PurgeContract** is what a purge is for, without tasks, keys, leases, events and
transactions. Records have the phases of DeletionContract; a request adds what it
is `due`: all the records there were when it began, less those it finds held. It
may be carried out in pieces (`Finish`, `Keep`), by the request or by a worker, and a
verified answer (`Answer`) stands for everything that is still due to its request. A
request that refers to an earlier one (`Refer`, the replayed result) promises
nothing of itself: that is what the code does, and what `ReleasedHoldIsDecidedAgain`
says the document does not allow. In the mapping at the end of MemoryPurge `Attested`
are the records named by a task that is COMPLETED or whose stored result is verified,
and `DueTo` is what a request's key names and it did not find held.

### What a user's memory holds: MCMemoryRecords

- **MemoryFacts**: the versions of one semantic key and the episodes. `Propose`
  is the writer; `ConfirmRead` (the candidate and the newest live version),
  `ConfirmMax` (the highest number), `ConfirmDuplicate` and `ConfirmCommit` are the
  steps of `confirm`; `Recall...`, `Feedback...` and
  `Maintain...` load rows and later write what they computed over whatever is
  there. `Recallable` is the filter of `retrieval.py`.
- **MemoryMaintain**: the MAINTAIN branch with its commit inside `maintain`, the
  outbox of the ids it collected, leases and retries.
- **WorkingMemory**: each Redis command one action; `Degraded` is a command that
  fails or is the last of its process. `orphaned` is history: why a key may be
  unregistered.
- **Conversation**: `Bind`, `Load`, `Save`, `Finish`, `ClearCommit` of the two chat
  services. A context has two columns, which two overlapping answers can mix.
- **RunMemory**: the three places at which a run reads whether memory is on
  (`MemoryContextLoader`, `_write_episode`, the composite orchestrator), and the
  skill that is switched between match and execution.

### What is reviewed and published: DatasetRelease, MCBusiness

**DatasetRelease** is `create_version`, `submit`, `decide`, `publish`,
`activate`, `current` and `rollback`, with the publication of a semantic
version. `create_version` and `rollback` load all they use under the dataset
lock, which makes them one step. The other handlers load, then write:
`...Load` and `...Commit`. `activate` has up to four steps: `ActivateLoad` (the
version), `ReadCurrent` (the pointer, in the administrator's handler),
`ActivateLock` (the dataset row) and `ActivateCommit`. SQLAlchemy is modelled
as the code depends on it: `with_for_update` does not refresh a row that is
already in the session, and an attribute equal to its loaded value is not
written (`Flush`). PostgreSQL as well: an insert into `release_record` refers to
the dataset row and waits for its `FOR UPDATE` lock (`DatasetFree`), and the
partial unique indexes are checked at the commit (`UniqueActive`). Idempotency
keys are fresh for every request; a replayed key writes nothing. The
scenario version travels with the semantic version and is folded into it.
Version ranges are an uninterpreted relation, `Accepts`.

- **DataIntegration**: `IngestStart` commits the run, `IngestRead` reads the
  source, `IngestCommit` replaces the preview in one transaction; `Validate...`,
  `SubmitCommit`, `DecideCommit` and `Publish...` act on the rows their request
  loaded (`Load`), the preview being read by a statement of its own.
- **ReportLifecycle**, **MetricGovernance**, **BusinessAlerts**: one plan per
  handler, taken on loaded rows, and a `Commit` that writes the columns that
  differ from them. An alert has its times, its deliveries and its timeline.
- **KnowledgePublication**: the statuses of the versions of a document, with the
  recorded events that may withdraw it.
- **ScenarioInstall**: the installation of a package, commit by commit. The
  package's activation is modelled at the level of PostgreSQL's row locks
  (`LockRelease`, `QueryActive`, `LockActive`), because two activations meet there.
- **BackupDrill**: `Dump` is one `pg_dump`, `ReadPart` one statement of the
  manifest, `Write` the application in between; a drill creates its schema,
  restores, verifies and drops it.
- **IdentitySessions**: the callback step by step (`GETDEL`, exchange, principal,
  user and session, event and token), the checks of a request in their order,
  and the logout.

### The registries: MCPlatform

- **StatusSessions** is what most of them share: a plan over loaded statuses, and
  the commit that applies it to the present ones.
- **DataSources**: the versions of a governed source and the references they
  use; a rotation commits three times and may stop after each.
- **GovernedRelease**, **ProcedureRegistry**, **PolicyGovernance**: create, submit,
  approve, activate, roll back, and what is in force as a result (`Executable` is
  the match of the skill executor, `Allowed` the decision of `authorization.py`).
- **ProductionGates**: `Installed`, the baseline: a gate starts OPEN (BLOCKED is not
  told from it), or PASSED with evidence and no history as `RAG_MODE` does
  (`Proven`); `Decide` on the loaded row and `Commit` column by column,
  the append-only history, `Expire`, `Effective` and `Ready`.
- **SecurityAlerts**: the counter of one rule and key, read, raised and written.
- **ModelGateway**: a circuit is an object that a success or a recovery replaces
  while `failure_count += 1` works on the one it took out (`Detached`).
- **ExternalAlerts**: look-up, insert under the unique key, the commit in
  `resolve`, the posts, the outcome, and a stop anywhere.
- **SourceBindings**: every process that starts installs the relations its own
  code approves, while another release of the code does the same.
- **SourceProvisioning**: the script that logs in to SQLBot, changes the initial
  password, creates or updates the sources and verifies them; it can be stopped
  anywhere, and a creation that was not answered may still be executed.

### Questions: SQLBotRuntime

`EngineRouter` and `SQLBotEngine`. One question takes the path `session`,
`creating`, `asking`, guard, repair, execution, fallback. The lock of the session
manager is held while a new session is requested; the breaker has its own lock
inside each of its methods, so other calls come between. `Revoke` is SQLBot
forgetting a session, `WindowOver` the end of the recovery time.

The deterministic engine is one answer or one error (`Deterministic`): nobody
catches what it, or the record of the route, raises (`router.py:254-274`,
`363-391`). A binding that cannot be recorded (`BindFails`: two processes create
the session of one conversation, and the key of `shadow.py:141-174` refuses the
second) leaves the request's database session waiting for a rollback nobody asks
for, so the fallback and the records of SHADOW raise as well, and the question ends
in an error in every mode.

## 3 Runs

Run any of them with `tlc -config <run>.cfg <module>.tla`; `PROJECT.json` names
the module. Times are for two workers on an idle machine.

| Run | Question | Answer |
|---|---|---|
| `ForgetRaces` | One record, a request and two workers that race, lose leases and crash, an asynchronous store. Do the promises of a deletion survive? | `TypeOK`, `CompletedMeansErased`, `CompletedMeansDelivered`, `DeletedHasDurableOutbox`, `ContractKept`, `HoldIsAFence` hold (719 000 states, 1 min) |
| `ForgetLive` | Does every due or leased task settle? | yes (`DueTaskSettles`, 31 000 states), unless a request orphans it |
| `ForgetOrphan` | Does every durable request settle? | no: finding 1 |
| `PurgeRaces` | Two records, a request, a worker that takes over, a changing hold, a crash; two concurrent purges with any records held; and two requests beside a worker that delete one record from two stores | `PurgeSafe`, `VerifiedAnswerCoversUser`, `PurgeContractKept`, `PairPurgeSafe`, `PairPurgeSteps`, `WideDeletionPromise` hold (497 000 states, 2 min) |
| `PurgePartial` | Does every deleted record have its event once nobody is at work? | no: finding 2 |
| `ReleaseRaces` | Three sessions take two versions through the whole pipeline, with two semantic versions and two moves of the pointer | `TypeOK`, `ServedWasReleased`, `ReleasedStaysLocked` hold (1 million states, 90 s) |
| `MemoryRaces` | Do facts, maintenance, working keys, conversations and run traces survive overlapping sessions? | `FactsSafe`, `EndedStaysEnded`, `MaintainSafe`, `WorkingSafe`, `ConversationSafe`, `RunMemorySafe` hold (821 000 states, 2.5 min) |
| `BusinessRaces` | Is what is reviewed, published, installed, restored and logged in what it claims? | `IntegrationSafe`, `SnapshotIsImmutable`, `GovernedVersionsSafe`, `AlertSafe`, `InstallSafe`, `DrillsSafe`, `SessionsSafe`, `PublicationSteps` hold (793 000 states, 2 min) |
| `PlatformRaces` | Is what the registries put in force reviewed, and what they count real? | `SourcesSafe`, `ReleasesSafe`, `ReviewedSafe`, `GatesSafe`, `CountersSafe`, `BoundSourcesSafe`, `RegistrySteps` hold (863 000 states, 2 min) |
| `GateEvidence` | Does a cleared gate have evidence? | no: finding 3 |
| `SQLBotRaces` | Two questions, a breaker at its threshold, sessions that are revoked: is every answer guarded, and does every question end with an answer or an error? | `RuntimeSafe`, `SQLBotAnswersAreGuarded`, `EveryQuestionEnds` hold (297 000 states, 2 min) |
| `SQLBotRebuilds` | Does a question rebuild its session once at most? | no: finding 4 |

Deadlock is checked in the runs of the deletion, the purge and the dataset
release. The others say `CHECK_DEADLOCK FALSE`: their identifiers are bounded
and used up, so a behaviour may come to its natural end, as it does when every
question is answered.

What the properties say:

- `CompletedMeansErased`: a COMPLETED task, or a stored `verification_passed`,
  means the content is anonymised and absent from every store. It relates the
  task, the record and the stores across overwriting handlers, acknowledged but
  unfinished deletes and crashes.
- `CompletedMeansDelivered`: no merge of two handlers' event rows leaves a
  COMPLETED task with an event that is missing, open or exhausted.
- `DeletedHasDurableOutbox`: an anonymised record always has its events. It
  holds for `delete_one` at every moment and fails for a purge.
- `PurgeSafe`: `CompletedMeansErased` for a purge, and `UnbackedIsVisible`, what a
  purge guarantees instead of the above: a record without an event was left by a
  purge whose task is not COMPLETED, or says so with a payload that leaves the
  record out.
- `VerifiedAnswerCoversUser`: a fresh, verified answer to a purge accounts for
  every record the user had when it began.
- `HoldIsAFence`: once a live record is held and no deletion is past its
  check, none passes while the hold lasts. The window between the check and the
  commit (`deletion.py:86`) is real: a deletion that has passed finishes although
  a hold was created meanwhile. The property excludes that window and nothing
  else.
- `PairPurgeSafe`, `PairPurgeSteps`, `WideDeletionPromise`: the same promises where
  requests meet each other instead of a worker: two purges of one user, two
  deletions of one record from two stores.
- `ContractKept`: every step of MemoryForget is a step of DeletionContract or
  changes nothing it speaks of. It includes the fence (`Clear` needs a record
  without a hold) and adds what becomes of the copies: no derived copy is
  doomed before the governance check has passed.
- `PurgeContractKept`: every step of MemoryPurge is a step of PurgeContract or
  changes nothing it speaks of. The fence of each record is part of it (`Clear`), so
  the run does not ask for the `HoldIsAFence` of MemoryPurge beside it; between two
  concurrent purges `PairPurgeSteps` does.
- `DueTaskSettles`: retries, budgets, failed verifications and lost leases come
  to an end.
- `ServedWasReleased`: whatever stale session writes last, a version that is
  ACTIVE, SUPERSEDED or pointed at was approved, published and put there by an
  activation or a rollback on record.
- `ReleasedStaysLocked`: a published version never returns to the approval
  pipeline. A slow rejection may still overwrite PUBLISHED with REJECTED: the
  keys of `_audit` stop a second approval, not a rejection after one.
- `FactsSafe`, `EndedStaysEnded`: a version is superseded only if a higher one
  exists, so no race of confirmations loses the newest value; a record that
  stopped being recallable never becomes so again, although a slow recall may
  write ACTIVE over SUPERSEDED (what keeps it out is `valid_to`).
- `MaintainSafe`: maintenance drops no copy of a record that can be recalled, and
  COMPLETED has reached every copy that any attempt wrote an event for.
- `WorkingSafe`: a purge finds every key, except one whose registration was lost
  in one of three ways the property names (a save that failed after SET, a close
  that overlapped a save, a purge that deleted the registry between SMEMBERS and
  DEL).
- `ConversationSafe`: the context belongs to the user and scenario of the binding,
  nothing that was cleared is used again, and without overlaps a context is that
  of one answer.
- `RunMemorySafe`: a run that began and ended with memory off leaves nothing, and
  what a skill remembers was recorded as completed.
- `IntegrationSafe`, `SnapshotIsImmutable`: whole batches in the preview, published
  means checked and approved, only completed runs reviewed, snapshots for good.
- `GovernedVersionsSafe`, `AlertSafe`: a published report version was approved and
  frozen; calm, the report follows its version, what is reviewed was analysed,
  the catalog is the published metric; an alert is generated once and, calm, its
  times and its timeline fit its status.
- `InstallSafe`: calm, what an installation returned for is in force as one; in
  any case the pointer names released data.
- `DrillsSafe`: a passed drill is faithful, a mismatch had a write in its backup, no
  schema stays of a drill that ended, unless a dump took it along.
- `SessionsSafe`: one login, one session; a token has its login on record; nothing
  revoked before a request began admits it; a successful logout ended both.
- `PublicationSteps`: a published document stays published until it is withdrawn;
  an active package is disabled only by the commit that activates another; calm,
  one published version, and retired or published versions stay so.
- `SourcesSafe`, `ReleasesSafe`, `ReviewedSafe`: what is active was approved, copies
  of copies included; a rotation leaves no moment without an ACTIVE reference;
  what is executed was reviewed and tested; calm, one active of each.
- `GatesSafe`: a cleared gate is as it was installed, with evidence and not decided
  on yet, or a recorded decision cleared it on evidence; calm, the history explains
  the row from what was installed, and ready means clearances, decided or
  installed, that are still valid.
- `CountersSafe`: an open alert had its threshold of events, an open circuit its
  threshold of failures, and a key was delivered once and only if accepted.
- `BoundSourcesSafe`: one approved binding is active and, calm, it is the one that
  was installed; the ids it names are SQLBot's own sources of the scenario, and
  what was reported is configured.
- `RegistrySteps`: what no step of a registry may do (take the active version, a
  release or a binding away without replacing it, change access by a review
  step, rewrite the outcome of a delivery).
- `RuntimeSafe`, `SQLBotAnswersAreGuarded`, `EveryQuestionEnds`: one probe per
  recovery window and a mark that is never orphaned; no answer of SQLBot without
  the guard, through repair, example and rebuilt sessions; no question waits or is
  retried for ever. That it ends with an answer is not claimed: the deterministic
  engine can raise, and a failed binding takes the fallback with it.

## 4 Bounds, symmetry and fairness

| Run | Bound | Why it is enough |
|---|---|---|
| `ForgetRaces` | 1 record, 1 client, 2 workers, 1 asynchronous store, `MaxAttempts` 3, 1 crash | tasks of different records share no row; with 3 attempts an event that was in RETRY can fail again within its budget, beside a handler that settles it (in the other runs the second attempt is the last); an asynchronous store acknowledges before the effect, which Redis does not but the protocol of `DerivedIndexStore` allows |
| `ForgetLive`, `ForgetOrphan` | 1 client, 1 worker, 2 attempts, 1 crash | a lease is lost and reclaimed by the same worker as by another |
| `PurgeRaces` | 2 records, 1 candidate, 1 client, 1 worker, 2 attempts, 1 crash, 1 hold change; pair: 2 clients, initial holds free, 1 attempt; wide: 1 record, 2 clients, 1 worker, 2 stores of which one is asynchronous, 1 attempt | a purge needs two decisions; two purges are needed for two digests, a conflict and a replay; a partial delivery needs two stores |
| `PurgePartial` | 2 requests, 2 hold changes | one hold is placed and lifted |
| `ReleaseRaces` | 3 requests, 2 versions, 2 semantic versions, `MaxMoves` 2, `Released` {v1} | the second move meets a pointer that the first moved under a stale session; one version is ready to serve, the other goes through the whole pipeline |
| `MemoryRaces` | 2 versions, 1 episode, 2 candidates, 2 values, 2 sessions; 2 kept records, 1 task, 2 workers, 2 attempts; `FactBounds` | a lost update needs two sessions and two values; `FactBounds` keeps two records at most, versions or episodes, which no handler relates, and lets one session age them at a time (two workers: MemoryMaintain) |
| `BusinessRaces` | 2 requests; 2 runs of 2 stations; 3 report, 2 metric, 3 knowledge versions; timeline 6; 2 package versions, 3 installations; 2 backups, 2 drills, 1 write; 2 transactions, callbacks and session ids | an old and a new version, and a third to return to where a rollback or a new version can |
| `PlatformRaces` | 2 requests; 3 sources, 2 credentials; 4 releases; 2 procedures and skills; 3 policies; 2 gates, one installed as PASSED, 3 decisions; 3 alerts, threshold 3, 6 events; 2 models, threshold 2, 2 attempts; 2 keys; 3 binding versions of 2 releases of the code; 3 SQLBot sources, 3 starts, 1 deployment; `RegistryBounds` | a copy of a copy needs a third source and a fourth release; the third decision meets a row that two have mixed; `RegistryBounds` explores overlapping requests, and the end of a credential, with two sources and one at a time, overlapping requests with one skill, and three decisions on one gate, either of the two, or two decisions on both |
| `SQLBotRaces` | 2 questions, threshold 2, 3 sessions, modes SHADOW, CANARY, DETERMINISTIC_ONLY and DISABLED | a probe and a call that began before the breaker opened; the session that is revoked, its successor and one more |

The remaining bounds of `MaxRequests` and `MaxHolds` count what users and officers
do. The proofs assume none of these values.

`ActorSymmetry`, `RecordSymmetry`, `RequestSymmetry`, `ObjectSymmetry` and
`RegistrySymmetry` permute sets whose members the specifications do not tell
apart. They are not used with liveness, and not for `DatasetOf` or `Accepts`,
which tell versions apart. In MCPurgeRaces the instances that stand still are in a
state that no permutation changes, so one permutation (`Swap`) may exchange the
clients of two instances at once.

Fairness is assumed in three runs. In `ForgetLive` and `ForgetOrphan`
(`FairSpec`), of what the code keeps doing:

- strong fairness of the claim of a record's task, by any worker: every process
  ticks forever (`scheduler.py:230-239`) and `due_task_query` takes the oldest
  deadline first, so a task that keeps coming due is claimed;
- weak fairness of the steps of a handler: threads run on, locks are granted;
- strong fairness of a flush that selects all open events: their deadlines
  pass, and a later attempt finds them all due;
- strong fairness of a commit in which the stores answer `exists`: a store that
  is asked again and again answers in the end;
- weak fairness of a store that carries out what it acknowledged.

In `SQLBotRaces`, weak fairness of the steps of each question: its thread runs on,
every upstream call has a timeout (`client.py`), and the lock of the session
manager is held over one such call only. Nothing is assumed of deletes, calls or
repairs succeeding, of requests, holds, errors or crashes.

## 5 Proofs

`tlapm` checks eight modules to the last leaf. Every invariant and every action
property of the passing runs, the two refinements among them, is a theorem of the
specification its run checks, for any sets of records, stores, clients, workers,
datasets, versions, requests, sources, keys and sessions and for any bounds.
Finiteness is not needed.

The theorems assume what the modules name and no more. `ForgetAssumption`,
`PurgeAssumption`, `PairAssumption`, `WideAssumption`, `ReleaseAssumption`,
`IntegrationAssumption`, `FactsAssumption`, `RuntimeAssumption`,
`SourcesAssumption`, `PlatformAssumption`, `ProceduresAssumption`,
`GatesAssumption`, `BusinessAssumption` and `MemoryAssumption` say that bounds are
naturals, that budgets and thresholds the code never sets to zero are positive,
that clients are not workers and skills not procedures, that null values are not
values, that a rollback target is of its own kind, and that tables are functions
on what they index. TLC evaluates each of them in a passing run.

| Theorem | Property | Argument |
|---|---|---|
| `ForgetProofs!TypeCorrect` | `TypeOK` | inductive as it stands: a session at work names a record |
| `DeletionPromise`, `DeliveryPromise`, `DurableOutbox` | `CompletedMeansErased`, `CompletedMeansDelivered`, `DeletedHasDurableOutbox` | `ForgetInv` |
| `HoldPromise` | `HoldIsAFence` | from `TypeOK`, action by action: only `Commit` writes a record, and only for a session that wrote before; only the two `...Allowed` actions start to write, and a hold disables them |
| `ForgetRefinesContract` | `ContractKept` | `ForgetInv` and `WorkIsCleared`, action by action |
| `PurgeProofs!PurgeIsSafe`, `HoldFences`, `AnswersCover` | `PurgeSafe`, MemoryPurge's `HoldIsAFence`, `VerifiedAnswerCoversUser` | `PurgeInv`; `TypeOK`; `PurgeInv` and `ClientsInv` |
| `PurgeRefinesContract` | `PurgeContractKept` | `ContractInv`, action by action |
| `RaceProofs!PairedPurgesAreSafe`, `PairedPurgeSteps`, `WideDeletionIsSafe` | `PairPurgeSafe`, `PairPurgeSteps`, `WideDeletionPromise` | the theorems of PurgeProofs and ForgetProofs, cited through instances |
| `ReleaseProofs!TypeCorrect` | `TypeOK` | with `AtWork`: a request at work names a version |
| `ServedImpliesReleased`, `LockedContentStays` | `ServedWasReleased`, `ReleasedStaysLocked` | `ReleaseInv` |
| `MemoryProofs!FactsAreSafe`, `EndedIsForGood` | `FactsSafe`, `EndedStaysEnded` | `FactsInv` |
| `MaintenanceIsSafe`, `WorkingKeysAreFound`, `ConversationsAreSafe`, `RunsRememberSafely` | `MaintainSafe`, `WorkingSafe`, `ConversationSafe`, `RunMemorySafe` | `UpkInv`, `WrkInv`, `TalInv`, `RunInv` |
| `BusinessProofs!IntegrationIsSafe`, `SnapshotsStay` | `IntegrationSafe`, `SnapshotIsImmutable` | `IntegrationInv` |
| `GovernedVersionsAreSafe`, `AlertsAreSafe`, `InstallsAreSafe`, `DrillsAreSafe`, `SessionsAreSafe`, `PublicationStepsHold` | `GovernedVersionsSafe`, `AlertSafe`, `InstallSafe`, `DrillsSafe`, `SessionsSafe`, `PublicationSteps` | `BusinessInv`: `RepInv`, `MetInv`, `AleInv`, `InsInv`, `DriInv`, `LogInv`, `KnoInv` |
| `PlatformProofs!SourcesAreSafe`, `ReleasesAreSafe`, `ReviewedAreSafe`, `GatesAreSafe`, `CountersAreSafe`, `BoundSourcesAreSafe`, `RegistryStepsHold` | `SourcesSafe`, `ReleasesSafe`, `ReviewedSafe`, `GatesSafe`, `CountersSafe`, `BoundSourcesSafe`, `RegistrySteps` | `PlatformInv`: `SrcInv`, `RelInv`, `ProInv` and `PolInv`, `GatInv`, `SecInv`, `GwInv` and `ExtInv`, `BndInv` and `PrvInv` |
| `SQLBotProofs!RuntimeIsSafe`, `AnswersAreGuarded` | `RuntimeSafe`, `SQLBotAnswersAreGuarded` | `RuntimeInv` |

**Deleting one record.** `ForgetInv` adds two facts to the properties. `verify`
asks only the stores that have an event of the task, so COMPLETED says something
of every store only because a dispatch covers every store
(`DispatchCoversStores`), and that rests on outbox rows found before a flush being
still there after it (`FoundRowsStay`). Both hold because no code deletes an outbox
row; the proof shows that nothing else (no lock, no lease) is needed, which is why
the missing fencing token does no harm here.

The refinement needs one more invariant, `WorkIsCleared`: between its check and
the end of its transaction a handler works on a record it cleared itself or
that is deleted already. A worker skips a deleted record and anonymises a live
one, so a delivery never concerns a record that was not cleared. Each step then
changes the mapping in one of three ways, and the lemmas `PhaseKept`,
`PhaseDropped` and `PhaseCleared` say which sessions do what. A step that lets a
record lapse retracts nothing, because what is attested is gone
(`LiveUnattested`).

**Forgetting a user.** The payload of a purge's task is rewritten by each request
that finishes it, so the ids a session works for need not be the payload it
completes. `PurgeInv` says that the two differ only when the payload is `Backed`,
its records deleted and each with an event (`SessionsInv`), that a COMPLETED task
is backed and its copies are gone (`TasksInv`), and that a record without an event
belongs to a task that exists (`UnbackedInv`). `PayloadsMove` and `Grows` say what
no step takes back. For the answers, `ClientsInv` adds that every record of a
request is erased by it, kept by it or still to be decided on.

The refinement of PurgeContract takes three more facts (`ContractInv`). A session
works on records it has cleared itself or that are deleted already (`ClearedInv`);
that holds of the rows it finds in the outbox because events are only ever committed
for deleted records (`EventsInv`), and of the records a request has already committed
half-way because those are deleted. A task that does not exist says nothing
(`RowsInv`). The lemmas `PhaseDeleted`, `PhaseLapsed`, `PhaseCleared` and `PhaseAtRest`
say what a step makes of the phases when several sessions have a pending UPDATE of
one record: it stays CLEARED until the last of them ends, or one commits.
`CommitErases` is where `PurgeInv` comes in: whatever payload a commit completes, it
attests what is erased.

RaceProofs repeats no induction. The instances `Pair` and `Wide` of MCPurgeRaces
are shown equal to instances of PurgeProofs and ForgetProofs with the same
substitutions, whose theorems then apply.

**Releases of datasets.** `ReleaseInv` says that what rows and sessions hold is
backed by release records: `VersionsOnRecord`, `PointersOnRecord`, and
`SessionsOnRecord` for what a stale session has seen and will write. Records are
only ever added (`RecordsGrow`), so what a session saw stays justified however late
it commits; that makes the argument independent of the locks.

**Composites.** A component without the focus stutters (the lemmas `...Moves`), so
each one is proved on its own next-state relation; the composite's invariant is the
conjunction. Where a property has a part for calm sequences, the invariant has a
part `...Calm` that says what makes it work: while nothing has overlapped, what the
one session at work loaded is still what is stored, so its plan does to the
present rows what it was made to do (`...Alone`). The other parts hold whatever
overlaps.

- `FactsInv` has two facts that survive commits over each other: a record whose
  status is not live has its end of validity set (`EndedIsMarked`), and nothing
  clears it again; and a session that is about to supersede a version holds a
  higher number for its own (`JobInv`). That there is a highest version to number
  from is shown by well-founded minimality (`HighestIsHighest`).
- `UpkInv`: a record that is retired never lives again and a dropped copy never
  returns, so it is enough that a record with an event, stored or in the hands of
  a worker, is not live (`UpkEvents`, `UpkJob`). `TalInv`: every part of a context is
  that of an answer which no clear has hidden; what sessions have seen cleared is
  linearly ordered; and a part that a session found empty was saved after it
  loaded (`TalLater`), so that its clear hides nothing but what it saw. `RunInv`: a
  run all of which memory was off has read it as off and is not about to write,
  and what writes for a skill has been completed. `WorkingSafe` is almost
  inductive: `orphaned` records the losses.
- `IntegrationInv` rests on three facts: a completed run never changes again, a run
  has one ingestion (`OneIngestion`), and a session that publishes has seen a review
  that was passed and approved (`JobsInv`, `ReviewInv`). So the preview and whatever
  a session has read of it hold a whole batch or nothing (`PreviewInv`), and so do
  the snapshots (`SnapshotInv`).
- `RepInv`, `MetInv` and `KnoInv` are about plans, with one part that does not need
  calm: a request that publishes a report has seen an approval of its version, and
  approvals stay (`RepJobs`). `AleInv`: the timeline is empty until the alert is
  generated, and its times fit its status as soon as the one request at work has
  committed (`AleFit`). `InsInv`: what is half-way is so by an installer under way
  (`InsMoving`), and what was returned for is in force alone (`InsReturned`).
  `DriInv`: until a write is committed during a backup, its dump is what is live and
  its manifest tells what was dumped. `LogInv`: a callback owns its transaction and a
  stored session has consumed it (`LogCallbacksOwn`, `LogSessionsAreStored`), what a
  logout took stays gone (`LogLogoutsHold`), and what was off when a request began,
  and still is, stops it at its check (`LogChecksStop`).
- `SrcInv`: the credentials in the store are numbered without a gap and the newest
  is ACTIVE unless it was ended (`SrcNewest`); a rotation supersedes an older one
  than its own (`SrcRotating`), which leaves no moment without one wherever it
  stops. `RelInv`: a row never loses the artifact it was inserted with, and a plan
  names only rows that exist and puts only approved artifacts in force
  (`RelPlanned`), through copies of copies. `ProInv`: an approved skill stands on an
  approved procedure and an approved procedure on a test (`ProBacked`), and a plan
  rolls out nothing else. `PolInv`: calm, no plan leaves two versions of a code
  active.
- `GatInv`: no version of a row, loaded or stored, is ahead of the history; a plan
  that clears has evidence (`GatDecided`); until it is decided on, a row is the installed one, and whoever
  loaded it meanwhile loaded that (`GatFresh`); calm, each entry goes on from its
  neighbour and the last says what the row is (`GatExplained`). `SecInv`: a counter
  is at most what was seen, and what is about to be written at most one more;
  counts may be lost, never invented. `GwInv`: a call that holds the circuit in the
  dictionary was counted when it took it (`GwBacked`); circuits that were replaced
  count for nobody. `ExtInv`: from its flush on a delivery owns its key, and the row
  is PENDING until it writes the outcome (`ExtKnows`, `ExtOneOwner`).
- `BndInv`: versions are numbered without a gap, so no two processes hold the same
  one once it is inserted (`BndRows`, `BndJobs`). `PrvInv`: the ids of a run that
  passed exist; calm, the source with number i has the name of the i-th entry,
  because the one creation that may still arrive is of the next one (`PrvCalm`).

**Questions.** `RuntimeInv` accounts for the breaker: `BreakerInv` relates its counter,
its mark and the probes of the window, `ProbeIsUnderWay` says who will clear the mark,
and `JobsInv` that what is executed has passed the guard. It also bounds the rebuilds
of a question by two, one for each of its attempts.

Only model-checked: `DueTaskSettles` and `EveryQuestionEnds`, because liveness under
fairness is out of the prover's reach, and the four violations of section 6.

## 6 Where the code and its documents disagree

Four disagreements have a run that shows them:

1. **A deletion can be orphaned** (`ForgetOrphan`, `memory/deletion.py:86`).
   `delete_one` sets RUNNING without `locked_at`; a refused decision commits it; a
   process that stops before the second commit leaves a row `due_task_query` never
   selects.
2. **A purge can leave a record without an event** (`PurgePartial`,
   `memory/deletion.py:161`). A hold on a later record commits the earlier ones
   before any outbox row exists.
3. **A cleared gate can be without evidence** (`GateEvidence`,
   `production_acceptance/registry.py:105`). Two overlapping decisions write the
   columns that differ from what each loaded: the status of one, the empty
   evidence of the other.
4. **A question can rebuild its session twice** (`SQLBotRebuilds`,
   `query_engines/sqlbot/engine.py:446`). The rebuilt session is not handed back,
   and the repair asks from the revoked one again.

The modules state further promises of the documents that fail when requests
overlap or stop at the wrong moment; none has a run of its own, and each can be
checked as an invariant or property of its module:

| Definition | What happens |
|---|---|
| `MemoryForget!RepeatedDeleteIsAnswered` | a deletion that a worker finished stores no result, and repeating it raises `TypeError` (`deletion.py:83`) |
| `MemoryPurge!ReleasedHoldIsDecidedAgain` | the digest of the live records has not changed, so a purge that a hold blocked is answered with the old refusal (`deletion.py:154`) |
| `DatasetRelease!ActiveIsPointed` | version and pointer are read before the lock: another version can stay ACTIVE, and neither an activation nor a rollback can then move the dataset (`dataset_release.py:351`) |
| `DatasetRelease!BoundPairIsCompatible` | a rollback does not check the range that `activate` checks (`dataset_release.py:545`) |
| `DataIntegration!OldRunsStayUnpublished` | "latest run" is checked before it is used (`data_integration.py:384`) |
| `ReportLifecycle!PublishedVersionsAreFinal` | a decision that was overtaken overwrites PUBLISHED |
| `KnowledgePublication!OnePublished` | two overlapping publications leave two versions PUBLISHED |
| `MemoryFacts!OneLiveVersion` | a confirmation that looked for live versions before another one was committed, and for the highest number after it, adds a second live version |
| `MemoryFacts!DeletedIsErased` | feedback that loaded an episode before its deletion writes its content back (`orchestration/memory_skills.py:139`) |
| `MemoryMaintain!RetiredReachCopies` | `maintain` commits before the ids reach the task: a stop in between retires records whose copies nobody drops (`lifecycle.py:148`) |
| `Conversation!WorkIsReleased` | the work state of a refused or failed question can stay for the life of the process (`chatbi/service.py`) |
| `ScenarioInstall!CanBeRepeated`, `PointedIsActive` | a stop between creation and publication makes every later installation refuse; two overlapping ones can leave a pointer to a semantic version that is not active |
| `BackupDrill!EndedLeavesNothing` | a backup that was taken during a drill carries its restore schema along |
| `SQLBotRuntime!ShadowKeepsAnswer` | `p1b/04_DUAL_ENGINE_ROUTING.md:41,67` promise the deterministic result in SHADOW whatever SQLBot does; a binding, or evidence of the comparison, that cannot be recorded makes the request raise (`shadow.py:174`, `router.py:295`) |
| `SourceProvisioning!CreatedOnce` | two runs at once create a source twice, and an id of the bindings names another |

In the models, without a definition of their own: the window between a
governance decision and the commit; a purge of an empty set replays the answer
of the first one (`deletion.py:154`); a worker that takes over a purge neither
deletes candidates nor asks for the working-memory registry
(`scheduler.py:97-154`); a slow `publish` writes PUBLISHED over ACTIVE
(`dataset_release.py:290`); a slow rejection overwrites PUBLISHED (`:256`);
installing a package again demotes an ACTIVE one to VALIDATED first, and
installing v1 again after v2 is refused for its key; the sales installation
activates its package before the count of orders is checked; overlapping
activations can leave two ACTIVE packages; a rollback of a source binding
registers the relations of the present code under an old version
(`source_binding.py:124`), and a process of older code can supersede the newer
binding; memory that was switched off is on again once the record that says so has aged out
(`memory/policy.py:30`); the deployment monitor looks at `created_at` of a manifest
and at nothing else; two backups of one second share a file name.

## 7 What is not modelled

The map covers about 8 000 of some 60 000 lines. Most of the others have no state
that two actors share: acceptance and evidence scripts (`src/scripts`), evaluation
harnesses, migrations, seeds and loaders, schemas and HTTP wiring. Their
behaviour is a sequence of reads, comparisons and files, which tests reach and a
state machine would only repeat.

- **Computations over SQL results**: metrics, dashboards, diagnostics, response
  composition, query compilation and the SQL policy, the fixpoint of the metric
  catalog, version ranges (`version_satisfies`, a relation here), ranking, chunking
  and retrieval texts, the steps of a skill.
- **Input and output**: connectors, Vault, key sets and tokens of the identity
  provider (only their verdicts), providers of models and embeddings, file
  contents, hashes and signatures. A secret cache is made anew for every service
  instance, so its entries do not meet.
- **Who may do what**: every actor is authorised for what it asks, except where
  a policy is the subject (PolicyGovernance) and where sessions and switches are
  (IdentitySessions, RunMemory).
- **Time**: deadlines, leases, windows and ages may have passed at any moment,
  which covers clocks that disagree and ticks that start with an old `now`
  (`scheduler.py:217`). Retention periods block a deletion as a hold does.
- **Of the memory lifecycle**: dead letters beyond their status, verification rows
  beyond their outcome, changes of the configured stores between two processes,
  redaction and scopes.
- **Of the releases**: `create_dataset`, replays of idempotency keys, several
  datasets that share a semantic model (activating one supersedes the semantic
  version the other still names, `dataset_release.py:425`),
  `ScenarioRegistry.disable`, refusals by environment.
- **Of the query engines**: the shadow comparison and its record, which changes no
  answer; the hash of the canary.
- **Of the deployment**: preflight, up, down, upgrade, rollback and monitor, which
  are sequences of `docker compose` commands by one operator.

## 8 What is left

In this order:

1. An abstract registry in which one reviewed version is in force, and the
   registries of MCPlatform shown to implement it as long as they are calm.
2. Two datasets that share a semantic model.
