# A TLA+ verification of Enterprise Agent OS

Enterprise Agent OS runs AI agents for companies: a FastAPI service and NATS workers (Python,
`apps/api`), a governance proxy (Go, `apps/worker/governance`), a web client (Next.js, `apps/web`),
and PostgreSQL, Redis, NATS JetStream and Qdrant behind them. This directory models what the
system decides and in which order: who executes a run, when an approval lets it go on, what a rate
limiter lets through, which audit events form a chain, which rows a client sees page after page.
Every definition is read from the code; `PROJECT.json` gives the lines of each under `map`.

Paths below are relative to the repository. `API` stands for `apps/api/app`, `GO` for
`apps/worker/governance`.

To check: `tlc -config <run>.cfg <module>` for a run of section 4, `tlapm <module>.tla` for a module
of section 6.

## 1. Inventory: the components

### Run lifecycle (`API/services/orchestrator.py`, `workers.py`, `routers/runs.py`, `approvals.py`)
- **State.** The `agent_runs` row (status, `steps_completed`), `approval_requests`, the JetStream
  message that asks for a run, the position of each executor.
- **Operations.** `trigger_run`, `enqueue_run`, `RunWorker._process_message`, `execute_run`,
  `_create_approval`, `_fail_run`, `_complete_run`, `cancel_run`, `decide_approval`,
  `resume_after_approval`.
- **Interaction.** Workers, resumers and API requests share rows, each through its own session;
  sessions are made with `expire_on_commit=False` and nobody re-reads a row before writing it.
- **Hard.** Redelivery of a run that is still executed, a crash between two commits, a cancel
  between a read and a write, two executors on one run, an approval that is decided twice.
- **Correct when** no step runs behind an undecided gate, a completed run ran all of its steps, a
  run that is RUNNING or QUEUED is in somebody's hands, a terminal run stays as it is.

### Step engine (`orchestrator.py`: `_execute_defined_workflow`, `_execute_auto_plan`)
- **State.** Queue, visited steps, results; usage against the limits; the loop detector's hashes.
- **Operations.** One iteration of either loop, by the kind of the step.
- **Hard.** Graphs with joins, cycles, dangling edges; limits checked before and recorded after a
  step; plans written by a model, with anything in them.
- **Correct when** every step runs after one that leads to it and at most once, limits are
  respected, execution ends, repetition is stopped.

### Governance proxy (`GO`)
- **State.** Rate counters, scope policies, the audit writer's `prevHash` under a mutex, the
  `audit_events` table.
- **Operations.** `Evaluate` with its six stages, `LoadPolicy`, `Write`, `ValidateChain`, `Check`,
  `Redact`; restart of the process.
- **Interaction.** The orchestrator posts every tool call to it; handlers are goroutines.
- **Hard.** Handlers interleave at each stage; an insert fails before or after it took effect; the
  policy changes under a call; matches of several PII patterns in one string, on which `Redact` may
  panic; a restart forgets counters and policies.
- **Correct when** a key is let through at most as often as its windows and the restarts allow, the
  chain validates, each evaluation is audited at most once, nothing passes whose scopes were never
  allowed, each request is answered but one whose own text makes the redaction panic.

### Streams (`routers/runs.py` `stream_run`, `API/services/events.py`, `apps/web/src/lib/hooks.ts`)
- **State.** The row a stream polls; the pool of database connections; Redis subscriptions and
  their pool; the state of a data hook and its outstanding requests.
- **Hard.** A pool used up by those who wait for it; pub/sub that keeps nothing; answers out of
  order or of another shape; a server that changes meanwhile.
- **Correct when** streams end when their run does, frames arrive in order and once, and what a page
  shows after its newest question was answered is what it asked for, and not from before it asked.

### Workflow versions (`routers/workflows.py`)
- **State.** The rows of a lineage with status and version.
- **Operations.** create, update (in place for a draft, a new version otherwise), promote, roll
  back, delete.
- **Hard.** Two requests on the same version; rollback in an unexpected state.
- **Correct when** versions are numbered without gaps, production was staged (but for the row the
  database is created with), one is in production.

### Webhook endpoints (`routers/webhooks.py`)
- **State.** The runs they store; nothing in the process.
- **Operations.** Four endpoints: check the signature, read the body, find the organisation, look
  the production version up, insert the run, commit, answer.
- **Interaction.** Senders post an event again when they hear nothing or of an error; editors change
  the versions meanwhile.
- **Hard.** An answer that is lost, a commit that fails, a process that dies in between, a version
  that is demoted or deleted between the lookup and the commit.
- **Correct when** what a sender was told is true, and a run is of a version that was released.

### Tool records (`routers/tools.py`; `workers.py`: `HealthWorker`)
- **State.** The rows of `tools` and the audit events on them.
- **Operations.** Register, change, refresh the health; the worker's probes and what it writes.
- **Hard.** Two requests read a record before either commits; a request is cut off between its
  change and its event; two register one name.
- **Correct when** the events tell the records: one registration each, and each field as the last
  event that names it says.

### Seeded triage workflow (`API/workflows/it_triage.py`)
- **State.** None: steps, edges, branches, templates and a budget, executed by the step engine.
- **Correct when** its budget suffices, and a step runs after those it needs, on every branch.

### Knowledge base and memory (`API/services/knowledge.py`, `memory.py`)
- **State.** Qdrant collections; a BM25 index per process; Redis and a JSONB column per run.
- **Operations.** ingest (which cuts a text into overlapping chunks), search, delete; store,
  retrieve, delete of a run's memory.
- **Hard.** Two stores that must agree, either of which fails with or without effect; several
  processes; restarts; concurrent requests.
- **Correct when** what was reported stored can be found, what was deleted cannot, answers are not
  older than the last write.

### Workers (`workers.py`: `KPIWorker`, `WorkerManager`; `API/services/tools.py`)
- **State.** The consumer's messages, `kpi_config`; connection, subscriptions, loop tasks; calls of
  tools with their deadline.
- **Hard.** Redelivery, two writers of one column, a status that is written over after its run
  settled and was counted, stop during start, during an outage, or twice; a deadline beside the
  timeouts of the tools.
- **Correct when** nothing is counted twice, a snapshot is current once its runs were announced, no
  loop spins, stop returns, a call returns by its deadline.

### Model router (`API/services/llm.py`, the routing part of `API/core/config.py`)
- **State.** The settings object of the process, which a lookup changes for a moment; requests in
  flight at providers.
- **Operations.** `generate` (provider of the role, then the fallback), `generate_stream`; nine
  adapters.
- **Hard.** One settings object for all coroutines; work that is charged and whose answer is lost;
  cancellation.
- **Correct when** the fallback is asked when, and only when, the role's provider failed; a result
  says what it cost.

### List routes (`routers/audit.py` and five others)
- **State.** None but the cursor; the table changes between two pages.
- **Correct when** a walk returns no row twice and misses no row that was there throughout.

### Not modelled, or in part
`PROJECT.json` lists every component with its status and why. In short: KPI dashboards (read-only
aggregates, on which nobody acts), authentication and organisation scope (stateless per request),
start-up and error formatting, UI layout, type declarations, SQL declarations. Embedding, ranking,
prompts, hashing and the regular expressions of the detectors are data: models take their results as
inputs. Audit events of the API are modelled for the tool routes and, as rows that are listed, in
`Pagination`. What is left in part are variants of modelled code: `RedactMap`, the batch endpoint,
connectors other than those of Jira and ServiceNow, the in-memory audit store.

## 2. The plan

Order by importance to the system; what is done is marked.

1. `RunLifecycle` - the run, its executors and approvals, which refines the abstract `RunRow` (done,
   proved, the refinement too)
2. `RunConstraints`, `LoopDetector`, `StepEngine`, `AutoPlan`, composed in `ExecuteRun`, which
   refines the abstract `GraphWalk` (done, proved, the refinement too)
3. `RateLimiter`, `AuditChain`, composed with the pipeline in `GovernanceProxy`; `Redaction`
   (done, proved)
4. `WorkflowVersions`, and on it `WebhookIntake`, which refines the abstract `EventInbox` (done,
   proved, the refinement too)
5. `RunStream`, `EventStream`, `DataHook` (done, safety proved)
6. `KpiWorker`, `WorkerManager`, `ToolCalls`, `ToolRecords` (done, safety proved)
7. `KnowledgeBase`, `Chunking`, `MemoryLayers`, `LlmRouter`, `Pagination` (done, safety proved)
8. `TriageWorkflow`: the workflow the system is seeded with, as an instance of the engine (done,
   proved)
9. Theorems still worth proving: the type invariants of the components whose safety did not need
   them.

Modules are written to be proved about: parameters are `CONSTANTS` with named assumptions,
one action per operation, invariants in named parts, no `RECURSIVE` operator anywhere.

## 3. The modules and the code

| Module | Models | State and actions against the code |
|---|---|---|
| `RunLifecycle` | the run table and everyone who writes it | `row`, `approval` are committed columns; an action is one commit, or one read whose result is used later. `CancelRead`/`CancelWrite` and `DecideRead`/`DecideWrite` are the two halves of the handlers; `Load`, `Claim`, `StepDone`, `Gate`, `Await`, `Complete`, `StepFails` the transactions of `execute_run`; `Escape` an exception it does not catch; `Fetch`, `Ack`, `Publish`, `Nak` `RunWorker._process_message`; `AckWaitExpires` JetStream. |
| `RunRow` | nothing of the code: what the status of a run goes through | `Create`; per actor, `Read`, which permits one act, and `Write` or `Forget`, which use the permit up. A finished claim leaves the permit to finish |
| `RunConstraints`, `LoopDetector` | the classes of these names | operators on the usage and on the hash list |
| `StepEngine` | `_execute_defined_workflow` | one action per iteration, by kind of step; `queue`, `visited`, `results` as in the code |
| `AutoPlan` | `_execute_auto_plan` | `PlanMade`, then one action per iteration |
| `ExecuteRun` | `execute_run` once RUNNING | chooses between the two; maps the first to `GraphWalk` |
| `GraphWalk` | nothing of the code: the promise of executing a graph | `RunNode`, `Stop`, `Finish` |
| `TriageWorkflow` | `create_it_triage_workflow` | the steps, edges, branches and budget as constants of `StepEngine`; `StepTimes` is how long a step may take, `Reads` what its templates name |
| `RateLimiter` | `Limiter.Check`, `MemoryRateLimitStore.Increment` | `Admit` and `Refuse` (one critical section), `Tick`; `NewStore` is the counters of a new process. `admitted` keeps what passed across them |
| `AuditChain` | `audit.Writer`, the table | `Enter` takes the mutex and reads `prevHash`; `Stored`, `Refused`, `StoredUnseen` are the outcomes of the insert; `Advance` sets `prevHash`; `NewWriter` is a restart |
| `GovernanceProxy` | `Proxy.Evaluate` | extends both; `session[h]` is the place of a handler between the stages that touch shared state. `Panicked` is a handler that `Redact` takes down, `Restart` a new process |
| `Redaction` | `Detector.Detect`, `Redact` | one action per turn of the loop; text is a sequence of numbered cells |
| `WorkflowVersions` | `routers/workflows.py` | a read and a write per request; an unchecked UPDATE by id. The table starts empty, or with version 1 in production, as `init.sql:287-300` inserts it-triage |
| `WebhookIntake` | `routers/webhooks.py` and its senders | extends `WorkflowVersions`; `call[e][n]` is the handler of the n-th time event `e` is posted, a step per statement; `Deliver`, `Hear`, `GiveUp` are the sender; `Fails` the database, `Dies` the process |
| `EventInbox` | nothing of the code: the promise to a sender | `Store`, `Confirm`, `Reject` |
| `ToolRecords` | `routers/tools.py`, `HealthWorker` | `request[c]` is a transaction: `Accepted` reads, `Write` takes the row lock, `Commit` stores the row and its event, `RolledBack` neither; `Probe` and `Persist` are the worker |
| `RunStream` | `stream_run` | `Poll` takes a connection, `Yield` gives it back; the executor's commits are the environment |
| `EventStream` | `EventEmitter`, `EventStream` | `Subscribe`, `Subscribed`, `Connected`, `Receive`, `Leave`, `Break`, `Cleanup`; the emitter; the pool |
| `DataHook` | `useAPI` | `Render`, `Refetch`, `Post`; a request is sent, served and answered in steps of its own, in any order, and every answer sets the state, or is a `Misfit` on which the hook raises; `Change` is everybody else at the server |
| `KpiWorker` | `KPIWorker` | `Fetch`, `Compute`, `Persist`, `Ack`, `Nak`, `AckTimeout`; `Settle`, `Overwrite` and `Publish` are the runs and the run workers, as `RunLifecycle` has them: a settled status can be written over |
| `WorkerManager` | `start`, `stop` | each await of the two coroutines is a step; what a start created carries its number |
| `ToolCalls` | `ToolRegistry.execute`, two families of connectors | a call, its service, its timer |
| `KnowledgeBase` | `KnowledgeService` | a request is cut at its awaits; `Upsert` may take effect and lose its answer, and vectors of one document may differ in length |
| `Chunking` | `chunk_text` | one action per turn of its loop; a text is the number of its tokens, a chunk an interval of them |
| `MemoryLayers` | `MemoryService` | Redis and then Postgres, each an await that may raise |
| `LlmRouter` | `LLMRouter`, the model fields of `Settings` | choosing the profiles is one step, for it has no await; each attempt is `NoKey`, `Rejected`, or `Worked` and then `Returned` or `Lost`; `Cancelled` is what `except Exception` does not catch. `Invoke*`, `Stream*` say what of a message an adapter sends |
| `Pagination` | the cursor of the list routes | `FullPage`, `LastPage`; `Insert`, `Commit`, `Reselect` are other requests |

The `*Proofs` modules hold the theorems (section 6);
`MC*` modules hold the instances. Operators introduced as "Seeded fault" are deliberately wrong
versions of the definition that follows them; `PROJECT.json` names, for every property, one that
breaks it.

### What the models assume
- Rows conform to the ORM's schema; the session set-up of `get_db` succeeds; SHA-256 does not
  collide, nor do the shortened ids in Redis keys.
- A call that was in flight when its API process died does not take effect later
  (`KnowledgeBase`).
- `WebhookIntake` is run, and its refinement proved, with `CommitsFirst = TRUE`: the session's
  commit comes before the answer, as in FastAPI 0.106 to 0.117. Later versions, which
  `pyproject.toml:7` admits, answer first (section 5).
- Requests on tool records run in read-committed transactions, with row locks and the unique index
  of `tools.name`, as PostgreSQL provides them.
- Nothing in the repository calls `enqueue_run`, `worker_manager.start`, `resume_after_approval`,
  the event stream, the memory service, the tool registry, `POST /v1/policies`, `ValidateChain` or
  `LastHash`. They are modelled as their docstrings present them to callers: `enqueue_run` after the
  row is committed, a resume at any time for any approval, an emitter passed to the orchestrator.
- `RunStream` is run with `KeepsSession = TRUE`: the session of a request is finished after its
  stream, as in FastAPI from 0.118 on, and with one connection more than streams, for which the polls
  contend. With as many streams as connections it fails (section 5). Where `get_db` is finished
  before the response (`FALSE`) a stream holds less; `RouteKeepsPool` is proved of both. Webhooks and
  streams are thus checked under different versions of FastAPI, each said with its module.
- The panic of `Redact` is an input of `GovernanceProxy` (`pii`): `Redaction` says for which
  arrangements of matches it happens, and the proxy what becomes of the request.

## 4. The runs

Independent components share a run: `MCServices`, `MCWorkers`, `MCStreams`, `MCRequests` and
`MCGovernance` choose one of theirs in the initial state (`part`) and leave the others at their
start. The parts of a run are alternatives, so each projects to the same behaviours as when it runs
alone, and a parked component satisfies its properties trivially only in behaviours where it is
parked: all of its own are explored too. Where two components do interact one module extends the
other (`WebhookIntake`, `GovernanceProxy`), and the part is their composition.

| Run | Question | States |
|---|---|---|
| `run_lifecycle` | Two workers, a resumer, a client, two runs with and without a gate: are gates kept, completed runs whole, running and queued runs in somebody's hands, terminal runs final, and does a run change only as `RunRow` permits? | 463,434 |
| `run_single_worker` | One worker, two messages for one run, three deliveries, crashes anywhere: does no step run twice, and does a message get its run started? | 58,109 |
| `execute_run` | A graph with joins, cycles, a dangling edge and branches, and every plan of up to five steps: do limits hold, does execution end and follow the graph, is repetition stopped? The triage workflow: does each step find what it needs? | 113,402 |
| `governance` | Two handlers, restart, policy reload, failing inserts; the limiter alone over a longer time and a restart; every arrangement of matches: limit, chain, audit, scopes, redaction in order | 2,218,699 |
| `governance_live` | Is each request answered that the redaction can take, also beside one on which it panics? | 262,276 |
| `requests` | Two clients, three versions: does nothing reach production unstaged? An event posted up to twice beside an editor: is the sender told the truth, of which version is the run? Two requests on two tools of two organisations: do the audit events tell the records? | 1,796,350 |
| `services` | Pagination in both orders with writers; texts cut into chunks; two API processes on one Qdrant; two callers of the memory of a run; two model requests under every routing configuration | 1,233,872 |
| `workers` | One KPI worker and two, on runs whose status is written over after they settled: is no run counted twice, is the snapshot of one worker current? Start and stop of a manager, twice, with outages: does no loop spin, does stop return? Two tool calls and their deadline | 957,196 |
| `streams` | Two streams that keep the connections of their requests and poll on a third; followers and a listener on two Redis connections; a page with two filters, answered in any order: do streams end, are frames in order, is the newest answer shown? | 611,616 |
| `acked_settled`, `resume_continues`, `versions_webhook` | what comments say and the code does not do (section 5) | violation |

**Type invariants.** Every module has one. Runs check that of `RunLifecycle`, which the code can
break in more than one step, and those of `MCWorkers`, which bound the deliveries of a message and
the latency of a call; `LineageTyped` proves that of `WorkflowVersions`, by which versions are
numbered without gaps, and `ProxyTyped` that of `GovernanceProxy`; the others hold in the
configuration of their run and are left out of it.

**What they show.** Every listed property holds, and each is broken by a plausible change of the
code (`mutants` in `PROJECT.json`). Those of the last row fail, with a shortest trace.

**Bounds and why they are enough.**
- *Actors.* Every race found is between two of a kind (two executors, two deciders, two handlers,
  two processes, two streams), so there are two of each where it matters, and a third actor of
  another kind. `RunLifecycle` has two workers, a resumer and a client: all pairs.
- *Faults.* One or two outages, restarts or lost acknowledgements: a fault acts on what earlier
  steps left, and a second one meets every state the first leaves. Deliveries are two with two
  workers, three with one, below and at the limit where the consumer gives up.
- *Plans.* `<<act, tool>>` and `<<act, approval, act>>` have a step before, at and behind a gate,
  and a gate the proxy may ask for at the last step. The graph of `MCExecuteRun` has each feature
  `_execute_defined_workflow` treats separately; its limits lie below what the graph can use.
- *Counters.* In the pipeline three requests meet a limit of two, so the third is refused, or comes
  after its window or after a restart; the limiter alone runs through three windows and a restart,
  with two keys, where requests crowd around a reset. Six cells and two matches of each of two
  patterns hold all relative positions; markers are longer than some and shorter than other matches.
- *Routing.* Three providers, one of each kind the router distinguishes (with an adapter of its own,
  OpenAI-compatible, without a key), in every combination of mode, fallback, keys and roles; `cost`
  and `latency` are treated as `hybrid` is.
- *Posts.* Every way an endpoint refuses a post, and every endpoint, is among the ten posts; a
  second try meets every place a first handler may have stopped at. One editor makes the lookup
  find none, one or two versions, and a version it found change before the commit.
- *Tools.* A name of one organisation that another may ask for, and a system tool; two fields, so
  that two changes may name the same or different ones; three events are a registration and two
  changes. `HealthWorker` runs between requests: neither reads what the other writes.
- *Indicators.* Two runs and two events, delivered twice: an event of either run, one twice, or of a
  run that is written over between its aggregate and its acknowledgement. With one worker
  two faults are a status written over and a lost acknowledgement, or two of one kind; with two
  workers it is one.
- *Answers.* Three requests are two that overlap and one after; two changes at the server, by the
  user or behind his back, lie before, between and after them.
- *Connections.* One more than the streams that keep one each: the boundary at which both still end,
  where no two of them can poll at once.
- *Texts.* Windows of four tokens that overlap by one cut texts of up to forty into up to thirteen,
  with a last one of every length; for all sizes it is proved.
- *Triage.* Steps of one and of a hundred seconds, so that some executions end at the limit of 300.
- *Pages.* Four rows and pages of two: full, short and empty last pages, equal creation times, rows
  that appear behind the cursor.
- What does not depend on a bound is proved (section 6).

**Deadlock** is checked for `services`; the other systems may stop: a run ends, a version lineage
is done, the bounds on requests, posts, events and starts are reached.

**Fairness and its justification.**
- `RunLifecycle`: weak fairness of each executor's next step and of redelivery. The worker loop
  polls without end (`workers.py:96-109`) and JetStream redelivers on its own; nobody owes a
  trigger, cancel, decision, resume, crash or exception.
- `GovernanceProxy`: weak fairness of a handler's step, since goroutines are scheduled and an insert
  ends with its context, and no restart, which would excuse a request; strong fairness of entering
  `Write`, since `sync.Mutex` hands itself to a waiter that starves.
- `ExecuteRun`: weak fairness of the loop: each call it awaits has a timeout.
- `RunStream`: weak fairness of the event loop and of the client taking frames; strong fairness of a
  poll, as the pool serves waiters in turn.
- `WorkerManager`: weak fairness of a `stop` that began and of the delivery of a cancellation; no
  loop owes progress before.

## 5. Disagreements with the documentation

Met while modelling. Three are runs of their own, with quotes under `findings` in `PROJECT.json`:

- **`AckedRunIsSettled`** - a redelivered message finds RUNNING, `execute_run` returns and the
  message is acknowledged: the run stays RUNNING although the worker's docstring counts on
  redelivery after a crash (`workers.py:65-66,127`; `orchestrator.py:401-403`).
- **`ResumeContinues`** - an approved run is executed from its first step, reaches the gate again
  and asks again; it never passes ("Re-queue the run to continue", `orchestrator.py:862`).
- **`WebhookResolves`** - promotion leaves the former production version in production, and the
  lookup of a webhook raises on two (`workflows.py:353`, `webhooks.py:145`).

The others are definitions at the end of their modules, under "what the code's comments and docs
say and the code does not do". Each is violated in the configuration given, without its symmetry,
as an INVARIANT or, where it is an action or temporal formula, as a PROPERTY; those of an instanced
module through a definition in the `MC` module such as `X == Knowledge!IngestedFound`, those of one
mode or part guarded by it (`part = "detector" => ...`).

| Definition | Configuration | What the code does |
|---|---|---|
| `RunLifecycle!CancelIsFinal` | `RunLifecycle_all` | an executor that loaded the run before the cancel writes over it (`orchestrator.py:804`) |
| `RunLifecycle!DecidedOnce` | `RunLifecycle_all`, two clients | two deciders that read PENDING both write (`approvals.py:157-171`) |
| `RunLifecycle!FailureIsRecorded` | `RunLifecycle_single` | `wall_time_ms` is a monotonic time minus an epoch time; it does not fit int4, so `_fail_run` raises (`orchestrator.py:791`, `models/run.py:96`) |
| `StepEngine!JoinsWait` | `ExecuteRun` | a join runs after its first predecessor (`orchestrator.py:766`); the seeded triage workflow reads a result not yet there (`it_triage.py:127`) |
| `StepEngine!StepsWithinBudget` | `ExecuteRun`, `MaxSteps = 3` | branch steps are not counted (`orchestrator.py:727`) |
| `StepEngine!BoundariesEmitted` | `ExecuteRun` | a branch emits `step_started` only (`orchestrator.py:727`, `README.md:100`) |
| `AutoPlan!RunIsSettled` | `ExecuteRun` | an exception of the planner leaves RUNNING (`orchestrator.py:557`) |
| `RateLimiter!SlidingWindow` | `Governance`, `Window = 2`, `LimiterTime = 5` | the window is fixed, so twice the limit may pass (`stores.go:68`, `limiter.go:11`) |
| `GovernanceProxy!EveryDecisionAudited` | `Governance` | a failed insert is logged and the decision stands (`proxy.go:193`) |
| `GovernanceProxy!LimitedPerAgent` | `Governance`, two agents with bodies whose `nested` is FALSE, `MaxRequests = 1` | the orchestrator's body has no `request` field, so all agents share a key (`main.go:78`, `orchestrator.py:229-235`) |
| `AuditChain!ChainSurvivesRestart` | `Governance` | a new process starts at "genesis" (`writer.go:43`) |
| `AuditChain!OrgChainValid` | `Governance`, two organisations | one chain for all (`writer.go:70,94`) |
| `AuditChain!ProcessChainValid` | `Governance` | an insert whose answer is lost forks the chain (`writer.go:75`) |
| `Redaction!AllReplaced`, `Returns` | `Governance` | detections are ordered by pattern first, so later indices no longer fit; part of a match stays, or the slice panics (`detector.go:103-105`). One cause. A request whose text does this has neither an answer nor an event (`GovernanceProxy!Panicked`). |
| `WorkflowVersions!HistoryPreserved` | `WorkflowVersions_webhook` | rolling back a draft makes the released version a draft, which the next update rewrites (`workflows.py:404`) |
| `WorkflowVersions!ArchivedUnchanged` | `WorkflowVersions_webhook`, two clients | the check is on the row as read (`workflows.py:287`) |
| `TriageWorkflow!DiagnosisSeesLogs` | `ExecuteRun` | the diagnosis follows the metrics; the logs, two steps away, come later (`it_triage.py:127`) |
| `WebhookIntake!AnsweredIsQueued` | `Requests`, `CommitsFirst = FALSE` | from FastAPI 0.118 on the sender is told 201 before the session commits (`webhooks.py:268`, `database.py:51`) |
| `ToolRecords!HealthIsPersisted` | `Requests` | the upsert names columns the table does not have, both statements fail and the failure is passed over (`workers.py:373-396`, `init.sql:161-180`) |
| `RunStream!EveryStepIsShown` | `Streams`, `MaxSteps = 2` | only the latest count is polled (`runs.py:355`) |
| `RunStream!SettledStreamsEnd` | `Streams`, `RoutePool = 2` | each stream holds the connection of its request while it waits for one to poll with; as many streams as connections wait for each other until the pool's timeout ends them without a last frame (`runs.py:307,327`); the fairness of the model leaves that timeout out, for it is no end of a stream that is served. `get_db` describes a session that "always closes" with its request (`database.py:35-37`) |
| `EventStream!EndedHoldsNothing` | `Streams` | a failed `unsubscribe` skips `aclose` (`events.py:329`) |
| `EventStream!ConnectedMissesNothing` | `Streams` | "connected" is sent before Redis confirms (`events.py:263`) |
| `EventStream!EndsWithRun` | `Streams`, with the fairness of its `FairSpec` | failures and cancellations are never announced |
| `DataHook!SettledShowsParams` | `Streams` | whichever answer is last sets the state (`hooks.ts:39`) |
| `DataHook!AnsweredIsShown` | `Streams` | list routes answer an object, on which `rows.map` raises (`hooks.ts:273`, `workflows.py:224-228`) |
| `KpiWorker!SampleWithinWindow` | `Workers`, `SampleSize = 1` | LIMIT applies to the aggregate's single row (`workers.py:270`) |
| `KpiWorker!WorkflowIsReadable` | `Workers` | a dict replaces the list of definitions the responses declare (`workers.py:297`, `workflows.py:66`); the seeded row holds one from the start (`init.sql:287-300`) |
| `WorkerManager!QuietWhenDone` | `Workers` | `stop` during an outage leaves a reconnecting client (`workers.py:587`) |
| `WorkerManager!QuietAfterStop` | `Workers` | a second `stop` returns at once (`workers.py:564`) |
| `WorkerManager!StartedIsServing` | `Workers` | nothing clears the shutdown event (`workers.py:566`) |
| `ToolCalls!DelayWaits` | `Workers` | a delay over 30 s runs into the inherited timeout (`tools.py:59,1006`) |
| `KnowledgeBase!DeletedGoneEverywhere` | `Services` | the other process keeps its index (`knowledge.py:678`) |
| `KnowledgeBase!IngestedFound` | `Services` | two first ingests collide, the second document goes to the fallback only (`knowledge.py:389`) |
| `KnowledgeBase!SearchStaysInDomain` | `Services` | two names map to one collection (`knowledge.py:375`) |
| `MemoryLayers!StoredIsDurable` | `Services` | `jsonb_set` creates no parent, so nothing is written (`memory.py:171`) |
| `MemoryLayers!DeletedIsGone` | `Services` | a statement that matched no row counts as a deletion (`memory.py:446`) |
| `LlmRouter!StreamsFallBack` | `Services` | a stream asks the role's provider only (`llm.py:345`) |
| `LlmRouter!CostIsBilled` | `Services` | an attempt whose answer was lost is not counted, nor are answers without usage (`llm.py:308`) |
| `LlmRouter!InterfaceIsUnified` | `Services` | an assistant's tool calls do not reach Anthropic, a tool's answer does not reach Gemini (`llm.py:493`, `llm.py:690`) |

Some more are seen in what the properties leave room for. A restart of the proxy forgets the
counters and lets one more limit through (`Allowance`). A run whose status is written over without
an event, by a late cancel, leaves the KPI snapshot stale (`SnapshotIsCurrent` asks for an
announcement after the last change), and of two KPI workers the one that read first may store last.
A hook shows an older answer for as long as it is the last one (`NewestIsShown` asks that nothing
came after the newest). The seeded version was never in staging (`ProductionWasStaged` excepts it).

More are seen by reading alone. A webhook signature that is not ASCII makes `compare_digest` raise,
which is a 500 and not the 401 of a wrong one (`webhooks.py:130`). `useApprovals` posts to routes
that `apps/api` does not have, so its writes fail there. An event that is posted again makes a
second run; nothing promises otherwise. Templates with a path, as in `{{receive_alert.output...}}`,
are never rendered, for results are looked up by the name of a step
(`orchestrator.py:213-222,357-366`). "Append-only, hash-chained" (`README.md:276`) is true of the
proxy's events only: those the API stores leave the hash of their predecessor empty.

On the two of `MemoryLayers`: `:value::jsonb` inside `text()` may not even bind. Creating the parent
alone (the seeded fault `JsonbSetDeep`) breaks `AnswersAreCurrent`: a value whose Redis write failed
would come back after the run's completion replaced the column.

## 6. The proofs

`tlapm` checks these theorems from the named assumptions of the constants (types, positive limits,
finite sets of actors, disjoint names, a graph whose edges are lists), for every value of the
constants: any number of runs, workers, messages, plans, graphs, handlers, keys, versions, rows,
processes and streams. `PROJECT.json` lists the results; every safety property and action property
that a passing run checks, but the type invariants named at the end, is stated by one of them.

**`RunLifecycleProofs`.** `TypeOK` is not inductive: a worker acknowledges the
message it was given and nothing in `TypeOK` says that this message is of the run it executes.
`TypeInv` adds `Linked`, which says so. On top of it each property has its own inductive invariant,
with one step per action in its proof:
- `RunningOwned`: `RunningIsOwned` is inductive over `TypeInv`. What a claim and a failure do to the
  rows and the executors are lemmas (`ClaimChanges`, `FailRunChanges`).
- `QueuedReachable`: `QueuedInv` says that a queued run with an acknowledged message, or one whose
  worker is about to acknowledge, was handed over to a resumer.
- `GatesHold`: `PassedInv` says that no executor stands behind an approval step and no step behind
  one has run. It is stronger than the property: since a resumed run starts from its first step, the
  code never executes a step behind a gate, approved or not (the disagreement `ResumeContinues`).
- `CompletedRan`: `DoneInv` says that every step before the one an executor has reached took effect,
  through this executor or one before it.
- `SettledFinal`: an action property; `SettledStep` shows for each action that a row nobody holds an
  older read of is left alone.
- `OneWorkerOnce`: under `OneWorker`, `OnceInv` says that a run that is queued, or about to be
  claimed, is untouched, and that a run under execution is not queued. This is why a redelivery
  cannot repeat a step, and with two workers it fails.
- `AwaitingRequested`, `AnnouncedAcked`: a run that awaits has a request; `runs.completed` follows
  an acknowledgement.
- `LifecycleImplementsRow`: what an actor has read and not used up yet is its permit (`Permits`),
  and with `TypeInv` each action is one step of `RunRow` or leaves its state alone (`RowRefined`):
  an action that writes the status does so on a permit of its actor for that very run. `RunRow` does
  not say that the status is still the one that was read, for nobody reads it again (section 5,
  `CancelIsFinal`). `RowsEnd` says what can be built on `RunRow` alone.

**`EngineProofs`.** `EngineInv` has a part for each kind of run.
- *Defined workflows.* `WorkflowInv`: the queue holds targets of the graph, what has a result was
  visited, and while the run goes on the visited steps are those with a result. `EngineTyped`
  follows: no step has two results.
- *The walk.* With it `EngineImplementsWalk`: what the queue holds and has not been visited is what
  the abstract walk calls ready. The two agree because `Without` keeps exactly the successors not
  yet visited (`WithoutKeeps`), which is a fact about a recursive function for sequences of every
  length. The library's induction theorems are of no use here, so it is proved by the least number
  for which it fails (`LeastNumber`).
- *Limits.* `SpentInv` says what is spent after a step that began below the limits
  (`EngineHoldsLimits`); `CallsInv` that a step of a definition makes one tool call at most.
- *Repetition.* The detector keeps `2 * Window` hashes. `PlanInv` says that these are the latest of
  the steps done, hence the latest `Window` of them are the latest of all (`LatestTwice`), and
  `PlanFresh` that no prefix of what was done ends in a repetition (`EngineNeverRepeats`).
- *Triage.* `TriageInv`: the results are a prefix of one order (`TriageOrder`), and what waits
  behind each prefix is known (`TriageWaits`), with two alternatives: an approved resolution stands
  at its gate after the decision, and the second `kpi_update` is looked at and dropped. A step keeps
  it because `Without` is known of the short queues that occur (`WithoutShort`). `TriageRunsInOrder`
  reads the templates' names against the order.

**`GovernancePartsProofs`.** Of the limiter, `WindowInv` splits the admitted requests of a key at
the opening of its current window: those since are as many as the counter says, capped at the limit,
and all of this process (`Dated`); a request followed by as many earlier ones as its process and the
later ones may let through lies more than a window before the opening (`Spaced`). A new store opens
no window but allows one more, which is what `Allowance` counts, so that the restart is a step of
the proof and not an exception to it. `RateBound` and `RefusalJustified` follow. Of the writer,
`ChainInv` says that the event in a handler's hands carries the writer's hash, and that this is the
hash of the stored events, or of all but the one whose handler has yet to advance it. At most one
handler is in that position, by the mutex (`WriterTyped`). `WriterChains` follows.

**`GovernanceProxyProofs`.** `TypeInv` says what a handler holds at each stage, and that it is
inside `Write` exactly while its evaluation waits for its event. With it each step of the pipeline
is a step of the limiter, of which a restart is one (`LimiterPart`), and a step of the writer
(`AuditPart`), so that `WindowInv` and `ChainInv` carry over: `PipelineRateBound`,
`PipelineRefusals`, `PipelineChains`. `PipelineInScope` rests on `ScopeInv`: the policy in force is
among those a handler at work has seen, also when it is replaced between two stages.
`PipelineAudited` rests on `RecordInv`: no event of an evaluation is in the table before its handler
inserts it, evaluations at work have distinct numbers and have not been answered, and while a
handler has yet to advance, the last row is its own. `RedactionIsExact` is about `Redact` by itself.
`DetectIsExact`: what `Detect` returns are the matches, each once, because the order of patterns and
places numbers them without a gap (`RankOrders`). `PiiInv` is the invariant of the loop. The cells
in front of the first match replaced so far are as they were (`Untouched`), and behind them
everything is left, in its order, that is in none of those matches (`Exact`). One replacement keeps
it (`SplicedExact`), and the next match lies in the untouched part, so no index is stale. This is
where the order of the matches is needed: out of it the invariant fails, and so does the code
(section 5). Every property of the run `governance` is thus proved, for any number of handlers,
keys, policies, requests, restarts, patterns and cells.

**`ServicesProofs`.** The components of `MCServices` share no state (`ServicesAreParts`).
- *List routes.* `SplitInv`: the cursor splits the rows; what was returned lies at or before it, and
  what stayed selected and lies at or before it was returned. Hence `WalksRepeatNothing` and
  `WalksMissNothing`, and with them `WalksAreExact`, which rest on `Before` being a strict total
  order (`BeforeOrders`).
- *Chunks.* `ChunkInv`: the next window starts an overlap before the end of the last, and
  within the text. `TextIsTiled` follows for every chunk size, overlap and length.
- *Knowledge base.* `KnowledgeInv`: beside the types, an upsert that succeeded and is not torn by a
  delete is in the store (`UpsertedHeld`); while a delete is in flight nothing of its collection is
  counted on, nor will be (`DeleteTears`), and whatever may come back behind it is spared
  (`DeleteSpares`); what is gone is on its way nowhere (`GoneNowhere`). `CompletedStaysDurable` and
  `DeletedStaysGone` follow.
- *Memory.* `MemoryInv`: Redis holds the latest value or that of a write in flight
  (`RedisExplained`), each operation knows the writes it overlaps (`OverlapsKnown`), and a write
  that reached Redis prevails there until another one (`WritePrevails`). The proof of
  `MemoryAnswersCurrent` needs `output.memory = Absent`: the column never has a `_memory` part,
  because `jsonb_set` creates no parent. The property is thus true of the code because of a defect
  (section 5); with the parent created, the column could answer with an old value.
- *Router.* `RouterInv`: a call asks the profile of its role, with nothing else configured or with
  the fallback still behind it, or it asks the fallback after the first; it fails only at the end of
  what is configured, and settings are again as configured whenever a step ends
  (`RouterFallsBackLast`).

**`WorkersProofs`.** The components of `MCWorkers` share no state (`WorkersAreParts`).
- *KPI worker, shared.* `TypeOK` of `KpiWorker` is not inductive alone: a message handed out once
  more could exceed `MaxDeliver`. `DeliveryLeft` says that what waits has a delivery left.
  `NoneAhead`: neither the snapshot nor one about to be written counts more than has ever settled
  (`CountsStayTrue`). It cannot say "more than is settled", for a late cancel or a second executor
  may write over the status of a run that was counted.
- *KPI worker, alone.* `SnapshotInv`: what the worker is about to write is the aggregate of the runs
  as they are, or some run that ever settled has no acknowledged announcement since its last change
  (`Open`), nor will have when the worker acknowledges the event in its hands (`Late`). A change of
  status makes all earlier events about its run old, which is why `told` is kept.
  `SnapshotStaysCurrent` follows.
- *Manager.* `ManagerInv`: before shutdown no stopper has begun, and a start that reached the KPI
  worker has subscribed the run worker (`LoopsHaveSubscriptions`).

**`RequestsProofs`.** Versions and webhooks share state; the tool records have their own
(`RequestsAreParts`).
- *Versions.* `StagedInv`: live versions were staged or seeded (`Vetted`), readers of a live status
  know it of such a version, and every version with a successor is one (`PrecedingStaged`), because
  only a staged or released version is copied into a new one. Without the last part a rollback could
  release a version that never was in staging. The seeded version is the first of its lineage.
- *Webhooks.* Editors move beside the handlers, so these proofs rest on those about versions.
  `IntakeInv` says that the version a handler carries was released, whatever became of it since
  (`WebhookRunsReleased`), that a refusal was of a post that can never be accepted, and that a 201
  is in a handler's hands only when its run is stored. With `CommitsFirst`, every step of the intake
  is a step of `EventInbox` or leaves its state alone (`IntakeImplementsInbox`); without it the
  third part fails, and with it the promise.
- *Tool records.* `RecordsInv`: at most one request has an uncommitted write of a row (`OneWriter`),
  which the row lock and the unique index provide; one that registers has found no tool and one that
  changes has found one (`Prepared`); each field is as the last event that names it says (`Told`).
  `AuditTellsAll` follows.

**`StreamsProofs`.** The components of `MCStreams` share no state (`StreamsAreParts`).
- *Events.* `ServiceInv`: a live stream without a gap has sent one frame for every event between its
  first and its position, each in its place (`FramesStayInOrder`).
- *Data hook.* `HookInv`: the newest request is for the parameters of the latest render and, once
  served, no older than the user's last question or write (`NewestBrings`). Nothing is said of the
  order of answers, so what is shown is known only while the newest request is the last to have
  ended. `NewestStaysShown` follows.
- *SSE route.* `RouteInv` bounds the connections in use by the pool (`RouteKeepsPool`), counting
  those that asked and those that yield, whether the session of a request ends before its stream
  begins or is kept with it.

**What the proofs changed in the models.** `Outcome`, the refinement mapping of `ExecuteRun`, had
two `CASE` arms that overlapped in a plan's run, so which one applied was not determined: the second
now asks for a defined workflow. Assumptions that TLC's instances met without being stated are
stated: the edges are sequences (`GraphAssumption`), the routing modes are those of
`core/config.py:16` (`RouterAssumption`), runs and clients are finite sets (`KpiAssumption`,
`StreamAssumption`), "none" and "system" are no organisations (`RecordsAssumption`), requests are no
executors (`ClientsAssumption`). `Detect` and `OrderedIsExact` were written with library operators
that sort and flatten sequences, of which nothing can be proved: `Detect` now numbers the matches by
their order, and the property says what is left of the text, in which order, and how long it is. The
`MC` modules take the sets of their components as constants, so that the theorems are about all of
them.

**Only model-checked.** Liveness (`EnqueuedRunStarts`, `Terminates`, `EveryRequestAnswered`,
`StopReturns`, `SettledStreamsEnd`), which needs ENABLED, and the type invariants of `MCWorkers`, of
which the proofs need and contain that of the shared KPI worker. Every other property a passing run
checks is proved; the disagreements of section 5 are counterexamples.
