# dynagent-go in TLA+

A verification development kept beside the dynagent-go source: TLA+ modules
translated from the Go code, TLC configurations that check them on small
instances, and TLAPS proofs of theorems about them. Paths below are relative to
`src/`.

## 1. The system

A task is posted over HTTP. The engine then loops: ask the AI gateway for a
decision, check the chosen node's admission rules, execute the node in the
sandbox, merge its patch into the task's state, store the task, a snapshot and
the step; until the AI terminates the task, a guard does, or something fails.
A task can be resumed from its latest snapshot.

| Component | State it keeps | Operations | Talks to |
|---|---|---|---|
| Execution engine `internal/engine` | locals of each `Run`: state, copy of the step, visits, step, reason | `Run` | all of the below, synchronously |
| State bus `internal/state` | version, status, memory, outputs, decision log, ext | `New`, `ApplyPatch`, `AppendDecision`, `ReadOnly` | engine, nodes (copies) |
| Stores `internal/persistence` | tasks, steps, lineage, snapshots, summaries, trajectories, patterns | one method per table | engine, memory engine, resume, HTTP readers |
| Memory engine `internal/memory` | none (in the store) | `RecordStep`, `Finalize`, `RecommendNodes` | store |
| Summary `internal/summary` | none | `Build` | engine |
| Sandbox `internal/sandbox` | a weighted semaphore; per call two contexts, two channels, a goroutine | `Execute` | nodes |
| AI gateway `internal/ai` | limiter, circuit breaker | `Decide`, `GenerateText` | providers |
| Mock provider `internal/ai` | none | `Invoke`, `GenerateText` | gateway |
| Node registry `internal/node`, `pkg/contracts` | builtin and dynamic entries, processes | `LoadManifests`, `watch`, `Get`, `List`, `Close`; remote `CheckBefore`, `Execute` | file system, node processes, runs |
| Node runner `cmd/node-runner` | a listening socket | `GetMeta`, `Check`, `Execute` | registry, remote nodes |
| Rules `internal/rules` | cache of compiled expressions | `Evaluate` | engine |
| Builtin and weather nodes | none | `CheckBefore`, `Execute` | sandbox, gateway |
| Configuration `internal/config` | none | `Load`, `ApplyDefaultsAndValidate` | everything that is built from it |
| Server `cmd/server`, `internal/app` | the parts | start, stop by signal | all of the above |
| HTTP router, resume `api/http`, `internal/resume` | none | create, get, replay, resume | engine, store |

What is hard here, and what makes each component correct:

- *Engine and stores.* Every step is four separate writes; a crash, a lost
  reply or a deadline may fall between any two. Runs of different tasks share
  slots and registry, and nothing keeps two runs from the same task. Correct
  means: no patch is merged before those its rules ask for; versions,
  snapshots, steps and summaries agree with each other at every crash point;
  the verdict says what the decisions add up to; every run returns.
- *Sandbox.* A context may end at the very moment a token is handed over; a
  result, a panic and a timeout may race. Correct means: no token and no
  wake-up is lost, outcomes are true, calls return and goroutines end even when
  nodes hang.
- *Gateway.* Answers arrive in later generations of the breaker than they were
  asked in. What a model is offered, how its reply is read (one reader per
  vendor, several places to look in) and what is accepted are written apart.
  Correct means: each request is counted once, limits hold, a returned decision
  is usable, a model that does as it was told is understood, every request
  returns.
- *Registry.* Files change while they are loaded, processes exit while they are
  looked up, the server closes or dies while it loads, requests to a node travel
  while it is replaced. Correct means: once the watcher has caught up, the
  registry says what the files say; a node has one process, and a server that
  closed leaves at most one behind; a run asks remote nodes for one step after
  another, and what its task stored was carried out.
- *Rules.* Sets nest, operators default, expressions may be blank or broken.
  Correct means: what cannot be evaluated does not admit, and what was admitted
  holds of the state the patch goes into.
- *Configuration.* Settings are completed field by field. Correct means: what is
  built never meets a bound that is not positive or a provider it does not know.
- *Mock provider and nodes.* Neither has memory; order and once-only come from
  the state alone, also after a resume.

`PROJECT.json` lists the hazards line by line.

## 2. The modules

| Module | Models | Remarks |
|---|---|---|
| `TaskState` | state bus | memory, outputs and patch keys are abstracted to `merged`, the sequence of nodes whose patches went in |
| `TaskStore` | the tables of both stores | a table is a function from its key: position (memory) or primary key (postgres, where a known key is overwritten) |
| `Rules` | admission rules: `Evaluate`, `evaluateRule` | the states a rule set allows, as a recursive function on rule sets |
| `TaskEngine` | `Engine.Run`, its callers and environment | any number of concurrent runs; extends the three above |
| `DurableTask` | abstract: what a reader of the store may rely on | refined by `TaskEngine` |
| `Sandbox` | `Executor.Execute`, with the semaphore of x/sync | |
| `SlotPool` | abstract: what the engine relies on | refined by `Sandbox`; includes fairness |
| `ModelReply` | functions offered to a model, and how each family of providers reads a reply | pure |
| `Gateway` | `Decide`, `GenerateText`, with gobreaker as configured | extends `ModelReply` |
| `Configuration` | defaults and validation of the settings | pure; `MCGateway` derives its constants with it |
| `NodeRegistry` | manifests, watcher, processes and the node runner, remote calls, lives of the server | |
| `BuiltinWorkflow` | mock provider, builtin and weather nodes, under one run at a time | |
| `TaskEngine_proofs` | types, versions and admission of the engine, and the lemmas on its actions | |
| `EngineGuards_proofs`, `EngineDurability_proofs` | guards and verdicts; stored history and the refinement of `DurableTask` | extend `TaskEngine_proofs` |
| `Sandbox_proofs`, `Gateway_proofs`, `NodeRegistry_proofs`, `Configuration_proofs`, `BuiltinWorkflow_proofs` | theorems about the module of that name | |
| `MC*` | constants for TLC | |

How state and actions correspond to the code:

- **TaskEngine.** A run is a goroutine; `pc[r]` names its place in `Run`, one
  label per store call or other point where something else can interleave, so
  each write is an action (`SaveTask`, `SaveSnapshot`, `SaveStep`,
  `SaveLineage`, `SaveSummary`, `FinalUpdate`). `BeginStep` is the head of the
  loop with the deep copy (`readonly`) that admission and execution use.
  `Write` gives every postgres call three outcomes: done, done with the reply
  lost, refused; a context that is over only refuses. Postgres reads of the
  steps may also break off unnoticed (`RowsBefore`). The node's result, the
  AI's choice and rejections by the node itself are nondeterministic.
  A row of the memory store is a Go struct whose maps stay those of the run that
  stored it: `row[t].maps` names that run, and what a reader sees in the maps is
  the run's `st`, patches merged since and in vain included.
- **Rules.** An expression is kept as what it asks of the merged patches (has,
  lacks), or as blank or broken. A path glued to a bracket, which
  `normalizeExpression` reads as one long key, is broken in this sense.
  Postgres is taken together with the optional redis, which then holds the
  trajectories; the alternative without redis only leaves that table empty.
- **Sandbox.** Each critical section of the semaphore's mutex is an action.
  `GiveUp` covers both sides of the race between the context's end and the
  token. Channels of capacity 1 are sets of calls whose channel is full.
- **Gateway.** The breaker's mutex makes `Enter` and `Leave` one action each;
  `due` says that the expiry of the current generation has passed. A
  reply is a record of the lists its adapter looks into; of a route or plan the
  function name, node names and whether edges name their ends are kept.
- **NodeRegistry.** `stage` is the place of the loading goroutine in
  `loadManifest`; the directory's editor, node processes and their reapers run
  beside it. Entries named by files are unloaded by `Stem`. The auxiliary
  `unseen` holds the files whose last change the registry is not told of.
  `serving` says which process has a node's address: a process that cannot
  listen ends. `life` counts starts of the server; `Leave` drops what it had in
  memory and keeps files and processes. `call` has the run a task is at and
  every request its runs sent to remote nodes: a request outlives its caller,
  the run and the server, and may be carried out after all of them
  (`Perform`), beside those of a later run. `Ask` is a `CheckBefore` that is
  answered and the sending of `Execute`'s request; `Receive` takes the stores of
  a hop together, which `TaskEngine` has one by one, and lets the run fail before
  or after its snapshot. A task is resumed when its run is over (`ResumeRun`).
- **Configuration.** A setting that is left out is 0 or empty, as yaml leaves
  it. `Completed` and `Accepted` are the two halves of
  `ApplyDefaultsAndValidate`.
- **BuiltinWorkflow.** A hop of the engine's loop is one action; of the working
  memory the keys that are there are kept.

Libraries (x/sync semaphore, gobreaker, fsnotify, os/exec) are modelled from
how the code uses them and marked external in the map.

## 3. The runs

| Run | Question | Instance |
|---|---|---|
| `MCMemorySequential` | row, snapshots and summary on the memory store; refinement of `DurableTask` | 1 task, 2 runs one after the other, 2 nodes (b's rules, nested and partly broken, need a; b may return a patch that cannot be cloned), 3 steps, planning, 1 crash |
| `MCPostgresFaults` | one restorable history on postgres; refinement of `DurableTask` | 1 task, 2 runs, 2 nodes (b needs a, and that b was not there before), 2 steps, failing calls, lost replies, 1 crash |
| `MCConcurrent` | what holds of each run when two work on one task; every run returns | 2 concurrent runs, 1 hot-loaded node, 1 slot, 2 steps, planning, checks that panic or hang |
| `MCSandbox` | tokens, wake-ups, outcomes, ends of calls and goroutines; refinement of `SlotPool` | 3 calls, 1 slot |
| `MCGatewayBreaker` | counting and limits of the breaker | 2 callers, 8 requests: enough to trip (5), probe, recover, and meet answers of older generations |
| `MCGatewayDecisions` | replies, offers, fallback, every request returns | 1 caller, 7 requests, 2 attempts, an openai-compatible primary and an anthropic fallback with 9 replies each, every candidate set |
| `MCRegistryReload` | registry against files, processes across close, kill and restart, remote requests across runs, events caught up with | 2 files (one of a process, one of a node elsewhere that hides a builtin, in two revisions or broken), 3 edits, 2 starts of processes, 2 lives of the server, 1 task with 2 runs and 2 remote executions |
| `MCWorkflow` | order, completeness, budget, tools run once | server and demo, mock or any model, 5 steps (the default is 12), 1 resume |

Four more runs each exhibit one disagreement between the code and what the
repository says of it (quotes in `PROJECT.json`): a failed node leaves its task
running (`MCFailedTaskStaysRunning`), a resume overwrites step rows on postgres
(`MCResumeOverwritesSteps`), a task without keywords cannot end on postgres
(`MCNoKeywordsOnPostgres`), abandoned nodes exceed the limit of the sandbox
(`MCSandboxAbandonedNodes`).

**Conditions some properties carry.** The properties of `MCMemorySequential`
and `MCPostgresFaults` are checked with `ExclusiveRuns = TRUE`: the client
resumes a task only when no run has it. The code does not enforce this
(section 4); `MCConcurrent` checks what holds without it.
`SettledRegistryIsCurrent` exempts the files in `unseen`, changed between the
listing of the directory and the start of the watch or moved away, and is
checked with files named after their node. The properties of the mock provider
say `model = "mock"`, and completeness is not claimed of the demo asked for
something else than the weather.

**Bounds.** `MaxSteps`, `MaxSameNodeVisits`, `MaxParallelNodes`, `MaxAttempts`,
`MaxProbes` are settings of the code and small so that every guard is reached.
`MaxCrashes`, `MaxAsked`, `MaxEdits`, `MaxStarts`, `MaxLives`, `MaxRuns`, `MaxCalls`
and `MaxResumes` bound the environment only. Two runs are enough for a run and its resume, two nodes for a
rule and its violation, two steps for both guards (a plan uses up one) and for
the number of a step to be used again. Two calls beyond the free slot give a
queue in which a waiter that is not the first leaves. Runs with bounded requests
or edits really end when these are used up: there `CHECK_DEADLOCK FALSE` is
set; the engine, the sandbox and the workflow are checked for deadlock, with an
explicit step once everything has returned.

The gateway runs have planning on; of a plan that comes while planning is off
speaks the theorem `DecisionsAreChecked`. The demo of `MCWorkflow` is never
resumed, as in the code: resumes there are the server's.

**Fairness.** Weak fairness of a goroutine's own steps (Go schedules runnable
goroutines; model requests and node executions have timeouts of their own:
`InvokeFails`, `ExecuteFails`, `NodeTimeout`) and of the timers of the sandbox.
The one step of a run that is not fair is its `CheckBefore` (`InCheckBefore`):
a node of the same process is asked in the run's goroutine without a timeout
(`engine.go:174`; a remote node's check has one, `node.go:334`). So
`EveryRunReturns` says that a run returns or stays in a check of its own for
ever, and that a check which hangs holds up no other run. It does not rely on
the deadline of the task: `Expire` may happen and need not. Nodes need not return, tasks
need not be cancelled, stores need not recover, and the registry's properties
ask nothing of processes, files or signals: only its own goroutine is fair. The
largest run (`MCPostgresFaults`) has 1.5 million distinct states and takes under
three minutes with two workers.

## 4. Disagreements without a run

Read while modelling; the models behave as the code does, and no run is spent
on them:

- A node unloaded between the list of candidates and `registry.Get` ends the run
  with an error (`engine.go:161`); `docs/design.en.md:130` goes back to the
  decision.
- The counter of failed tasks (`observe.go:52`) moves only when `Decide` fails
  (`engine.go:101`).
- A resume neither checks nor locks the status of its task (`router.go:116`), so
  a task that is running gets two writable states whose snapshots fork;
  `docs/architecture.en.md:58` speaks of the only writable task state.
- `GetTask` never asks `rows.Err()` (`postgres.go:155`): a read that breaks off
  gives a summary that misses steps.
- The trajectory names its last node twice (`memory.go:20`), and a plan enters
  the pattern as the node `""` (`memory.go:66`); `docs/architecture.en.md:70-72`
  has trajectories recorded and nodes recommended.
- A panic in `CheckBefore` is outside the sandbox (`engine.go:174`);
  `docs/architecture.en.md:53` says no panic escapes to the engine. So is a
  check that never returns: no timeout ends it, and the run stays.
- A patch that cannot be serialised is found out after the merge
  (`state.go:180`), in maps the memory store shares; `docs/design.en.md:186` has
  it validated before. `RowKeepsPace` bounds what readers see of it to one patch.
- `GenerateText` does not go through the breaker (`gateway.go:176`);
  `docs/architecture.en.md:40` says the gateway applies circuit breaking.
- A manifest added before the watch begins is not loaded (`node.go:162`), the
  process of a changed one is kept (`node.go:249`), and one that is misnamed or
  moved away stays (`node.go:196`); `docs/integration.zh-CN.md:457-459` has all
  of them followed.
- A process that was started while the server closes is not told to end
  (`node.go:109`), and one that outlives a killed server keeps the node's
  address, so that the next server's own cannot listen; `Close` reads as if it
  ended all of them. `CloseLeavesAtMostOne` says how many it can miss.
- An openai reply with several calls in `output` is taken by its first
  (`gateway.go:1053`), one with several `tool_calls` is refused, as is one of
  anthropic with several blocks.
- Server timeouts are replaced only when they are 0 (`config.go:138`), every
  other duration when it is not positive; `failure_ratio` above 1 is accepted
  and keeps the breaker from ever opening; `storage.backend` is checked when the
  store is opened, not with the rest.
- The demo, asked about anything but the weather, terminates with the reason
  that the answer was produced (`gateway.go:520`); `query_weather` checks for a
  blank location what `fmt.Sprint` made `<nil>` (`weatherdemo.go:276`).

## 5. What is proved

`TaskEngine_proofs`, for all runs, tasks, nodes, either store, all bounds and
faults, from the assumptions on constants in the modules:

- `TypeCorrect`: `Spec => []TypeOK`. `TypeOK` is inductive because of its part
  `ControlOK`, which says at which labels a run has a task, a chosen node and a
  verdict. One lemma per action.
- `VersionsCountPatches`, `AdmissionIsRespected`: from the inductive
  `HistoryInv`. Neither property is inductive: a rule is checked on the copy
  made at the head of the step, while the patch goes into the live state some
  actions later. The invariant adds that copy and state have the same patches
  from the decision to the admission, that the chosen node is admitted with
  respect to the live state until it is executed, and that versions and
  admission are sound in every state, copy and snapshot at once, since a resume
  makes a snapshot a state again.

`EngineGuards_proofs`, for any number of concurrent runs, without further
hypotheses:

- `GuardsHold`: from `GuardOf`. A visit is counted when a node is chosen, and a
  merge follows some labels later or never, so counters of steps and visits are
  ahead of the merges by one while a chosen node has not been merged. What a run
  merged is counted from where its snapshot ended (`base`). Lemmas on how often
  a node occurs in a suffix (`Times`) carry the proof.
- `VerdictIsExplained`: from `VerdictOf` and `StoredVerdicts`. A run counts a
  visit only for a decision it also records, so a node over its limit occurs that
  often in the log (the converse fails: a resume starts its counters at 0 with
  the log it restored). No terminating decision is in a log before its run
  leaves the loop, and snapshots are taken inside the loop only, so a resume
  never starts from one. A summary is written from one run's verdict and log
  at once, which is why runs that share a task do no harm here.

`EngineDurability_proofs`, under `ExclusiveRuns` where nothing else is said: a
task is resumed only when no run has it. The code leaves this to its caller
(section 4), and the hypothesis is needed: with two runs on one task TLC breaks
`VerdictIsSummarised` on the instance of `MCConcurrent`, and the properties of
snapshots, steps and returned work on that of `MCPostgresFaults`.

- `SnapshotsAreOneHistory`, `StepsCanBeRestored`: from `DurableInv`. While a run
  has a task its state is what the latest snapshot restores, plus one patch
  between merge and snapshot; it has decided something no snapshot has recorded;
  and nobody else writes (`Exclusive`). `Fresh` covers tasks nobody ran.
- `SnapshotsStay`: a snapshot is never rewritten because versions count patches
  (`VersionsCountPatches`). The memory store needs no hypothesis, as it keeps a
  list; postgres, keyed by version, does.
- `ReturnedWorkStays`: also assumes a store that outlives the process, postgres
  or no crash. The memory store is lost with the process: TLC breaks the property
  on the instance of `MCMemorySequential`, whose process may crash.
- `VerdictHasSummary`: from `SummaryOf`. A run keeps the row of its task open from
  its first write to its last, which comes after the summary of equal status.
- `MemoryRowKeepsPace`: of the memory store only (in postgres the columns of a row
  are values, and the version of a row is not kept). From `PaceInv`: from its
  first write a run is the only one the row shares its maps with, so whoever adds
  a snapshot moves the row along.
- `EngineIsDurable`: `Spec => ImplementsDurableTask`, the complete refinement,
  since `DurableTask` states no fairness. `SaveSnapshot` maps to `Commit`, the
  first write of a run to `Accept`, to `Reopen` or to a stutter, `FinalUpdate` to
  `Close`, the crash of a process with a memory store to `Forget`; all else
  stutters. A call that is refused stutters too; one whose reply is lost takes its
  step although its run ends with an error. That `Commit` meets the rules is `AdmissionIsRespected`,
  that the task is open at that moment `SummaryOf`.

`Sandbox_proofs`, for any number of calls and slots:

- `TokensAreNeverLost`, `WaitersWaitForSlots`: from the inductive `SlotInv`:
  the count is the cardinality of the holders, the queue has no duplicates,
  holds only queued calls, and is empty while a slot is free. Lemmas on serving,
  joining and leaving the queue carry the proof.

- `TypeCorrect`, `OutcomesAreReported`: the outcome of a call is tied to what its
  node's goroutine has sent and where that goroutine is (`OutcomeInv`), as a
  result may be in the channel long before it is picked up, or never be.
- `ExecutorIsPool`: every step is a step of `SlotPool` or none, under the mapping
  `Phases` that TLC also uses; the fairness of the pool is left to TLC.

`NodeRegistry_proofs`, for any files, nodes, manifests, lives of the server,
processes and calls:

- `TypeCorrect`.
- `NodeHasOneProcess`, `CloseIsThorough`: from `ProcessInv`. While the server is
  up a process it did not tell to end is in its map, or is the one the load under
  way has started and not registered; in that case the map has none of the node,
  as a registration is the only way in and a reaper removes only the process it
  waited for. Close tells all in the map, so that load's process is all that can
  be left.
- `RunsStayInStep`: from `InStep`. Every request of a run but its last was
  carried out before the next was sent and is of an earlier step than the run is
  at; only while its caller waits is the last one of the step the run is at. A
  run whose call fails is over, so it never asks beside a request under way; a
  run that resumes the task may, and then the late request is of another run.
- `RegistryIsCurrent`: under `FilePerNode`, every manifest in a file of its own
  which is named after its node, as the removal handler presumes (it drops the
  entry by the name of the file). Without it the property is false: a file that
  goes takes along an entry another file made, or leaves its own. The invariant
  `CurrentInv` says where what a file says may be instead of the registry: not
  told of yet, failed, still to be listed, in an event to come, or being loaded;
  and that a load or a removal which a change has overtaken has an event of that
  change after it. The files of the runs satisfy the assumption.

`Gateway_proofs`, for any callers, replies, attempts, probes and thresholds:

- `TypeCorrect`.
- `BreakerCountsRight`, `BreakerProtects`: from `Sound`: counters agree with the
  requests of the current generation under way, and no request under way is of a
  later generation. The second part is what makes a new generation start with
  none, which the first needs.
- `DecisionsAreChecked`, `FallbackIsTried`: nothing is answered before the model
  has been heard, and the model and attempt asked say which answers are possible
  (`PathInv`). Replies are arbitrary here.
- `OffersAreUnderstood`: the schemas, the three adapters and the two checks agree
  on every call that is offered, in every form a provider may send it. The state
  contributes its types only; of the constants it uses that what stands for
  missing or unreadable arguments is not an object (`ArgumentsAreObjects`).

`Configuration_proofs`, for everything a file may say:

- `CompletedIsFinal`, `AcceptedSettingsFit`: no default is itself replaced, and
  what the server is built from meets `BoundsAssumption`, the sandbox's and
  `GatewayAssumption`. The settings the gateway runs use are made this way.

`BuiltinWorkflow_proofs`, for any budgets and, on the server, any number of
failures and resumes:

- `WorkflowTyped`, `ToolsAreUsedOnce`: each key of the working memory is set by one
  tool only, which its own check refuses once the key is there. It speaks of the
  demo, which is run once and never resumed; any model is covered, not only the
  mock.
- `NodesFollowPlan`, `CompletedTasksAreWhole`: from `PlaceInv`. In the run and in the
  snapshot alike, what was merged is the first `k` stops of the itinerary and the
  working memory holds just what these set; from that alone the provider names
  the next stop. That both agree is what survives a resume.
- `MockFitsBudget`: with `MaxSteps >= 5` and `MaxSameNodeVisits >= 1`: every step of
  a run planned, once, or added a patch, and the last one concludes: 1 + 3 + 1.
  The defaults are 12 and 3; a file may set less, and then the property fails.

`AdmissionIsRespected` holds of any rule sets: that a rule asks for absence, or
nests, plays no part, since copy and live state agree on the patches from the
decision to the merge. `Evaluate` is a recursive function whose value on a given
rule set is not computed in proofs.

**Only model-checked.** The liveness properties `EveryRunReturns`,
`EveryCallReturns`, `GoroutinesEnd`, `EveryRequestReturns` and
`RegistryCatchesUp`, and the fairness of `SlotPool` in `ImplementsSlotPool` (its
steps are proved): leads-to under fairness, and ENABLED, are outside this
prover's reach. Of the safety properties of the runs every one is a theorem,
under the hypotheses above.

## 6. What is not modelled

Prompts and request headers of the providers, `ValidateProviderRuntime` (called
by the demo only), the JSON codec of the gRPC messages, tracing and metrics (but
for the two task counters), `Registry.List` and `GET /v1/nodes`, the dispatch of
HTTP routes and the writing of answers, CEL evaluation inside one rule, the
ranking of recommendations and the recall of patterns (advice to the model, which
no guard depends on), key by key contents of patches, the redaction list of
sensitive fields, and settings nothing else depends on. The router registers the
resume handler under GET only, so over HTTP it is not reached by POST; the
models start at the handler.

## 7. Plan

Done: `TaskState`, `TaskStore`, `Rules`, `TaskEngine`, `DurableTask` and their
first proofs, then `Sandbox`/`SlotPool`, `ModelReply`, `Gateway`, `Configuration`,
`NodeRegistry` (with the server's lives and remote calls) and `BuiltinWorkflow`,
each with proofs; every safety property of the runs and the refinement of
`DurableTask` are proved. Next, in this order:

1. Proofs: what the engine does guarantee of two runs on one task, beyond
   guards and verdicts; that the workflow's own loop is one of the engine's.
2. Patterns: upserts that merge overlapping keywords in memory and equal ones in
   postgres, and what is recommended from them.
3. Composition of engine and registry: a run whose entry is replaced between
   `List`, `Get` and the call.
