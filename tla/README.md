# A TLA+ model of easy-flow-agent

The repository is a monorepo of plugins and tools around the OpenClaw agent
host: plugins that run inside the host process (workflow-controller,
transcript-analyzer, cost-guard, model-router, file-serve, portal-notify-tool,
the vector store plugins), the command line program `easyflow`, and batch
programs (migrate-memory, scripts/daily_process.js). Paths below are relative
to `src/`.

## 1. Inventory

| part | state | operations | talks to | what is hard |
|---|---|---|---|---|
| workflow store (`packages/workflow-controller/src/store.ts`, `tools.ts`) | one JSON file per workflow and agent | create, advance, branch, block, update_context, resume/close, status | called by the agent through tools | a handler that awaits between load and save; branches back; two views of progress; lookup by issue |
| plugin and context engines (`packages/workflow-controller/index.ts`, `context-engine.ts`) | the shared engine, per engine `agentDir` and `activeWorkflowId`, tool sets bound to engines | factories called by the host, tools, `assemble` | reads the store; wraps the host's engine | factories in any order, one engine for several agents, restarts |
| task flows (`taskflows/*.ts`) | constants | read by the agent, passed to create | the store | fallback to pending steps, alternative outcomes |
| workflow-state-converter, agent-state-converter, flow-loader, validators | none | pure conversions | tests, other packages | a second implementation of advance |
| spend file (`packages/transcript-analyzer/src/quota.ts`) | spend per month in a file, a copy in memory, a lock directory | check, addSpend | all processes on one cache directory | stale locks, time-outs, failed writes, crashes |
| analyze pipeline (`analyze-transcript.ts`, `fallback.ts`, `cache.ts`, `gemini-client.ts`) | cache entries, session and file-day counters | one call: lookup, quota, Gemini stages, record | spend file, Gemini | concurrent calls, partly failed stages, time-outs |
| list, search, redaction, injection guard | none | read and filter text | transcripts | text only |
| image store (`packages/easyflow-cli/src/store`) | digest directories and tag links | save, load, remove, list, prune | builder, deployer | several CLI processes without a lock |
| deployer, Fly adapter, deployments log (`packages/easyflow-cli/src/deploy`) | the Fly app, its volumes, secrets and release; a log file | plan, deploy, append | flyctl, image store, the rendering script on the machine | failures between remote steps, redeploys, two deploys at once, a log without a lock |
| Agentfile parser, converter, validator, inspector, builder, OCI packing, config | files of one run | pure functions and sequential I/O | image store | inheritance of templates |
| pinecone-context-engine | a remote vector index | ingest, assemble (classic, rag, parallel), compact | vector clients, host | batches and retries, compaction lets the host delete, budgets, a lookup that answers late |
| vector clients and their plugins | remote | upsert, query, delete | services | batches that fail half way, ids named twice, prefixes of ids |
| migrate-memory, one instance (`cli.ts`, `migrator.ts`, `ingest-document.ts`, `deleter.ts`, `pinecone-to-pgvector.ts`, ...) | the two indexes | migrate, agents, ingest, delete, copy | vector clients | reruns, commands side by side, a failure between delete and upsert |
| migrate-memory, all instances (`bulk-migrator.ts`, `bulk-updater.ts`) | the machines: repository, packages, build, configuration | bulk-migrate, bulk-update | flyctl, the commands above | sessions that break, hidden statuses, two operators |
| file-serve | a directory per file with `meta.json`; the limiter's entries | save, serve, clean up, rate limit | host's HTTP server | cleanup and saving against requests, crash while saving |
| cost-guard | budget state per session | hooks before run, tool call, persist | host | shortened histories, sessions without id, restarts |
| portal-notify-tool | none beyond a call | send, retry, post again | portal | duplicates, late requests, lost answers |
| model-router, cost-guard-hello | none | classify, log | host | nothing stateful |
| scripts/daily_process.js | a table of files | list, sync, extract, write, mark, announce | SQLite, UnitBase, LINE | crash between effect and mark, retries out of order |

What makes each modelled part correct is stated in section 3; the hazards of
all parts, with their lines, are in `PROJECT.json`.

## 2. Modules

| module | models | stands on |
|---|---|---|
| `WorkflowSteps` | the record and the pure functions of `store.ts` and `workflow-state-converter.ts` | |
| `WorkflowStore` | files and handlers with their one await | `WorkflowSteps` |
| `WorkflowController` | factories, engines and tools, composed with the store | `WorkflowStore` |
| `TaskFlows` | the six built-in flows through the store's functions | instance of `WorkflowSteps` |
| `SpendCounter` | what the spend file promises (abstract) | |
| `SpendLedger` | spend file, lock directory, processes | implements `SpendCounter` |
| `AnalyzeTranscript` | concurrent calls of analyze_transcript | |
| `ImageStore` | digest directories and tag links of the CLI, under several processes | |
| `OpenclawConfig` | required secrets, `openclaw.json` and its rendering, as operators | |
| `FlyDeploy` | deploys of several commands against Fly.io, and the log | `OpenclawConfig` |
| `DailyProcess` | the daily batch, its table, UnitBase, LINE and the users | |
| `Operations` | the two programs above, for one run | `FlyDeploy`, `DailyProcess` |
| `CostGuard` | the hooks of cost-guard over several conversations | |
| `FileServe` | saving, serving, limiting and cleaning up files | |
| `PortalNotify` | notify_send and the portal | |
| `PineconeEngine` | the context engine with a vector index, the host and memory-delete | |
| `MemoryCli` | the commands that fill and empty the index of one agent | |
| `BulkMemory` | bulk-migrate and bulk-update over many machines | |
| `GatewayPlugins` | the six modules above, for one run | those modules |
| `Sums`, `Selections` | sums over finite sets, parts of sequences, in a form that can be proved about | |
| `MC*` | constants for TLC | the module of that name |
| `DataTheorems` | theorems about sums, selections, concatenations, induction | `Sums`, `Selections` |
| `WorkflowProofs` | theorems about the store and the plugin | `WorkflowController` |
| `TaskFlowsProofs` | theorems about the built-in flows | `TaskFlows`, `DataTheorems` |
| `TranscriptAnalyzerProofs` | theorems about calls and the ledger | `AnalyzeTranscript`, `SpendLedger`, `DataTheorems` |
| `ImageStoreProofs` | theorems about the image store | `ImageStore` |
| `OperationsProofs` | theorems about deploys and the daily batch | `Operations`, `DataTheorems` |
| `HostPluginProofs` | theorems about file-serve and portal-notify | `FileServe`, `PortalNotify` |
| `GatewayProofs` | theorems about the other plugins and commands, and all together | `GatewayPlugins`, `HostPluginProofs`, `DataTheorems` |

### Correspondence with the code

*Workflow records.* A record keeps the immutable part of its steps in `def`
(id, default next step, conditions) and their states and blocking reasons in
`status` and `reasons`; `cur`, `done`, `closed` are `currentStepId`,
`completedStepIds` and the presence of `closedAt`. Lists of texts are sets,
because the code uses only membership. Time stamps are left out; the status
`skipped` of `types.ts` is assigned nowhere. `NoStep` stands for every absent
step id; the code treats the empty string in a definition the same way.
`AdvanceStep` is the composition of what advanceStep does in order: complete
the target, enter the next step, take over facts, questions and plan.

*Handlers.* A handler runs from load to save without yielding and is one
action (`Create`, `Advance`, `Branch`, `Block`, `Archive`), except
workflow_update_context, which awaits a dynamic import between its load and its
save: `UpdateBegin` keeps the record in `call`, `UpdateEnd` saves it. A handler
that answers with an error saves nothing and is no step. `saveWorkflow` writes
a temporary file and renames it, so a crash leaves the old or the new file.
`strayed` is a history variable: workflows in which a call completed, by name,
a step other than the current one.

*Plugin.* `CreateContextEngine`, `CreateTools` and `CreateStandaloneTools` are
the factory functions of `register`, which the host calls in any order; a tool
set is a pair of agent and engine. `Injected(e)` is what `assemble` adds.
`Restart` loses engines and tools and keeps files.

*Spend ledger.* Each file system call of addSpend and withSpendLock is an
action with a program counter per process. addSpend is synchronous, so one call
per process. `LockAges` lets 30 seconds pass whenever it likes, so the model
has every schedule in which a lock looks old. `LockTimeout` may come at any
attempt. `recorded` and `overrun` are history variables.

*Analyze calls.* What lies between two awaits is one action: `Lookup`, then
`Hit`, `Refuse` or `Admit` (check and consumeCall without an await between
them), then one action per Gemini answer, then `Record` or one of its failures.
A call keeps the day it started on, as the code's `now` does. `billed` is a
history field; `bill`, what Gemini has charged altogether, `losses`, the calls
whose recording was refused or cut off (at most `MaxLosses`, a bound), and
`early`, the calls in progress that looked up before the stored entry came, are
history variables. The exception of runWithFallback on a model outside the Gemini
list is left out, since resolveConfig drops such models; so are citations,
redaction and the merge of chunk answers, which change the text only.

*Image store.* `tag` holds the links, `dirs` and `file` the digest directories;
a call in `op` has a program counter. Each file system call of save, remove,
prune and load is an action; writing a file is two, since `writeFile` truncates
first. A directory is named by the digest of its content, so two saves of it
write the same bytes and only "none", "part" and "whole" are told apart.
manifest.json and config.json, always written and read in a row, are one file;
image.json is left out, because nothing but its absence is visible and list
makes up for that. Deleting an open file leaves its writer with a handle to
nothing (`Lost`). `Crash` ends a call anywhere. `held`, `met` and `hurt` are
history variables, kept by `Observe` in every step: refs that led to a
directory during the whole check for refs; the layers that a save had open,
that were missing or incomplete, and whether one was deleted, since a load
listed them; and images that were damaged by a deletion or a save cut short.

*Programs that share nothing.* `Operations` and `GatewayPlugins` put modules
beside each other whose programs share no variable, file or lock. A behaviour of
all of them is then a choice of one behaviour of each, and a property that reads
the variables of one module holds of it in the composition exactly when it holds
alone; so `program` and `plugin` choose at the start which one runs, and the
state space is a sum and not a product. Where two programs do share something,
each module has the other's effect among its own actions: memory-delete in
`PineconeEngine`, the engine's ingest in `MemoryCli`.

*Deploys.* `cmd[d]` is one `easyflow deploy`; `step` names the next call of
flyctl or access to the log, in the order of `FlyAdapter.deploy` and
`DeploymentsLog.append`. `Fail` stands for an error of any call, for health checks
without an answer and for the end of the process: nothing is rolled back, so all
three leave the same state. Fly.io is modelled from its use: an app is created
once, staged secrets take effect with the next release. `OpenclawConfig` has the
pure part: which secrets an Agentfile requires, what is baked into the image,
and when the rendering on the machine fails. Values are left out; an entry of
env is a literal or the name of its placeholder. (Under `DeployAssumption` the
branch of buildRuntimeEnv for a key available as a secret, `openclaw-config.ts:90`,
never decides alone; it is kept for what the code says.) `generated` and `overlapped`
are history variables.

*Daily batch.* `run` is the run under way, with `step` the next thing main does;
the table is a sequence of rows whose id is its place. Every remote call may be
refused, answer with a page, or take effect and lose its answer (`reply`).
`Begin` starts the next run; `Upload` is a user; `Kill` ends the process between
any two steps. `written` and `announced` are history variables. A dry run is
followed to the table it writes.

*Cost guard.* A turn is `BeforeAgentRun` (or `BlockTurn`), tool calls and
`EndTurn`. The map `sessionState` is per session id, and conversations without
one share `default`. The host may keep or drop the messages a hook rewrites, and
may shorten a history. Which text matches a denied path, inode or command
pattern is an input; that the checks stand in their order, what they stop and
what they rewrite, is modelled. `admitted`, `seen`, `shortened` are history
variables. The configurations suspendAgent (every turn refused) and
cleanupOnSessionStart = false are not modelled.

*File serve.* Each call of the file system is an action; copying a file and
writing `meta.json` are two, since a reader may meet them half done; removing a
directory takes entries one by one. A file that is open is read to its end,
unless reading it fails: `ReadFails` is every error of a call of the file system
other than that of a missing file. The
limiter keeps its entries in the order of the Map. `asked` and `hurt` are
history variables.

*Portal notify.* `Post` sends a request; the portal may handle it now, later
(`PortalHandlesLate`, after the client gave it up) or never, and the answer may be
lost. `Retry` is retryWithBackoff, `PostAgain` retryPending; both keep the key. The
portal's answer counts each member as sent, pending or failed, so that `NothingSent`
leaves out the condition `failed > 0` (`client.ts:134`), which follows for an answer
with members of which none is sent or pending. That the portal sends once per key
and member is taken from the description of the tool.

*Memory.* A chunk's id is made of what the code hashes into it, so equal turns have
equal ids. An upsert is a job that writes batch after batch and starts over after a
429; `StatementFails` is PostgreSQL's refusal of an INSERT that names an id twice. A
query finds any two chunks of the index at most, in any order: scores are arbitrary.
All chunks are of one size, so that breaking off at the first chunk that does not
fit and passing over it are not told apart. The engine may answer at once with a
promise (`assembleParallel`, `LookupAnswers`), and the host may take the prompt
first. In `MemoryCli` a command is a list of phases, worked off batch by batch.
`Edit` stops when every command has begun, since a command reads its file once, at
the start. A search finds `TopK` rows; a copy lists its source in one order, any
other gives the same batches under other names. Embeddings are left out.

*Bulk commands.* An operator's command walks through its instances; each session of
`fly ssh console` is a step that may fail before or after its effect (`ExecFails`,
`Becomes`). A build is two steps, so builds may meet; `mixed` records that. That a
build writes its packages one by one is left out: between the two steps they count
as old, and after the second as new. `npm install | tail` hides its status, so
`NpmInstall` goes on whether the packages came or not.

## 3. Runs

Passing runs, their bounds and what they show:

* **store** (`MCWorkflowStore.cfg`): one file, one update_context in flight, two
  flows: a review loop (branch back, branch on, self-loop) and an inline list
  with a repeated id and a dangling target. Three steps give every relation of
  target, current and next step; one pending call is enough for a stale save,
  because all that a second one could do in between is save an older record
  too. Facts and questions are empty, and the only plan given is the empty one,
  which the two implementations of advance treat differently.
  `StepBookkeeping`, `CurrentStarted` and `SingleRunning` relate the places in
  which a record repeats itself; `ProgressLostOnlyToStaleSave` says what no step
  may do to a saved file. `ConverterAgrees` compares advanceStep with the second
  implementation, `workflow-state-converter.ts`, on every record and for every
  call, and states the four differences there are: a repeated identifier (all
  its steps are completed), an unknown step (listed as done, nothing completed),
  the empty plan (replaces the plan) and nothing left to enter (the step becomes
  current).
* **controller** (`MCWorkflowController.cfg`): two agents, two engines, two
  files, one issue, a one-step flow: the engines are the point, the steps are
  covered by the run before, and that the plugin's steps are steps of the store
  is proved (`ControllerKeepsProgress`). `EngineInjectsOwn`: an engine that only one agent
  holds injects, when a workflow is active, a workflow of that agent. With tools
  of two agents on one engine this fails, which is why the property has that
  premise: the second tool factory call overwrites `agentDir`.
* **taskflows** (`MCTaskFlows.cfg`): all six flows, every label anywhere, and
  blocks: this is the whole state space of the built-in flows for an agent that
  always works on the current step. `OutcomesExclusive`,
  `ClosedOnlyAfterExecution`, `NeverStuck`.
* **spend** (`MCSpendLedger.cfg`): three processes and a total of three units,
  so that two can find the lock of a third one old, one of them removing a new
  lock. `NeverOvercounts` holds always; `ImplementsCounter` says that the file
  is an exact counter until the lock of a working process was removed.
* **analyze** (`MCAnalyzeTranscript.cfg`): two calls, a transcript of two chunks
  and one that is not split, one session, limits of two, two days, a cap of one
  answer, and two calls that may be lost, which is enough for a second loss to
  come after a first one. `OvershootBounded`: what calls in flight can still cost
  bounds the overshoot of the cap. `BillAccounted`: what Gemini has charged is
  recorded or underway, but for the lost calls, each of which hides the worst
  cost of a file at most; in particular no failing stage forgets the cost of the
  chunks before it. `CachedIsPaid`: an entry appears only in the step that
  records all that was charged for it, and takes the place of another one only
  if the two calls overlapped. `EveryCallAnswered` is the liveness property.

* **images** (`MCImageStore.cfg`): two processes, two tags, two images of a config
  and two layers: a scan of refs can be overtaken by a move of a ref, a save by a
  deletion, a save by a save of the same image, a load by all of these, and a load
  can have read one layer when it meets the other. `HurtBound` ends a behaviour once
  both images are hurt: `TagsWhole` and the first part of `LoadsWhole` exempt hurt
  images, and its second part is about one image at a time, so a hurt image beside a
  sound one is enough (the theorem needs no such bound). `TagsWhole` says that
  broken refs come from the races and crashes collected in `hurt` and from nothing
  else. `LoadsWhole` says what a load that ends without an error may miss, although
  it takes what is missing for the end: of an image that is not hurt, only layers
  that a save had open meanwhile; of any image, only layers that were missing or
  incomplete meanwhile, unless one was deleted while it read. `HeldImageKept` says
  how far the check for refs can be trusted.

* **operations** (`MCOperations.cfg`): two deploys of one app, from two Agentfiles
  and six secret files (all, some or none of what is needed), failing anywhere:
  two commands give every overlap of two, and a retry after a failure.
  `ReleaseBoots`: secrets are checked, staged and released in calls of their own,
  and what is released starts all the same. `GeneratedOnce`: one gateway token
  per app. `LogLosesOnlyOverlapped`: how far the unlocked log can be trusted. And
  the batch over one applicant with two fields, two uploads, two retries and one
  kill: one field can get a second file, so that an older text can come after a
  newer one. `StaleTextNeedsRetry` says when it does, `AnnouncedOnce` that LINE
  hears of a first error once at most, `EveryRowSettles` (liveness) that no row
  wavers between pending and error for ever.
* **gateway** (`MCGatewayPlugins.cfg`):
  * two conversations with one budget of four tokens, messages of one or two
    tokens: `AdmittedWithinBudget` bounds what goes to the model beyond the
    budget by what the counter's maximum forgets;
  * one file, two clients, a window of two ticks, one request per window and one
    entry in the limiter, so that clients displace each other: `AnswersKept`,
    `RemainsExplained`;
  * two notices to one member, with a key of the agent's or without, one retry,
    one post for pending deliveries: `NotifiedOnce`, `OutcomeHonest`. What the
    tool tells the agent is true after "delivered"; a failure, unless an answer was
    lost, means that nobody was notified, or is one of posting again and hides no
    more than the first answer counted. With one member the count is zero or one;
    the theorem is about any number;
  * a session of two turns of at most two chunks (the same turn twice, a text that
    is skipped, tool output), two backends, one retry, AGENTS-CORE.md below and
    above the budget: `CompactAnswersTrue`, `PromptFits`;
  * two memory commands over four files, of which one is a prefix of another one's
    name, batches of one, one edit: `SuccessMeansWhole`, which has two parts. A
    command whose sources nobody else touched has done what it is for
    (`WholeAlone`). Commands that touch the same file, each deleting by prefix,
    source or search what the other has just written, leave no hole: if all that
    delete from it also write a chunk and end well, the chunk is there
    (`WholeTogether`);
  * two operators, two instances, two commits: `CountedIsDone`: what a bulk command
    counts as done has been done, whatever others do on the same machines.

Violation runs; each shows a disagreement of a text of the repository with the
code (see `findings` in `PROJECT.json`):

* **stale**: "without advancing the step" (`tools.ts:295`): an update_context
  overtaken by advance puts the old step back.
* **resume**: workflow_resume after an interruption (`README.md:27`): two
  workflows are created for one issue; when the issue is closed, workflow_resume
  archives the first in the directory; when it is open again, workflow_resume
  finds that one and answers that it is archived, although the other is open.
* **taskflows_review**: execution, review, acceptance (`README.md:36`): reworked
  work is accepted without a second review, because the completed review step
  is no longer pending.
* **ingest**: "staging chunks exist as readable backup"
  (`ingest-document.ts:97`): the staging chunks have the ids of the production
  chunks, so that deleting those deletes both, and a failure of the last upsert
  leaves nothing of the document.

*Fairness.* `AnalyzeTranscript` assumes weak fairness of each call in progress.
The event loop resumes a call whose await has settled, each Gemini request loses
a race against its own timer at the latest (`gemini-client.ts`), and addSpend
gives up on the lock after a second. That the host's `resolveApiKeyForProvider`
settles is assumed. `OpsFairness` is about the batch alone: its own steps are
weakly fair, because every request has a timeout (`doReq`) and everything else is
synchronous; it is started every day in earnest, whatever dry runs there are
(strong fairness of `Begin(FALSE)`, as `Kill` and other runs disable it in
between); and UnitBase is not out of order for ever: logins, and listings that
reach the last page, succeed again and again (strong fairness, as failures
disable them in between). That a write succeeds is not assumed: a row may be given
up. A deploy, a bulk command and the plugins have no fairness: they may be ended
anywhere, and nothing makes a person repeat them. The workflow modules, the
ledger and the image store have none either.

*Deadlock* is checked in every run but **operations**, **gateway** and **ingest**:
deploys, notices and commands that have ended are not started again, and the
clock, the uploads and the requests stop at their bounds.

## 4. Proofs

All theorems hold for every value of the constants that the named assumptions
allow. Assumptions say that the sentinels (`NoStep`, `Idle`, ...) are no ordinary
values, that flow definitions are non-empty lists of steps, that amounts and
limits are natural numbers, that a configuration file names an instance once, and
that calls, conversations and the members of a portal are finitely many where
something about all of them is added up. The bounds that keep TLC's state space
finite (uploads, kills, turns, edits, recorded spend) are constants too, so that
the theorems hold for any of them.

Every invariant that a passing run checks is the subject of a theorem; what is
left to TLC is named at the end of this section. The theorems about the parts of
`Operations` and `GatewayPlugins` are stated of the part's own specification;
`DeploysImplemented` and `PartsImplemented` show that a behaviour of the
composition is one of each part, which carries them over.

* `WorkflowProofs`, the store: the inductive invariant is a property of each
  *record* (a saved one, or one that an update_context call holds): type,
  bookkeeping, started current step, and, unless the workflow strayed, no running
  step but the current one. It has to speak of held copies because `UpdateEnd`
  saves them. Each operation of `WorkflowSteps` is shown, once, to keep these
  record properties; the step proof then has one case per action. From it:
  `StoreTypeCorrect`, `StepsBookkept`, `CurrentStepStarted`, `OnlyCurrentRuns`,
  and the action property `ProgressKept`. `ConverterDiffersAsStated` determines the
  result of each implementation of advance field by field, for any record.
* `WorkflowProofs`, the plugin: every step of the plugin is a step of the store
  or leaves it alone (`ImplementsStore`), so the store's results carry over
  (`ControllerKeepsProgress`). The engine invariant adds that an engine with an
  active workflow has been given to an agent, that its directory is one of its
  users', and that the active workflow exists in the directory of a user; with a
  single user that is `InjectsOwn`.
* `TranscriptAnalyzerProofs`, the spend file: the invariant has two parts.
  `Accounted`: neither the file nor a memory exceeds what was recorded, with the
  pending amount of a process about to save. `Exclusive`: unless a lock was
  removed under a working process, the process inside holds the lock, and its
  memory is the file plus its amount. From these `LedgerNeverOvercounts` and,
  step by step, `LedgerImplementsCounter`.
* `TranscriptAnalyzerProofs`, the calls: types, with the quotas as ranges, and
  that the cost a call will record equals what Gemini reported to it
  (`CostsKept`). From it `QuotasKept` and the action property `CachedPaid`, which
  also needs that a call past its lookup found no entry then, so that an entry it
  replaces came while it was in progress (`early`).
  `CostsBounded` bounds what a call has spent by the stage it is at; a call's
  risk, the worst cost of its file once it is admitted, is never less than its
  cost, and a call is admitted only below the cap, so that all risks exceed it by
  one worst cost per call at most. The sum over the calls changes by what one of
  them changes by (`SumChanges`): `OvershootIsBounded`. `BillIsAccounted` adds up
  what the calls have been charged in the same way: a call that ends without
  being recorded takes along at most the worst cost of its file.
* `ImageStoreProofs`: the invariant says which files are on disk for each place a
  save has reached, for each ref and for each load, unless the image is hurt
  (`SaveInv`, `TagInv`, `ReadInv`); that an incomplete file has a writer
  (`PartInv`, `OpenInv`); that a file lies in a directory (`PlaceInv`); and that
  a ref that has led to the directory all along is still to be read by the check
  (`HeldInv`). `ReadOK` says of a load that every layer is read, still to be read
  or met: rewritten, where the image is not hurt, and lacking, unless one was
  deleted. `RefsLeadToWholeImages` needs the parts on saves because save links
  last, `LoadsAreWhole` those on refs because load starts from one. The
  effect of each action on its own call is stated once (`Own...`).
* `OperationsProofs`, the deploys: `InductiveInvariant` has seven parts.
  `LoadedInv`: whoever is past `Load` has an Agentfile. `VolumeInv`: volumes and
  commands that may still create one are no more than commands. `TokenInv`: an
  app is made by one command at most, and only that one stages a token of its
  own; it needs the fact that an app whose token was generated exists, so that no
  second command can make it. `SecretInv`: what a command has found available is
  staged or on the app when it releases; this holds across other commands because
  nobody takes secrets away. `ReleaseInv`: a release was built from some
  Agentfile for secrets the machine has; `ReleaseBoots` follows from the
  definitions of `OpenclawConfig`. `LogInv`: a command about to write the log
  holds every entry not made by an overlapped append. From it `DeployTyped`,
  `ReleasesBoot`, `TokenGeneratedOnce` and `LogKeepsOthers`, for any number of
  commands and apps.
* `OperationsProofs`, the daily batch: `DailyInv` ties the copy of the table that
  a run works on to the table. `QueueInv`: while rows are worked off, the queue
  is what is pending, with its counts. `RowsInv`: whoever is pending may fail
  once more. `FirstsInv`: an error that was or will be announced has been
  counted, and none is announced twice. `OrderInv`: nothing older than a written
  text still waits for its first try, which holds because the queue is worked off
  from its smallest id and uploads get larger ones; so an old text that is
  written late has an error counted (`OldTextOnlyByRetry`), whatever was killed
  or lost in between. `OperationsTyped` puts this beside the deploys.
* `TaskFlowsProofs`: two properties of a *definition* say what each flow is for.
  `WellDefined`: identifiers differ and every transition leads to a step.
  `Guarded`: no transition leads to the review, and only the review, the closing
  itself or a branch with a waiver's label to the closing, and the execution
  stands before both. They are checked for the six literal flows, one step at a
  time. The rest of the proof is about any such definition: a step is entered
  because it was resolved or because it is the first pending one (`Moves`).
  `Started` is inductive: what was entered is the current step or completed, and
  a final step, one that leads to itself only, is never left;
  `OutcomesAreExclusive` follows, since two final steps cannot both be current.
  `ClosesAfter` is inductive with it, since before the execution is completed the
  first pending step is not behind it.
* `HostPluginProofs`, portal-notify: `NotifyInv` says that a delivery under a key
  is for a call that has begun and has this key (`ByInv`), and that a message
  that went to a member for a call is the delivery under its key (`GotInv`); two
  calls with one key would both be the one it is for, which is `DeliveredOnce`.
  `LateInv` counts the requests a call has given up by its attempts, over all its
  rounds, and gives the bound in `NotifyTyped`. `ToldTruth` adds what a call may
  conclude: as long as no answer was lost and the call does not post again, every
  answer it has had says that nothing was sent, and then the portal holds only
  failed deliveries for it (`Clean`), also if another call with its key is
  handled in between; once it posts again, nobody else is notified than its first
  answer counted.
* `HostPluginProofs`, file-serve: `FileInv` says, for each directory, what is on
  the disk at each place of its save; that meta data are whole only once the link
  is sent; and that of what was sent only the cleanup takes something away, after
  it has expired. `RequestInv` adds that the file of a request was sent and that
  the request knows its time: hence no half file, and none that breaks off before
  its time. `BucketInv`: an entry of the limiter counts no more than the requests
  of its client since its window began. From these `WordKept` and
  `RemainsAreExplained`; `ServeTypeCorrect` adds that the limiter's entries are
  within their number, one a client, through every move of an entry in the Map.
* `GatewayProofs`, cost-guard: `AccountOf(s)` speaks of the last turn that was
  admitted for a session. Its counters had values then of which the first is
  within the budget, and everything admitted up to then was counted, except what
  the histories that share the session hold beside the longest and what was taken
  out of them. Turns that are refused only let the counters grow. From it
  `BudgetKept`; it needs sums over the conversations that share a session.
* `GatewayProofs`, the engine: `Covers` says that the chunks of the turns compact
  has taken are among those of its upsert, at any retry, and that those of the
  batches already written are in the index or were taken out by memory-delete.
  `FittingProperties` and `FlattenSeqProperties` say what the greedy selection
  and the concatenation of chunks return. From these `CompactIsTrue` and
  `AdditionsFit`.
* `GatewayProofs`, the memory commands: `Progress` says, by the phases that are
  left, what a command that has neither failed nor been disturbed knows of the
  rows of its sources: which chunks are written, that nothing else is left, that
  everything is on the list to be removed. `GoodRows` keeps one row per id. The
  effect of each kind of write on the rows of a source is a lemma, used once for
  the command that writes and once for all others, which write to other sources
  unless they disturb it. For commands over the same file `TogetherInv` says that a
  chunk some command has written is in the index, as one of them has read it,
  unless a command that deletes from its file has yet to write it again or has
  failed. From the two `SuccessIsWhole`.
* `GatewayProofs`, the bulk commands: `Migrated` follows a machine through the
  sessions of bulk-migrate, which only ever add to it. `Updated` does so for
  bulk-update, where another operator may build the same machine: nothing older
  than what a command has seen is built or being built, unless builds met
  (`mixed`). From it `CountedDone`; `BulkBounds` adds for `BulkTypeCorrect` that
  what is left is the end of the configuration.
* `DataTheorems`: a sum counts units, as many for an element as its number says,
  so that its theorems are theorems about cardinalities. `SetInduction` is the
  library's induction for a *set* of numbers, taken from well-founded relations;
  with it, what the recursive functions `Selected` and `FlattenSeq` return is
  proved for sequences of any length.

Only model-checked: `EveryCallAnswered` and `EveryRowSettles`, which are liveness
properties and outside the prover's reach; and the four violations, which are
counterexamples.

## 5. Not modelled, and the plan

* Parts that keep nothing between calls: agent-state-converter, flow-loader and
  flow-schema, the validators table, list, search, redaction and injection guard
  of transcript-analyzer, Agentfile parser, converter, validator and inspector,
  model-router, cost-guard-hello, the extraction of text from office files.
  Their hazard is in the text they read, which a model would have to spell out.
* The image builder, OCI packing, `config/manager.ts` and the command layer: one
  process, one build, files of its own; what a reader can meet half written is in
  `ImageStore`.
* Of transcript-analyzer: redaction, citations and the merge of chunk answers.
* Of the vector clients: embeddings, ensureIndex and connection settings.
* The bundled `index.js` files of transcript-analyzer and cost-guard repeat `src`.

Next, in this order: the action properties of parts that so far have invariants
only (what a step of the image store, of the batch or of a bulk command may never
undo); abstract specifications of the image store and of the batch, with
refinements to them; the cases of cost-guard that are left out.
