# Rhythm: a TLA+ verification

Rhythm monitors APIs and web pages. Users define monitors (workflows of HTTP
requests with scripts and assertions, or journeys of a browser), publish revisions
of them and enable schedules; the control role enqueues due runs in PostgreSQL,
executors lease and execute them, and the results drive alerts and the gates of
deployment validations. A web application edits all of it and shows what happened.
This directory models the parts in which processes, requests, pages and failures
meet, and the algorithms that are easy to get wrong.

Paths below are relative to `src/services/api/internal/`, or to
`src/apps/web/src/` for files that end in `.tsx` or `.ts`, unless they begin with
`src/`.

## Inventory

The API service is one binary (`src/services/api/cmd/api/main.go`) started in one
of four roles: the front door (HTTP requests), control (one replica: scheduler,
reclaimer, suites, notifications, alerts, retention), API executors and browser
executors. They share nothing but PostgreSQL, so every interaction is an
interleaving of transactions. Browser executors call the browser agent
(`src/services/browser-agent`), an HTTP service with a bounded number of Chromium
contexts. The web application calls the front door through server functions; a page
holds what it loaded, what was edited since and the calls it waits for, and two
users share nothing but the server.

| Component | State it keeps | Operations | What makes it correct |
|---|---|---|---|
| Execution queue (`executionjobs`) | `execution_jobs` rows, slots | poll, claim, renew, complete, reclaim | overlap policy holds, unsafe work is not replayed, every job settles |
| Run execution (`runs`, `run_repository.go`) | `monitor_runs` rows, variables | enqueue, save, cancel, execute a step | every run ends, terminal effects once, a variable has its last value |
| Scripts (`scripts`) | one interpreter per script | run, record tests, write back | every test is counted once, the libraries do what they promise |
| Schedules (`scheduler`) | `monitor_schedules` rows | configure, poll | due schedules run, missed times are treated as configured |
| Monitor life cycle (`monitors`) | monitors, revisions | draft, publish, restore, enable, disable, archive, delete | published revisions are immutable and, but for restores, validated; schedules follow the monitor |
| Suites and deployments (`suites`) | suites, runs, evidence, gate, jobs | queue, sample, compare, gate, cancel, reap | evidence is kept, the gate follows it, the report explains the gate |
| Browser monitors (`browsermonitors`) | browser runs, artifacts, drafts, consecutive failures | queue, execute, persist, cancel, publish, alert | every run ends, artifacts have objects, a success is the agent's |
| Browser agent | executions in progress | admit, play, upload, answer | capacity does not leak, the verdict agrees with the evidence |
| Configuration (`library`), AI settings | profiles, encrypted material | save, test, delete | no material is lost, forms ask for what saving and running need |
| Dynatrace and ELF (`dynatrace`, `elf`) | connections, mappings, guardrails, services, receivers | save, test, assign, rotate | one panel leaves what another keeps |
| Pages (`src/apps/web`) | what was loaded, edits, calls under way | the handlers | a page shows what it is about, says "saved" of what was saved, repeats a call safely |
| Threshold alerts (`alerts`, `evaluateAlertState`) | policy, alerts, current health | evaluate at the end of a run, acknowledge, resolve, save a policy | the alert follows the latest runs |
| Notifications | `notification_deliveries` | enqueue, claim, send, retry | news is sent once, or given up after five attempts |
| Agents, Sahara, investigations, retention | rows, outboxes | claim, deliver, archive | not modelled, see below |

Hard behaviours: executors that crash, stall past their lease or are cut off from
the database; cancellation at any moment; commits whose answer is lost; user
requests that are several statements without a transaction; the clock; answers that
arrive late, out of order or on another page; edits made while a call is under way;
calls repeated after a lost answer; two users on one object. The hazards are listed
with their lines in `PROJECT.json`.

## Modules

| Module | Models |
|---|---|
| `ExecutionJobs` | the queue and the execution of API monitor runs |
| `LeasedQueue` | abstract: what the queue promises of its jobs |
| `Scheduling` | schedules, the poll, and the requests that change monitors |
| `BrowserAgent`, `BrowserRuns` | the agent, and browser runs composed with it |
| `Alerts` | the threshold alert of a monitor, its policy and health, and the outbox of notifications |
| `Deployments`, `DeploymentReport` | a deployment validation, and the page that follows and reports it |
| `SuitePages` | the suite builder, a followed suite run, the deployment wizard |
| `RunEvidence`, `RunPages` | what the pages of a run make of it, and how they poll |
| `MonitorRevisions`, `MonitorEditor` | drafts and publication; the editor over them |
| `ReleaseLog` | abstract: what the revisions promise to the schedules that execute them |
| `MonitorCreation` | the creation form, its chain of calls and the idempotency key |
| `WorkflowVariables`, `Workbench`, `RequestForms`, `ScriptEditor` | variables of a run and their catalog; the workbench over them; the fields of a step; the script editor |
| `ScriptSandbox`, `ScriptLibrary` | the host side of a script, and the libraries of the sandbox |
| `ConfigPanels`, `ConfigForms` | profiles and the AI provider; the fields of their forms |
| `DynatracePages`, `ApplicationPages` | the configuration of an application and its pages |
| `ListPages` | the lists of monitors and of alerts |
| `MonitorImport` | Postman and cURL imports |
| `JourneyPages` | the pages that write the journey of a browser monitor |
| `ExecutionJobsProofs`, `SchedulingProofs`, `BrowserRunsProofs`, `DeploymentReportProofs`, `MonitorRevisionsProofs`, `AlertsProofs`, `FormsProofs`, `PagesProofs` | theorems and their proofs |
| `MC...` | instances for TLC; `MCForms` and `MCPages` play one of their pages (a scene) per behaviour |

### ExecutionJobs

A row of `execution_jobs` is spread over functions `payload`, `status`, `owner`,
`lease`, `attempts`, `cancel`, `available`; a row of `monitor_runs` over
`runStatus` and `effects` (the terminal statuses for which alert, rollup and
health were updated). A job and its run share an id. A *session* is a goroutine
of `Service.process`, identified by executor and slot, with its program counter
`pc`, the job it was started for, the result in memory and its context.

A transaction is one action and everything between transactions is a point of
interleaving: polling (`Dispatch`) and claiming (`Claim...`) are apart, as are the
saves of a run (`SaveStarted`, `SaveStep`, `SaveResult`, ...) and `Complete`. A
refused transaction, or one whose answer is lost, is `ClaimFails`, `SaveFails`,
`CompleteFails`. The watcher (`WatchTick`) renews the lease and cancels the
context; `Expire` passes the ninety seconds; `ReclaimAbort` and `ReclaimReplay`
are the two branches of `reclaimExpiredBatch`, one job at a time (its transaction
locks each row, so a batch is a sequence of these). `Crash` drops the goroutines of
a process at any point, `Shutdown` cancels their contexts and `Exit` ends them.

What a step of a workflow does is a nondeterministic result; `FAILED` stands for
`FAILED` and `TIMED_OUT`, `SUCCESS` for both successes.

### LeasedQueue

A job is submitted once, started only when its exclusion group is idle, comes to
one outcome, and is put back only when it is replayable. `ImplementsLeasedQueue`
(`ExecutionJobs`) maps a job's status, payload and attempt count to it.
`JobIsLeasedOnce` (`Deployments`) maps the job of a deployment validation, which waits
for no other and is never put back; the validation begins when its job is on the queue,
so a job may be queued initially. That it was started is read off the run: a job
cancelled on the queue leaves a run that nobody has concluded. `JobsAreLeasedOnce`
(`BrowserRuns`) maps the jobs of browser runs by their status and attempt count, which
counts the claims: of a job that was cancelled it tells whether it had been started.

### Scheduling

Time advances in polls (`Tick`); a second is `TicksPerSecond` of them. `Poll(B)` is
the whole of `enqueueDue` for a batch: its inserts and updates commit together, or
a deduplication key exists and nothing happens, which is the same as the poll not
being enabled. `Configure` is three steps (read the monitor, look up the row, write
it); enabling, disabling, archiving and restoring are three (read, `UPDATE monitors`,
`UPDATE monitor_schedules`); deleting is one statement. The two unique indexes
(one active schedule per monitor, one job per deduplication key) are part of the
writes they guard. `Abandon` ends a request between two statements. Monitors are
taken to be published; cron expressions are abstracted to a period.

### BrowserAgent and BrowserRuns

The agent admits a request, reads its body, checks the start target, plays one step
of the journey per action, uploads screenshots to presigned slots and answers with
status, failed step, warnings and evidence; it may restart, its caller may hang up,
and other callers take slots. `BrowserRuns` adds the row of the run, its job and
lease, the executor between its statements (claim, presign, call, store artifacts,
persist), the reaper, cancellation and the three deletions of objects. The
verdict is computed from the checks of the steps as `execute` and `classifyError`
do; a check holds or not. A locator whose strategy nobody knows throws outside the
`try` of a step (`StepThrows`, `UnknownLocator`) and ends the journey or the checks.

`persistArtifacts` takes its payloads one by one (`StoreArtifact`): one is passed over,
gets its row, or has its INSERT answered by an error, which ends the loop whether or
not the row was committed (`doubted`). `EndStore` is the deferred cleanup, which deletes
what it does not know to be stored, and the warning. `PurgeOrphans` lists old objects up
to `PurgeLimit` (500 in the code, 2 here) before it looks which have rows;
`PurgeExpired` and `DeleteExpiredRow` delete an object and then its row, once it is
`overdue`. Three things follow that the properties except. A doubted row may
lose its object. Objects behind `PurgeLimit` objects with rows are never purged, since every pass
lists the same ones. And no update of a run has a condition: a run that is cancelled
while it is QUEUED and its job leased is CANCELLED, then STARTING, and may end as a
SUCCESS (`browsermonitors/service.go:877`, `:933`); `SuccessIsTheAgents` says that only
the execution which the cancellation or the reaper has overtaken does so. A run whose
executor stalls and whose process then crashes is outside `MaxFaults = 1`.

### Alerts

The transaction that ends a run is two steps. `Evaluate` writes the status of the run,
which nobody else sees yet, and reads the policy and the statuses of the latest rows of
`monitor_runs` (in the order of `created_at`, whatever their status, as the code does);
`Commit` writes the status, the alert, the health row and the news together. In
between, other runs are enqueued or cancelled, users save another policy, resolve or
acknowledge. An insert that conflicts with an active alert leaves its state as it is.
A row of `notification_deliveries` is an alert (`spell`, the number of the alert), a
channel and an event; the loop claims the oldest that is due, sends, and puts it back
with one attempt more when it was refused. `Restart` stops the sender between the
claim and the answer.

Which run is executed when is left to `ExecutionJobs`: one at a time, but for
`StartBeside` (a run with the policy ALLOW, as every run started by hand) and
`ReclaimStalled` (a worker that goes on after its lease). `strays` counts the two.

### Deployments and DeploymentReport

The executor keeps the run in memory and writes all of it (`UpdateDeploymentRun`)
after every change, over whatever was written meanwhile. Each phase, each sample and
each save is a step; the gate is `deploymentDecisionWithBrowser` over the kinds of
checks. `DeploymentReport` composes it with the page, which polls, cancels and
computes its summary, findings and sections from the run it shows.

### The pages

Every page is modelled in the same way: the state of the component as React keeps
it, one action per handler with the guards of the button that calls it, a call to the
server split into being sent, being performed and being answered, and the server's
handler translated from the Go code, with its reads and writes apart when no
transaction holds them together. Answers are handled by the closure that awaited
them, so they use the values of the moment when the handler was called where the code
does. What is rendered is an operator of the state where a property needs it.

- `RunPages`: two pages of runs; `Poll`, `Answer` and `Ignore` (an answer for a
  page that is disposed), over runs that are executed meanwhile. `RunEvidence` has
  what is shown: the primary failure, the steps and tabs, the insight, the browser
  verdict.
- `SuitePages`: the builder's checks and stages and its guards, the loop that
  follows a run, the wizard with its previews. A refresh that fails is told
  (`RefreshFails`); a call that is rejected is caught by nobody (`suites.tsx:398-434`):
  the loop ends without a message, what is shown stays and the suite's button stays
  busy (`CallRejected`).
- `MonitorRevisions` has the rows of `monitor_revisions` and `current_draft_revision_id`;
  saves, and the two halves of a publication and of a restore (`RestoreRead`,
  `RestoreWrite`), by several authors. A save is validated; a restore writes whatever it
  read, in a transaction of its own (`monitors/service.go:135-141`), so one that lands
  between the validation of a publisher and the freeze publishes a definition that
  nobody validated: `overtaken` has these rows, and `PublishedValid` excepts them. By
  `ImplementsReleaseLog` the rows implement `ReleaseLog`: those before the draft are a log
  that only grows; the draft is what is worked on, and the published row the last of
  the log.
  `MonitorEditor` is one author's page. `MonitorCreation` is the form, the server
  function with its calls (create, schedule, publish, enable) and the lookup by
  `Idempotency-Key`: a request looks for the key and then creates, under the lock of its
  process, of which `Replicas` serve the API (2 to 4 front doors,
  `src/deploy/hydra/README.md:27`). A lookup that fails counts as one that found nothing
  (`api/server.go:835-858`). `unseen` remembers that one failed, or found nothing while
  another replica was creating: then, and only then, a form that was changed between
  two tries may make two monitors (an unchanged one is refused for its slug).
- `WorkflowVariables` follows one variable through the steps of a run: which places
  (`variables.x`, `x`, `environment.x`, `steps.i.outputs.x`, ...) each kind of producer
  writes, in the order of the code, and which of them a request is rendered from; where
  the code ranges over a map the order is a choice. An extractor may be switched off, an
  action may unset, and a step may be disabled or have a condition (`sure` is FALSE): it
  runs or not. Scripts that skip a request or jump are left out. `Workbench` edits the
  workflow and offers the variable, as the code does without a look at any of these.
  In `WEB_forms` scripts set one scope (`ScriptScopes`), two sections of a step can be
  opened (`OpenedSections`), and a workflow is loaded with a step that may be unsure,
  where it has a profile; other steps are made from it.
- `RequestForms` and `ConfigForms` are tables as sets: which fields a form shows for
  a shape, and which the save or the run then demands. `FormsAskForAll` compares the two
  for every form; two things are left out of what is demanded, because the code reads
  them and no form shows them: the content of a body of type "none", which is kept from
  before and sent although the editor says "This request has no body."
  (`request-workbench.tsx:1181`, `runs/executor.go:1329-1333`), and the switch and the
  condition of a step.
- `ScriptSandbox` has tests, promises, nested tests, failures and the write-back of
  request and variables; a body ends (`BodyEnds`) and waits for its tests, or returns
  (`BodyReturns`) and passes the wait by, which is code after its text
  (`scripts/runtime.go:385`); a test that throws or rejects without a reason is recorded
  as passed (`runtime_bootstrap_v2.js:495`); `ScriptLibrary` the operations on lists, assertion chains,
  tables, texts, encodings, times and objects, each against a reference definition.
- `ConfigPanels`, `DynatracePages`, `ApplicationPages`: profiles, providers,
  mappings, services, environments and receivers as the server stores them and as the
  panels hold and send them. In `ApplicationPages` a load begins, reads, and is shown or
  fails, each a step, and a later one takes its place; after a receiver was created or
  its token rotated its setup is fetched first, and when that fails no load follows
  (`opensearch-receivers.tsx:96-108`): the page is then behind (`lost`) until it loads.
- `ListPages`: keyset cursors, the trail of cursors in the URL, selection, bulk
  actions; the inbox with its triage. Monitors are numbers in the order the list sorts
  them by; a page is the set of those that match whose rank among them is within it.
- `MonitorImport`: a collection or a command as the set of its fields, each a
  literal, a template, a secret or credential-like; what is imported, replaced and
  warned of. In a body of JSON only strings are replaced, and a body that does not parse
  is imported as it is (`monitor-import.ts:965-1001`): a number under `password`, or a
  body with an unquoted `{{n}}`, keeps its credential without a warning.
- `JourneyPages`: definitions are revisions; the builder's edits, "Unsaved changes"
  as the comparison of two serialisations (`own` stands for an order of fields the
  server does not write), and other users who save and publish.

## Runs

All pass runs are exhaustive within their bounds. `CHECK_DEADLOCK FALSE` is set
throughout: the system may come to rest when no job is left, a page was left, or the
bounds on faults, time, edits and requests are used up.

| Run | Shows |
|---|---|
| `overlap` | two jobs of one monitor on two executors, all three overlap policies, two crashes or shutdowns: mutual exclusion, no run left active, effects match the run |
| `recovery` | one job (replayable, not replayable, draft), two executors with two slots, one crash, one stall, one database error: no replay of unsafe work, effects once, refinement |
| `settles` | two jobs, waiting or replayable, settle under fairness through a crash and a stall |
| `requests` | one user at a time, all requests, schedule kinds and policies: schedules follow monitors, SKIP keeps its distance |
| `due` | interval schedules of two monitors, requests that may be abandoned: due schedules are claimable and get claimed |
| `journeys` | one browser run through the agent, one fault: capacity, verdict, artifacts that expire, and that the run ends, is rewritten only by an overtaken execution, and uploads without rows are purged |
| `report` | a deployment validation with one check of each of four kinds, one fault: evidence kept, a block explained, the page shows the end |
| `alerts` | three runs of one monitor, thresholds 1 and 2, two clicks of users, one stray worker, one restart of the sender: a failing monitor has an alert, a recovered one has none, news ends |
| `web_pages` | the suite builder, the follower, the wizard and the pages of runs |
| `web_forms` | eighteen scenes: the editor, creation, the workbench, the script editor, the sandbox, the library, configuration, the Dynatrace and application pages, the lists, imports and journeys |

Two jobs are the smallest number that can overlap; two executors with two slots
give a zombie, its replacement and goroutines that share a lease owner; one fault
of each kind already gives every pair of a fault and a recovery action.
`MaxStalls = 0` in `overlap` and `MaxLatency` below `Interval` and no cron schedule
in `due` are not conveniences: beyond them the properties fail, as the extra
configurations below show. One browser run with other callers of the agent fills its
single slot; three upload slots are more than the journey's two screenshots, so that
one is left over. In `alerts` three runs are one more than the largest threshold, so that
a streak can be broken, and a click before and one after a run was evaluated is what can
make its decision stale. In `report` each suite has one check: the phases of
an executor are one after the other and the gate is a disjunction over checks, so
what one check can do to another is only to come later. A page is exercised by two
overlapping calls and two or three edits (in the workspace of an application a section
that is opened counts as one): a call, an edit while it is under way,
another call and their answers in either order. Two users write to one object in the
editor, the Dynatrace panels and the journey pages. `MaxSteps = 3` gives a step before
and a step after the one at hand; two writers of a variable before a third step reads
it. `PageSize = 1` makes every row a page and a cursor. `Replicas = 2` and
`MaxRestores = 1` are the least with which a lookup races and a restore overtakes a
publisher; `PurgeLimit = 2` is below the three upload slots of a run.

In `MCForms` and `MCPages` every behaviour chooses its scene at the start; what the
other scenes are about stays in one fixed state, so that the state space is the sum
of the scenes and not their product. Nothing is shared between scenes.

| Violation | What happens |
|---|---|
| `cancel_crash` | crash, requeue, cancel: the run stays RUNNING for ever |
| `early_alert` | one run fails while another is queued: an alert with threshold 2 opens |

`PROJECT.json` quotes for each the line of the repository that says otherwise.

### Further configurations

Run by hand, each finds its property violated by what the code does.

| Configuration | Module | What happens |
|---|---|---|
| `EJ_zombie.cfg` | `MCExecutionJobs` | a stalled executor saves RUNNING over ABORTED and dies (`run_repository.go:78`) |
| `EJ_cancel_race.cfg` | `MCExecutionJobs` | CANCELLED becomes RUNNING when the job was already leased |
| `SCH_reenable.cfg` | `MCScheduling` | enabling within the second of a claim: the poll can never commit again (`scheduler/service.go:288`) |
| `BR_overlap_alert.cfg` | `MCBrowserRuns` | two overlapping failed runs count as one failure and raise no alert |

Others need a change of a configuration. `NoRunLeftActive` fails in `EJ_zombie.cfg` also
with neither crash nor stall but `MaxDbErrors = 1`: a failed save is dropped, the job
succeeds and the run stays RUNNING (`runs/service.go:527`). With two clients
(`Clients = {c1, c2}`) `SCH_requests.cfg` shows an enabled monitor with an inactive
schedule or the reverse (`Ops = {"configure", "enable", "disable"}`,
`ScheduleFollowsMonitor`), and an archived monitor that becomes enabled
(`Ops = {"enable", "archive"}`, `ArchivedNotEnabled`).

`DueClaimable` also fails with cron schedules when `Configure` looks up before a cron
time and writes after it was claimed (`Kinds = {"CRON"}`, no jitter, `MaxLatency = 2`),
`ScheduleFollowsMonitor` with one user when a request is abandoned between the two
statements of `SetState` (`"abandon"` in `Ops`), and the policy RUN_ONCE runs a
schedule once for every time it missed: `Following` treats SKIP alone specially.

`RequiredPassed`, put in the place of the properties of `DR_report.cfg`, fails: the samples
of a required monitor cannot be started, have no run id and are not counted
(`suites/deployment.go:885-892`), and the gate decides ALLOW_WITH_WARNINGS, though BLOCK
means "At least one required monitor or blocking ELF check failed."
(`src/apps/web/content/docs/reference/statuses-and-decisions.mdx:37`). There
`AllowedShowsNoFailure` fails as well: a deployment that is allowed shows failed checks.

In `AL_alerts.cfg`, `HealthCountsAlerts` and `HealthIsLatest` fail in the place of the
invariants: the health row is written at the end of a run alone, so it counts an alert
that a user resolved, and a run that ends late overwrites a newer one. `FailingHasAlert`
and `RecoveredHasNoAlert` fail without their exception `OneSaveAtATime`: of two runs
executed at once each takes the other for a failure, and the older decision may be
written last.

Further properties are stated in the modules of the pages and violated by the code.
Put into `WEB_forms.cfg` in the place of its `INVARIANTS` and `PROPERTIES` (actions as
`PROPERTY`), each gives a counterexample:

- `GeneratedUsed` (`Workbench`): an action generates a value under a name that has one: the
  request of its step sends the old one (`runs/executor.go:199`), though "Make generated
  values available in the current step and all later steps."
  (`src/Rhythm_Detailed_PRD.md:1086`); `PreviewOfThisCode` (`ScriptEditor`): the preview
  shown is of another code.
- `PublishedAsRead` (`MonitorRevisions`): what is published is an older draft than the page
  showed (`monitors/service.go:289`).
- `SavedIsStored` (`MonitorEditor`): editing during a save ends with "saved" over what
  was not (`routes/monitors/$monitorId/edit.tsx:106-144`).
- `DeletedStays` (`ConfigPanels`): a save under way when the profile is deleted brings it
  back (`library/service.go:206-295`; "This cannot be undone.",
  `certificates-panel.tsx:491`); `VerifiedIsTested`: "Connection verified" of settings
  that were changed since; `MarkIsCurrent`: `daysUntilExpiry` is computed when a
  certificate is saved and never again (`certificates.go:419`); `BundledAccepted`: a file
  with certificate and key is refused though the panel says it is supported.
- `SavesKeepOthers` (`DynatracePages`): the second of two saves composed from the same
  load erases the first (`SaveConfiguration` checks no revision).
- `RetiredStayRetired`, `TokenOfSetup` (`ApplicationPages`): a late save resurrects a
  deleted service; a token is shown beside the setup of another receiver.
- `EmptyMeansNone`, `DeletesWhatItNames`, `OfferedAccepted`, `EventsComplete`
  (`ListPages`): "No monitors yet" on a last page whose rows were deleted; a deletion of
  rows the dialog cannot name; Enable offered for an unpublished monitor; events
  cached when an alert changes.
- `PlaceholdersResolve`, `ReadyIsClean` (`MonitorImport`): placeholders of form bodies
  are percent-encoded and never interpolated; GraphQL variables and a `Cookie` header
  are dropped without a warning, though "Unsupported features are listed rather than
  silently discarded." (`request-builder.mdx:30`).
- `SettingsKeepSteps` (`JourneyPages`): saving the settings writes back the journey as it
  was when they were opened (`settings.tsx:92-136`); `CheckpointsDistinct` (with
  `MaxJourneySteps = 4`): a duplicated visual checkpoint shares the baseline of its
  original.

With `LoopsAllowed = TRUE` in `WEB_pages.cfg`, `FailureTraceable` fails: of a step that a
script selected a second time the pages show the first execution.

Three more, all proved below, hold when they are added: `PreviewIsCurrent` (`SuitePages`, an invariant of
`WEB_pages.cfg`), `ImportedOnce` (`MonitorImport`, an invariant) and `CreatedRuns`
(`MonitorCreation`, a property of `WEB_forms.cfg`).

### Other disagreements met while modelling

They follow from the definitions and have no property.

- Alerts: a run that succeeded with warnings or was cancelled counts as a failure; a run
  that was aborted evaluates nothing, and counts when the next one ends; a delivery
  that is SENDING when its process stops is never sent; resolving by hand tells nobody;
  `cooldown_seconds` is stored and never read.

- Variables: a value under a sensitive name is copied before the response is read and
  put back over what the tests script or an extractor set; an environment or
  collection variable becomes `variables.k` once any script has run, so a later
  `environment.set` does not reach `{{k}}`; a pre-request script's own `set` is not seen by
  its request under `variables.k`; `unset` and `clear` never delete; the catalog offers
  outputs of scripts that no run writes, extractors that are switched off, variables an
  action unsets, and the outputs of steps that are disabled or whose condition does not
  hold (`variable-catalog.ts:259-352`), though "Values shown here are available at this
  workflow step." (`variable-picker.tsx`).
- Sandbox: a script that returns at its top does not wait for its tests, and a test that
  rejects without a reason is recorded as passed; `to.have.property` throws a ReferenceError (434-444) though
  `javascript-sandbox.mdx:39` shows it; a test that takes `done` and never calls it is not
  recorded and the script succeeds; failures are lost when the script throws later;
  `type: "integer"` never matches in a schema; `_.set` ignores indexes that `_.get` reads;
  singular units of time count as milliseconds in `diff`; `deepEqual` looks at the order
  of keys; `path.normalize` drops a leading slash; an unterminated quote loses a CSV row.
  `LibraryAgrees` compares the operations outside these cases; `property`, checks of the
  response, JSON schemas by `ajv`, `events`, singular units of `diff`, indexes in `_.set` and
  the packages are not compared.
- Reports: a Dynatrace check that passed counts as failed and one that is pending as
  passed (`validation-summary.ts:27-39`); the failure reason of a validation is not shown; a
  cancellation between claim and first save shows CANCELLED while the run goes on.
- Runs: a failing setup script leaves no steps to show; success insight is shown for a
  queued run; the evidence of a loop is selected by the definition of its step.
- Suites: a check removed and another added may repeat an id; a late answer about the
  Dynatrace environment overwrites whichever check is at its position by then; an answer
  to a save closes whatever builder is open.
- Creation: after a lost answer an edited form is refused with IDEMPOTENCY_KEY_REUSED for
  good; a failed lookup of the key counts as none (`api/server.go:838`), and the lock
  around lookup and creation is one of a process: two monitors of one form.
- Browser runs: see the three exceptions under BrowserAgent and BrowserRuns.
- Restores: a revision that the validation refuses is published when it is restored
  between the two halves of a publication (`monitors/service.go:135-141`).
- Imports: a credential that is not a string, or in a body that does not parse, is
  imported (`monitor-import.ts:972-998`).
- Dynatrace: a failed load is taken for no configuration, and a save then erases mappings
  and guardrails (`$applicationId.tsx:176`); a thrown server function leaves a panel pending.
- Applications: owner, environment and index cannot be cleared; a single flag for all
  receivers lets a second creation through; a failed load, or a setup that is not answered
  after a receiver was created, leaves the page stale.
- Journeys: "Do not retain" is stored as 24 hours (`browsermonitors/service.go:2103`); a
  step added in the builder keeps the workbench at "Unsaved changes" after a save,
  because Go writes its fields in another order; `Publish` reads the draft before its
  transaction.

### Fairness

`ExecutionJobs`: goroutines run and their transactions end (WF on `Advance` and
`WatchTick`); a process that was told to stop exits; an abandoned lease expires and
the reclaimer's ticker fires (WF); the poll selects by availability within a class
of equal priority, so a job that is available again and again is selected (SF on
`Dispatch`). The loop over a workflow's steps is left because the code limits it to
100 steps. Users and faults are under no obligation. `Scheduling`: the clock and the
poll's ticker go on, and a request that began is carried out unless it is abandoned.

`Alerts`: the loop ticks every three seconds (WF on `Claim`), and a send ends by an answer or
its timeout (WF on `Answer`); users, workers and restarts are under no obligation.

`BrowserRuns`: the executor's goroutines, the agent, the reaper's and the cleanup's
tickers go on, the lease of an abandoned job expires, and a role that stopped is
started again. `DeploymentReport`: the executor and the reaper go on, the page is
visible, its timer ticks and polls are answered. `SuitePages`: runs advance and each
loop that follows one is answered or cut off. `RunPages`: runs are executed, the timer ticks (WF), and a
request that is repeated every second is answered at last (SF on `Answer`). A page
that reports that it gave up is not asked to show the end (`gaveUp`), nor is one that
shows the run whose loop was cut (`ShownWasCut`), of which it says nothing.

## Proofs

The theorems hold for every value of the constants that the named `ASSUME` of their
modules allows, and for every order of steps. Where a theorem needs more, it says so
in its statement, and the reason is a behaviour of the code that breaks the property
otherwise; most of these have a configuration under "Further configurations", or a
finding. In every module the argument is one inductive invariant, one lemma per action
or group of actions that it is preserved, and one step that it implies the property.

### ExecutionJobsProofs

- `TypeCorrect`, `LeaseColumnsAgree`, `NeverReplayed`, `Exclusive`, `EffectsOnce`:
  types, the agreement of the lease columns, and the invariants of the runs `overlap`
  and `recovery`.
- `Refinement`: `Spec => ImplementsLeasedQueue`.
- `EffectsAreFinal`: `EffectMatchesRun`, without any hypothesis on faults. The run
  `overlap` checks it without stalls and database errors; the theorem has them.
- `RunsReachAnEnd`: `NoRunLeftActive`, as long as no live goroutine has lost its lease
  and no transaction has failed (`Undisturbed`) and no job is put back after a crash.
  Without these it is false: a run that is put back and then cancelled stays RUNNING
  (`cancel_crash`).

The inductive invariant `IInv` holds, besides the properties, `SessionsSound` (a
goroutine that is not idle has a job, and its result is an error only once it has
returned), without which types are not preserved by a save, and `AttemptsAccounted` (a
job that a goroutine executes was leased, and one that is not recovery-safe and may
still be claimed was not), without which the bound on attempts is not inductive. For
the last two theorems `EInv` adds `ResultsSound` and `EffectsFinal` (the effects of a
run, its row, and what its goroutine has still to save), and `RowsSound` adds
`RowsAgree`: as long as nothing was disturbed, the goroutine that executes a job owns
its lease, and it returns without an error only after the row has ended.

### SchedulingProofs

- `TypeCorrectness`: the rows, the requests and the clock.
- `IntervalIsKept`: `SkippingKeepsInterval`, with every kind of schedule and request,
  and without bounds on time. The invariant `MovedOn` relates the time of a schedule to
  its last run.
- `DueIsClaimable`: `DueClaimable`, under `Unhurried`: schedules are manual or by
  interval, none is enabled again, and the longest request and a second fit into the
  interval. The deduplication key of a claim has seconds; enabling makes a schedule due
  in a second that may have its run already, and a configuration that is slow writes a
  time that may have passed. `ClaimInv` says that the times a schedule has, or that a
  request is about to write, are in a later second than all its claims.
- `SchedulesFollow`: `ScheduleFollowsMonitor`, when no request is abandoned between its
  two statements and two requests on one monitor do not overlap (`[]Apart`). Requests
  are no transactions, so that both would leave a schedule without its monitor.
  `FollowInv` says what a request that is half way remembers of its monitor.

### BrowserRunsProofs

For any journeys, checks, runs, executors, slots and faults:

- `TypeCorrectness`, `CapacityIsExact` (`CapacityExact`), `VerdictIsFounded`
  (`VerdictMatchesEvidence`), `ArtifactsStayBacked` (`ArtifactsBacked`) and the action
  property `SuccessIsFounded` (`SuccessIsTheAgents`);
- `BrowserJobsImplementQueue`: `Spec => JobsAreLeasedOnce`.

The inductive invariant `Sound` has five parts. `MemorySound` says of a journey under
way that all enabled steps before the next one were played, that none of them blocks,
and that a warning was counted exactly when an advisory check failed; of one that has a
verdict, that the verdict agrees with the steps. `CapacitySound` counts the executions
as a finite set. `RunsSound` relates an executor to the row: where it has an answer, it
has a status of the agent, and what it is about to store is what was answered; rows of
artifacts exist only while a run is stored or after it has ended, and the loop that
stores them knows of each that it wrote, but for the doubted; a run that has ended while
its executor goes on was cancelled, or its lease reaped. The steps of the
agent and those of the API service are separate lemmas.

For the refinement, `JobMoves` lists the four ways in which the job of one run changes
(inserted, claimed, ended, cancelled before it was claimed). `JobStepped` shows that
every step of the composition leaves all jobs alone or is such a move of one; an executor
that completes a job whose lease was reaped finds it no longer leased.

### DeploymentReportProofs

For any finite suites, samples and faults:

- `TypeCorrectness`, `EvidenceStays` (the action property `EvidenceKept`) and
  `BlockIsExplained` (`BlockExplained`);
- `ValidationImplementsQueue`: `Spec => JobIsLeasedOnce`, with an executor that goes on
  after its lease has expired, the reaper and users who cancel.

The invariant `Sound` has what a cut-off executor could destroy: as long as the job is
queued, just claimed or capturing its baseline, the report is the empty one, so that the
only write that starts from nothing finds nothing; at each later phase `Behind` says what
the phases before it have left in the report. `Sensible` says which columns an entry of a
check has, and `Judged` that the gate of a row is what its entries give; the latter is
why the page finds a reason for a block. `Concluded` adds to it, for the queue, that a
queued job has a run nobody has concluded, that a cancelled one has no executor any more,
and that an executor which has finished has concluded its run; so the job comes to an
end by its executor, the reaper or the user, and by one of them alone.

### MonitorRevisionsProofs

For any set of definitions, any number of authors and of revisions:

- `FrozenIsValid`: a published revision holds a definition that was validated
  (`PublishedValid`), although `Publish` validates what it read outside the transaction
  that publishes; but for a restore that replaced the draft between the two, which
  `overtaken` tells;
- `FrozenStays`: a published revision keeps its definition (`PublishedImmutable`);
- `RevisionsAreALog`: `RevisionsSpec => ImplementsReleaseLog`;
- `EditorKeepsToRevisions`: every step of the editor is one of the revisions or none
  (`EditorSpec => RevisionsSpec`), so that `EditedIsValid` and `EditedIsALog` hold of the
  editor with other authors;
- `EditorWaitsForItsOwn`: `PublicationInStep` (part of `EditorTypeOK`), the editor waits
  for a publication exactly while one of its own is under way.

The inductive invariant `RInv` says that every row but the draft is published and valid,
and that as long as some request has read the draft as valid, the draft is valid or a
restore overtook the request: saves that come before it commits write valid definitions,
and a restore that does so marks the row. Without the last part the commit of `PublishRead` would not
preserve validity. `LInv` adds that the draft is the last row and the published one the
row before it, without which the log would not be a prefix of the rows. `EInv` adds what
the editor remembers: at most one save is one that a publication waits for, and there is
one exactly while the editor is saving to publish.

### AlertsProofs

For any number of runs, channels, thresholds, clicks and strays:

- `FailingHasAlertHolds`, `RecoveredHasNoAlertHolds`: `FailingHasAlert` and
  `RecoveredHasNoAlert`.

In the inductive invariant `IInv`, `Held` says which transactions may be open (without
strays, one) and `Current` that what an open one has read is outdated only in a harmless
way: if the other latest runs are still a streak, it has seen that; if it decided to
open or to resolve, the newest run does not say the opposite; and if the policy is no
longer the one it read, nothing was judged since. Enqueueing and cancelling preserve it,
because they put a run that neither failed nor succeeded into the latest ones.

### FormsProofs

Each part is about the behaviours of one page (its `...Spec`), which `MCForms` plays as a
scene, for any number of edits and requests.

| Theorem | Property | Inductive invariant |
|---|---|---|
| `OneMonitor`, `CreatedMonitorRuns` | `OneMonitorPerForm`; what a finished creation has left (`CreatedRuns`) | `CreationSound`: a call, or a request of one that was given up, proves by its stage what was written before it, and no write takes back what an earlier one gave (`EffectKeeps`); `Sole`: unless a lookup failed or raced, one request at most is between its lookup and its insert, and only while there is no monitor |
| `WorkspaceShowsStored` | `ShownIsStored` | `WorkspaceSound`: what the page shows, or will show when the load under way ends, is behind what is stored only while a request that changed it has yet to begin a load, or after something was lost |
| `DynatraceKeepsOthers` | `PanelsKeepOthers` | `Composed`: a save that is still to be stored carries, in the fields that its panel does not edit, what it was composed from |
| `ConfigurationKept` | `NothingLost` | `ConfigSound`: a stored profile has material; a request names a stored profile and carries what it read |
| `SavedDraftIsStored` | `DraftShownIsStored` | `JourneySound`: the workbench creates and deletes nothing, what it takes for saved is a stored revision, and an answer names one |
| `SuccessIsTested` | `TestsCounted` | `SandboxSound`: once the body has come to its end, the tests it started with a promise are awaited; after a success each of those is recorded and none of the recorded has failed |
| `CredentialsStay` | `CredentialsWithheld` | `ReviewSound`: what is reviewed is the draft of the source at hand or of another one, whichever text a late file has put beside it; each kind of draft withholds what it must (`CollectionWithheld`, `CommandWithheld`) |
| `ImportedOnceHolds` | `ImportedOnce` | `ImportIdentified`: what was tried or made in one opening of the dialog carries one identifier, the one the dialog still holds while it is open; no opening is later than the last |

### PagesProofs

For any runs, evidence and order of answers, any number of monitors and any page size,
any workflow and variable, any suites and targets:

- `PageShowsItsRun`: `ShowsItsRun`;
- `FailuresAreTraceable`: `FailureTraceable`, of a run that executed no step twice; and
  its corollary `FailuresTraceable`, where scripts select no step again
  (`~LoopsAllowed`). Of a step that was executed twice the pages find the first
  execution, which did not fail;
- `PageIsPlaceHolds`: `PageIsPlace`, a page that is reached by its cursors holds those
  monitors that have the rank of its place in the list;
- `OfferedResolvesHolds`: `OfferedResolves`, a variable that the workbench offers to a
  step, and that an earlier step is sure to give, has a value there, and a request is
  rendered with one that may be the last given;
- `SuiteSentIsWellFormed`, `GateFollowsKindHolds` (`GateFollowsKind`) and
  `PreviewIsCurrentHolds` (`PreviewIsCurrent`), of the builder and the wizard of
  validation suites. They are proved of `SuiteSpec`, the pages without the fairness that
  the run `web_pages` assumes, which does not list them.

In `PageSound`, `Conclusive` says that only the last step of a run may have failed and
that it is the failed step of the run, and every answer that may still be shown is one of
the run of the route. An answer to a cancellation is shown wherever it comes, and the
invariant holds because only browser pages cancel and none of them opens another run.

`PageIsPlaceHolds` rests on the rank of a monitor among those that match: ranks count
finite sets, so that what lies behind a cursor has its ranks counted on from the cursor's
(`RankSplit`), and every rank up to the number of those that match occurs (`RankExists`);
hence the cursor of a full page has the rank of its end, and what follows begins the next
(`NextByRank`). The invariant `ListInv` gives the cursors of the trail in the URL the ranks
of the pages before the one shown, as long as the monitors that match stay the same.

`OfferedResolvesHolds` needs two inductions over the steps of a workflow: that the
recursive function `ValuesAfter` exists, and that after each step `variables.x` holds what
one of those gave that no later step is sure to replace, and the outputs of every sure
producer are still there (`LeftSound`); a step that is not sure may leave what it finds.
As induction over a predicate is not available, both are inductions over a set of numbers (`Induction`),
which is proved from `NatLessThanWellFounded` and `WFMin`: the smallest number that is
missing from the set would be a successor of one that is in it.

The invariant of the pages of suites is `SuiteSound`. `BuilderSound`: what is edited, every
save under way and what is stored have stages, none without a check, and in all of them
the gate of a check agrees with its kind and its box; an environment that arrives late is
written to whatever check is at its place by then, and the invariant holds because it sets
kind, target and gate together, or the target of a check of its kind alone. `WizardSound`: on the second step a request that the effect did not dispose
of is one for the suite and the window that are chosen, and the page waits, has failed or
shows their baseline. `FollowSound` types the runs that are followed.

### Only model-checked

- Liveness (`JobsSettle`, `DueRuns`, `NewsEnds`, `RunsEnd`, `OrphansPurged`, `ShownEnds`,
  `FollowedToEnd`, `FinalStatusShown`): the prover has no rule for fairness here.
- `LibraryAgrees` and `FormsAskForAll` compare data over bounded inputs, which is for
  TLC to enumerate.

## Plan

1. The runs of suites outside a deployment, their queue, and its refinement of
   `LeasedQueue`.
2. Alerts received from OpenSearch, their assignment and reconciliation, over `Alerts`.
3. `Agents`: `active_runs` against heartbeats; `Retention`: archive before delete; the
   Sahara and investigation outboxes.

## Not modelled

- Execution agents, Sahara events, investigations and retention: planned above; where
  another module calls them, the call is one effect. Of alerts those received from
  OpenSearch, of notifications the messages and how they are transported.
- The HTTP exchange and retries of a workflow step, how its condition is decided, and the
  navigation of scripts between steps; the
  interpreter of scripts; the language-model assistant and its prompts; the queries to
  Dynatrace and to the log store; authorization, audit and cryptography; input and output
  around the services.
- Dashboards, charts and layout of the web application: they change nothing. The
  generic form of `routes/configuration.tsx` is dead code.
- Baselines and recorded sessions of browser monitors beyond that a run can or cannot be
  prepared. The Redis transport, which is not wired in the deployed roles. The test
  fixtures.
