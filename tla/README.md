# A TLA+ verification of the AstrBot community plugin registry

The registry stores plugins for AstrBot. Maintainers upload archives or name git
repositories; workers build and scan them; reviewers, or the registry itself,
publish one version of each plugin; clients download a JSON registry of the
published ones. Paths below are relative to
`src/registry/src/astrbot_registry/` unless they start with `src/`.

## 1. The system

### Parts, their state and their operations

| Part | State | Operations that change it | Code |
|---|---|---|---|
| Plugins and versions | `plugins.status`; per version `build_status`, `version_status`, `is_latest`, `s3_key` | create, set status, set current, publish, delete | `services/plugin_service.py`, `models/` |
| Scan orchestration | `security_scans`, `review_provider_results` (mode, passed, analysis id, attempts) | scan, rescan, skip, poll VirusTotal, auto-publish | `services/scan_service.py`, `services/scan_providers/` |
| Scan policy | none; a decision over the results and the enabled providers | - | `services/scan_service.py` |
| Build | a version row from `building` to `success` or `failed`; an object in S3 | build a commit | `services/build_service.py` |
| Task queue | Redis list, sorted set of delayed tasks, dead-letter list; `worker_tasks` rows | enqueue, promote, pop, requeue, bury, retry by hand | `services/task_queue.py`, `services/task_observability.py` |
| Worker | the task in its hands and one database session per task | the loop of `run_worker` | `worker.py` |
| Admin API | none of its own | one short transaction per request, then a task | `api/admin.py` |
| Registry cache | the registry JSON and its MD5 in Redis | refresh, fill on a miss | `services/registry_service.py`, `api/public.py` |
| Runtime configuration | `system_config`, cached in Redis | update, fill on a miss | `services/runtime_config.py`, `services/config_service.py` |
| Submissions | a request and its decision | submit, accept, reject, mark as duplicate | `services/submission_service.py`, `services/submit_service.py` |
| Git access | none; GitHub's repositories move underneath | inspect, resolve, clone | `services/git_providers/`, `utils/git_utils.py`, `services/repo_inspection_service.py` |
| Object storage | one object for each key | upload, download, delete | `services/s3_service.py` |
| Accounts and registration | users, invites, proof-of-work challenges | bootstrap, create, approve, disable; challenge, register, invite | `services/registration_service.py`, `services/bootstrap_service.py`, `api/auth.py`, `api/admin.py` |
| Limiters | failures per key, start of the window, blocked until | check, record failure, record success | `services/security_service.py` |
| Clients | - | dashboard, `acprctl` | `src/dashboard`, `src/acprctl` |

Requests and workers share the database and Redis and nothing else. A request
commits first and enqueues afterwards. A worker pops a task (it is then nowhere
but in the worker's memory), opens a session and keeps it while it waits for git,
S3 and scan services. A scan whose VirusTotal answer is not there yet enqueues
a poll, which enqueues the next one.

### What is hard

* **Sessions that outlive the state they read.** Sessions use
  `expire_on_commit=False` and SQLAlchemy does not overwrite attributes it has
  loaded, not even in a `SELECT ... FOR UPDATE`. A task decides, after minutes of
  waiting, on the plugin status, version status, build status and scan results it
  loaded first. A flush writes only attributes that differ from the loaded value,
  so an assignment may also write nothing.
* **Overlapping scans of one version**: rescans, skips and several chains of polls,
  which share one result row and one counter.
* **Two stores, no transaction over both**: rows are committed before tasks are
  pushed, tasks are removed from one Redis structure before they are added to the
  next, and bookkeeping runs in the `try` block of the handler.
* **Constraints as the last defence**: `ck_versions_latest_active_success` and
  `idx_versions_is_latest_per_plugin` reject a commit; the task then fails as a whole.
* **Caches filled by readers** and cleared by writers (registry, configuration). The
  configuration is one hash, filled by an `HSET` that merges and an `EXPIRE` that follows, and an
  accessor of several settings reads it once for each.
* **Check, wait, act.** A decision on a submission, an invite, a challenge, a limiter, the count
  of accounts before bootstrap: each is read, something is awaited, and then it is acted on.
* **A repository that moves** between a preview and an import, and between the two clones of
  one import.
* **Rows and objects** of a version are written and deleted by separate calls, and a key may
  belong to two versions.

What makes each part correct: exactly one sound current version, none for a
withdrawn plugin; nothing pending without somebody working on it; publishing only
over results that allow it; no task in two places, none forgotten without a fault,
none tried too often; caches that converge to the database; an invite, a challenge
or a submission used once. `hazards` in `PROJECT.json` lists these line by line.

## 2. Modules

| Module | What it is |
|---|---|
| `ScanPolicy` | the publishing gate as operators on recorded results |
| `VersionLifecycle` | one plugin, its versions, the tasks on them, workers and administrators |
| `TaskDelivery` | what the queue promises: the abstract specification |
| `TaskQueue` | the queue and the worker loop in detail, refining `TaskDelivery` |
| `RegistryCache` | the cached registry document and its digest, readers, writers and their sessions |
| `RuntimeConfig` | the settings, their cache and its readers and writers |
| `RequestLimits` | the limiters in front of login, registration and challenges |
| `Accounts` | challenges, invites, registration, bootstrap and the administration of accounts |
| `RepoImport` | submissions, their review, previews, and imports of a moving repository |
| `Artifacts` | versions' rows against the objects of the bucket |
| `MC...` | the names and symmetry sets the configurations use |
| `VersionLifecycleProofs`, `TaskQueueProofs`, `RegistryCacheProofs`, `RuntimeConfigProofs`, `RequestLimitsProofs`, `AccountsProofs`, `RepoImportProofs`, `ArtifactsProofs` | the theorems about the module of that name and their TLAPS proofs |

The modules meet in named places. An import of `RepoImport` and a scan of `VersionLifecycle` are
tasks of `TaskQueue`, which promises that each is settled or lost to a fault. The registration mode of
`Accounts` and the enabled providers of `VersionLifecycle` are settings of `RuntimeConfig`.
`Accounts` and `RequestLimits` are the two halves of `POST /auth/register`: what it does and whether it is
let in. `Artifacts` refines the flag `stored` of `VersionLifecycle` into objects and keys.

### ScanPolicy

A recorded result is a (mode, passed) pair; the code tells six classes apart, so a
result is one of six words. `Shown` includes the fallback of
`scan_provider_results` to the columns of `security_scans`.

### VersionLifecycle

* `ver`, `res`, `vt` are the version rows, the provider results and the tracking
  columns of the VirusTotal result; `plugin`, `enabled` the plugin's status and
  `SCAN_ENABLED_PROVIDERS`; `queue` the tasks in Redis, in no order, since polls and
  retries are delayed by arbitrary times.
* A request is one action (`SetPluginStatus`, `SetVersionStatus`, `SetLatest`,
  `Publish`, `SkipScan`, `TriggerScan`, `UploadVersion`, `RequestBuild`,
  `ToggleProvider`, `DeleteVersion`, `DeletePlugin`). `TriggerScan` may die between its
  commit and its push.
* A task is a sequence of actions, one for each stretch between two waits:

  | Task | Steps |
  |---|---|
  | scan | `StartScan`, `FinishScan`, then `NotifyPoll` or `Reload` and `TryAutoPublish`, `Finish` |
  | poll | `PollNothing`, or `PollWithoutAsking`, or `StartPoll` and `FinishPoll`; then as a scan |
  | build | `StartBuild` (or `RefuseBuild`), `FinishUpload`, `ScanBuilt`, then as a scan |
  | any | `StartOnMissing`, `Raise`, `MarkBuildFailed`, `Requeue`, `Crash` |

* `job[w]` is the worker's session: the loaded build status, version status, `is_latest`, plugin
  status and poll attempts, and in `held` the results the session refers to and so
  will not read again. `Flush` is the rule that only a changed attribute is written.
  `Conflict` is a commit that a constraint or a missing row rejects. A scan inside a build (`ScanBuilt`) decides whether to
  mark its version as scanning on what the session held before `refresh_cache` and the lookup of the providers were awaited
  (`services/scan_service.py:198-202`, `services/plugin_service.py:270-271`); a load and a commit with only statements to the
  database between them are one step. `unaware` is history: the version was published by a session that had loaded the plugin as
  active, and so wrote no status.
* `refresh_cache` matters here for what it loads: it reads every active plugin with
  versions and results into the caller's session, unless another process has filled
  the cache again in the meantime (`cached`).

### TaskQueue and TaskDelivery

`row` is `worker_tasks.status`; `created` the tasks committed but not yet pushed;
`ready`, `delayed`, `dead` the three Redis structures; `worker[w]` the place in
`run_worker`. Every pair of writes is two actions (`Enqueue`/`PushCreated`,
`TakeDue`/`Promote`, `MarkFailed`/`PushFailed`, `HandlerSucceeds`/`MarkSucceeded`/
`EndTask`). `CallFails` is an error inside the `try` block, `Crash` the end of the
process or an error in the `except` block, `ProducerFails` a producer that stops
between commit and push. `lost`, `starts` and `completions` are history variables.
A retry by hand is an `Enqueue`: it copies the payload under a new id.

`TaskDelivery` says that a submitted task waits or is held by one worker, goes back
with one more attempt or is dropped, and may be lost. Under the mapping
`Delivery` a task waits while it is `created`, in a Redis structure, or being moved.

### RegistryCache

`json` and `md5` are the two Redis keys, `hash` the configuration's, with `mortal` for its time to live. The model follows
one plugin (`rows`) and one setting it is shown with (`config`: the enabled providers, or the public URL).
What a document shows is abstracted to the set of committed changes it reflects, so "older" and "missing a
change" are visible and nothing else of the document is. `generate_registry_json` is
`LookupJson`, `LoadPlugins`, the configuration, `FillJson`; `get_registry_md5` is `LookupMd5`, the same again, the configuration and
`FillMd5`; `refresh_cache` is `DeleteEntries` and then both. The configuration is `get_runtime_values`: `LookupConfig`, and on a miss
`SelectConfig`, `SetHash`, `SetExpiry`; it is read for the document and, as each key's time to live is a setting, once
more before each fill. `ChangeConfig` commits and `ClearConfig` deletes the hash; nobody refreshes the registry then. `view` is what a
long-lived session still holds of the rows: it shows them as it read them, plus its own changes.
`alone` is history, the process that has committed and refreshed with nobody in between; so is `oldHash`, that the hash was
outdated when it committed. Processes fail at any time (`Fail`), with no bound.

### RuntimeConfig

`SettingsAccessors` and `ServiceAccessors` list what every accessor of `runtime_config.py` reads, in
order and with its type. A text is absent, understood by its reader, or not (`int()` then raises;
a mode falls back to `disabled`). `get_runtime_values` is `Lookup` (`HGETALL`), `Select`, `FillHash` (`HSET`, which
merges), `SetExpiry`; an accessor repeats this for each key. `update_config` is `LoadItem` for each key, `Commit` (an
insert may find the row there, an update may find it gone: `Conflict`) and `ClearCache`. `excuse` and `quiet`
are history variables: why the hash may be outdated, and that nothing was committed since a read began.

### RequestLimits

One limiter at a time, since they share nothing: `states` is its dictionary, `admitted` the handlers between their
check and their record. They run on one event loop, so a check of all keys is one step and so is a record.
Time is relative (`age` of a window, `left` of a block) and `Tick` advances it. `late` is history: keys that were
blocked while the handler was at work. The three have lengths of window and block of their own, so `Window` and `Block` are any.

### Accounts

A request is a sequence of actions, one for each stretch between two awaits: `Register`, `PopChallenge`, `DeleteChallenge` (with
Redis; without, one step), `ReadMode`, `EnsureUserUnique`, `GetUsableInvite`, `CommitRegistration`. `users` and `invites` are rows; a
commit writes what differs from what the request loaded (`Write`). `spent`, `redeemed`, `booted`,
`admitted` and `overlap` are history. `Stop` is a process or a call that fails at any point.

### RepoImport

A repository is its sequence of commits, a commit's content what `metadata.yaml` says; a ref is a commit
or `Tip`, anything that moves. A decision is `LoadSubmission`, `MarkSubmissionDecision`, and for an acceptance
`EnqueueAccepted`; a preview `ResolveRef`, `FetchMetadata`, `MatchRepoMetadata`; an import `FirstClone`, `FindPlugin`, perhaps
`RecheckPlugin` and `InsertPlugin`, then `BuildClone`, `StoreVersion`, `EndImport`, each of which may fail, be retried
(`Raised`), be refused for good (`Refused`: a `RegistryError`) or be lost with its process. `redis` says
whether tasks are queued or run by the process that made them, which retries nothing. A task that is not running can be started
again by hand (`RetryTask`), as a copy that runs for the same submission (`sub`); `again` marks what was run before, by hand
or by the queue; `versions` remember the submission they were
made for, and whether they were made by a task that had run before.

### Artifacts

`rows` are the versions of one plugin key, which may be deleted and created again (`plugin` says which
incarnation exists), `bucket` the objects by key. A key has the first seven digits of the commit (`Short`), so commits may share
one. An upload stores and then inserts; a build inserts under a
placeholder key, stores, updates and scans what it has at hand; a deletion deletes objects and then rows. `leaked`
and `undone` are history: which objects and deletions a failure or a race cost.

## 3. Runs

All are `tlc -config <run>.cfg <module>`; each takes less than four minutes on two cores. Where
`CHECK_DEADLOCK FALSE` is given, requests, tasks or versions are bounded, and with all of them done the system
rightly rests. The other runs check it: in `config`, `limits` and `registry_cache` a reader can always come.

| Run | Instance | Shows |
|---|---|---|
| `lifecycle_workers` | 1 version, 2 workers, 2 requested tasks, 2 polls, workers symmetric | `TypeOK`, `CurrentVersionSound`, `PendingHasWork`, `PassedIsPublished` under every overlap of two tasks and the administrators |
| `lifecycle_builds` | 2 versions (symmetric), 1 worker, builds and uploads, the plugin disabled and enabled | `CurrentVersionSound`, `PendingHasWork`, `WithdrawnHasNoCurrent` |
| `lifecycle_providers` | 2 providers, 1 worker, one provider toggled at any time | `PassedIsPublished` |
| `lifecycle_drains` | 1 version, builds, 1 fault, fair | `PendingIsSettled`, `WorkersDrain` |
| `queue` | 2 tasks, 2 workers, 2 attempts, 2 faults, fair | the six invariants of `TaskQueue`, `DeliversTasks`, `EveryTaskSettles` |
| `registry_cache` | 2 processes, 2 changes (of rows or of the setting), failures without bound, fair | `RefreshedAloneIsFresh`, `Converges` |
| `config` | 2 processes, 3 accessors (one of two keys, one number, the mode), 2 updates, 1 fault, fair | `StaleHasCause`, `ExpiryIsComing`, `QuietReadIsCurrent`, `UpdatesTakeEffect` |
| `limits` | 2 handlers, 2 names, 1 address, limit 2, window 2, block 2, fair | `OvershootBounded`, `BlockIsServed`, `BlocksEnd` |
| `accounts` | 2 requests at a time and 4 in all, 3 names, 2 challenges, 1 invite of one use, any mode | `ChallengeSpentOnce`, `InviteWithinLimit`, `UsableIsAdmitted`, `BootstrapCloses`, `LockoutIsFinal` |
| `review` | 1 repository of up to 2 commits, 1 submission, 2 reviewers, 1 attempt, 1 fault, and a task started again by hand | `ImportedAsPreviewed`, `AcceptedIsImported`, `ImportedOnAcceptance` |
| `imports` | 2 repositories of up to 2 commits, 2 direct imports, 2 attempts | `BuiltFromPluginsRepository`, `LabelTellsContent` |
| `artifacts` | 2 versions, uploaded or built, 2 numbers, 3 commits of which 2 have the same first digits, 2 processes, 1 fault | `ServedAsScanned`, `BuiltHasObject`, `NoOrphans` |

`PendingHasWork` is the property most easily lost: a recorded "pending" always has a
queued task or a worker that will settle it, although a poll task may find its
analysis replaced and give up, a skip may remove it, and a rescan may start over.
`NoTaskForgotten`, `DeadIsBuried`, `HandledOnce` and the liveness properties hold *up to
faults*: the history variables say which faults cost a task (`HandledOnce` only bounds their number). `PendingHasWork` is run
without faults; with one, `lifecycle_drains` checks what it is for, and its theorem has no such bound.

Many of the newer properties are of the form "this holds, except when ...", with the exception named by a
history variable: an invite is used more often than it says only if registrations that hold it
overlap (`InviteWithinLimit`); a submission becomes two versions only if its ref moves and its task was started again, by hand or
because it failed after the build, or two reviewers had it loaded as pending (`ImportedOnAcceptance`); a withdrawn plugin has a current version
only if a task published it that had loaded the plugin as active (`WithdrawnHasNoCurrent`); what is served was not scanned only if
another version of its number, with other content and the same key, took its place (`ServedAsScanned`); the registry shows an old
configuration for ever only if a reader stopped between `HSET` and `EXPIRE` with outdated values (`Converges`); a version is mislabelled only if its ref moves and somebody pushed between the clones
(`LabelTellsContent`); a task that ends while everything has passed does not publish only if its session holds a
result that another task has replaced (`PassedIsPublished`). The exceptions are what the code does, and TLC shows that there are no others. They are
not assertions that the exceptions are harmless.

Each of `RegistryCache`, `RuntimeConfig`, `RequestLimits`, `Accounts`, `RepoImport` and `Artifacts` has a `TypeOK`; it holds in the instances
above and can be added to their configurations, which keep to the properties that say more.

### Bounds and why they are enough

* Versions: uniqueness of the current version needs two; everything else is about one.
* Workers: a conflict is between two sessions, or a session and a request.
* Requested tasks (`MaxRequests`): two, since overlap needs two; polls and retries come
  on top.
* `MaxPolls`, `MaxAttempts` 2: one repetition and the limit. `lifecycle_builds` and
  `lifecycle_providers` use one poll, the repetition being explored by the others.
* `MaxFaults` 1 in the lifecycle (a fault at every step), 2 in the queue (a fault while
  handling the consequence of one).
* Settings: one accessor of two keys, so that a read can be torn; one key whose text can raise; the one key that
  is validated. Two updates, for a fill between them.
* Limiters: a limit of two, so that counting matters. Window and block of two steps, since two of the three limiters have
  block and window of equal length by default: a block that starts with its window runs out within it, and the next
  handlers find the attempts still counted; one that starts later outlasts the window by a step, as the login
  limiter's does by ten minutes.
* Accounts: two requests at a time, for a race, and four in all: the first administrator, an invite's two
  registrations and one more decision. Accounts are created as an active administrator or a disabled user; other
  statuses come from registration.
* Imports: two repositories that claim one key; a commit before and after a push; `review` has one
  repository, since a submission names only one, and contents that differ in their author, so that an import can
  be refused. It has one copy of a task: two runs are what a second version needs.
  The queue's own second try is in `imports`; for what a submission becomes it is the same step as a copy by hand.
* Artifacts: a number shared by two versions or not, a commit shared, or its first digits, or not; the plugin created twice,
  so that a deletion can meet its successor.
* Changes to the registry: two, of rows, of the setting, or one of each, so that a session or a hash can be
  behind by one. Readers and failures are not bounded.
* Providers: `virustotal`, the only asynchronous one, and one other.

The theorems below hold without any of these bounds.

### Fairness

`FairSpec` asks weak fairness of each worker's steps, and of the push that follows a
producer's commit. `run_worker` loops until it is told to stop, `BLPOP` wakes it when
a task arrives, and the scan services are called with timeouts, so a worker that can
go on does. In `RegistryCache` it is asked of a call that has begun, and of the expiry of
each key, which Redis owes; not of a hash that was given no time to live. `RuntimeConfig` is alike. In `RequestLimits`
time passes and every handler returns, as the database calls it waits for do or fail. `Accounts`, `RepoImport` and
`Artifacts` state no fairness: whether a task gets done is `TaskQueue`'s question. Nothing is asked of administrators, faults or the order of tasks. Nor is
it assumed that a given task is taken in the end: a worker may always prefer another,
and the properties hold because requests, polls and retries are bounded.

### Where the code and its documentation disagree

Seven statements of the documentation, or of names in the code, are written down as properties at the end of
`VersionLifecycle`, `RegistryCache` and `Accounts` and are **false** of the models, and of the code as far as we can tell. They are
in no configuration; adding one to the configuration named shows its counterexample in seconds.

* `RescanRespectsLatest` (`lifecycle_workers`, `lifecycle_builds`). "Avoid violating the latest-version invariant while rescanning published
  versions" (`services/scan_service.py:274`). The first write of a scan spares a current version, as its session knows it; its last
  (226-227), and that of a poll (590-591), set `scanning` on it when VirusTotal has not answered. The constraint rejects
  the commit, the analysis id is lost, and the task is retried until it is dead. In a build the first write may do the
  same: `_can_mark_build_scanning` looks at `is_latest` as it was refreshed before the registry was (`services/plugin_service.py:270`),
  and the version may have been skipped and published since.
* `SuccessHasArtifact` (`lifecycle_builds`). `ck_versions_success_has_artifact` (`models/version.py:44-47`) tests that key and URL are set,
  and a build sets both to a placeholder before it uploads. Skipping the scan of a version under construction
  (`services/scan_service.py:345`) makes it `success`, and it can be published without an object.
* `NotHalfPublished` (`lifecycle_builds`). "Publishing is atomic on the backend. It should not leave a
  plugin half-published" (`src/skills/acprctl/references/validation-troubleshooting.md:372`). A build's session loaded the plugin while it was
  active; `plugin.status = "active"` (`services/plugin_service.py:398`) is then no change, and a plugin disabled meanwhile
  stays disabled with a current version. It is the exception (`unaware`) that `WithdrawnHasNoCurrent` makes.
* `PublishedOverNoBlockingResult` (`lifecycle_workers`). Publishing happens "only after build succeeds and recorded scan results are
  non-blocking" (`src/skills/acprctl/references/command-reference.md:322`). Of two overlapping scans, the one that saw a pass
  publishes over the failure the other has recorded since: the session judges the results it holds
  (`services/plugin_service.py:394`).
* `DigestOfCachedRegistry` (`registry_cache`). "Return MD5 of the cached registry JSON." (`api/public.py:49`). Document and digest are looked up, set
  and expired separately (`services/registry_service.py:62`), so the digest can be that of another document until a key
  expires.
* `PublishedAfterAllPass` (`lifecycle_workers`). "publish automatically after all enabled providers pass"
  (`src/deploy/.env.example:174`). A task that recorded a failure holds it until it ends, and does not publish over the pass
  that an overlapping scan has recorded since; with `BuildTasks = TRUE`, a build of an active plugin refreshes the
  registry before it scans (`services/plugin_service.py:271`), and its session then holds the version without results.
  `PassedIsPublished` is the same claim of sessions that hold no such result.
* `AdminUpdatedOnStartup` (`accounts`). `BOOTSTRAP_ADMIN_*`: "admin user created or updated on startup"
  (`src/deploy/.env.example:138`). `bootstrap_admin_user` returns when there is any account
  (`services/bootstrap_service.py:29-31`): it updates nobody, and once the last administrator is disabled a start brings none back.
  `LockoutIsFinal` is true for that reason; it says what the code does and not what this line promises.

Other statements speak of cases that the properties except by name, and are wrong in just these:

* "If `--version` is omitted, the backend uses the selected commit's `metadata.yaml` version as the registry version label."
  (`src/skills/acprctl/references/operations-workflows.md:66`), and "For Git submit/build, omit `--version` to keep the selected commit's
  `metadata.yaml` version." (`src/skills/acprctl/references/validation-troubleshooting.md:285`). The label is read from the first clone and the
  second is built: of a branch that moves in between, the label is that of another commit than the one selected in the end
  (`LabelTellsContent`).
* "The commit SHA is the artifact identity. The same plugin commit is not built twice; choose a new commit if the backend reports a
  duplicate commit." (`src/skills/acprctl/references/operations-workflows.md:68`). A row has the whole commit, but its object's key
  `commit_sha[:7]` (`services/s3_service.py:111`): two commits of one number with the same seven digits are two versions with one object
  (`ServedAsScanned`, by `Sharing`).
* "This removes only the selected version record and artifact." (`src/skills/acprctl/references/validation-troubleshooting.md:461`). Another
  version that shares the key, an upload of the same number for one, loses its object too (`BuiltHasObject`, by `Sharing`).

Met while reading and not stated as properties: a build refreshes the registry from
versions its session loaded at an earlier refresh, and so can put a withdrawn current
version back into the cached registry for a TTL (`RegistryCache` contains this, and
`Converges` says it ends); `src/deploy/README_en.md:156` says
only existing results block publishing, while `scan_providers_passed` also blocks on a
missing one (`services/scan_service.py:128`); `src/skills/acprctl/references/implementation-coverage.md:51`
says terminal tasks are retried, while `retry_task_endpoint` retries any that is not
running (`api/admin.py:1113`).

## 4. Proofs

Every invariant and every action property that a run checks, and the refinement of `TaskDelivery`, is also a theorem:
`tlapm <Module>Proofs.tla` proves it for all values of the constants that satisfy the module's `ASSUME`, which is to say
without the bounds above. Each theorem rests on an inductive invariant, checked by TLC on the runs of its module
before it was proved. The proofs have one lemma for each kind of step and one named step for each action;
what an action does to the fields of a row or a session is a lemma of its own, so that the argument above it speaks
of places, owners and tasks and no longer of records.

The assumptions on the constants say that a "no such thing" value is not a thing, that statuses come from the columns'
domains, that limits are natural numbers (positive where the code refuses 0), and that what runs at the same time is
finite in number. `ArtifactsAssumption` adds that the first digits of a commit are not one of the words `manual_upload` and
`git_auto` that stand in their place in a key. No theorem has a hypothesis beyond these.

### VersionLifecycle

* `TypeCorrect`: `TypeOK` is inductive.
* `CurrentVersionIsSound` (`CurrentVersionSound`). Inductive together with `TypeOK`. A step either changes one row
  without making it current (`OneRowSound`), makes one row current and all others not (`NewCurrentSound`), or makes none
  current (`NoneCurrentSound`). In the worker's steps it rests on the constraint: an update that
  breaks it is a `Conflict`, that of a scan that takes a current version for another included. What is not given by a constraint is the administrators'
  side and the steps that change a row without a test, such as `MarkedScanning`,
  `PollWithoutAsking`, `SkipScan` and `FinishUpload`.
* `WithdrawalSticks` (`WithdrawnHasNoCurrent`), inductive together with the two above. Withdrawing makes no version current, and
  what an administrator publishes or activates makes the plugin active; a task that publishes writes `active` unless its session
  had loaded that, which is what `unaware` records (`PublishingActivates`). No other step of a worker makes a version current
  (`OnlyPublishingMakesCurrent`). The exception cannot be dropped: the counterexample to `NotHalfPublished` is one to the
  property without it.
* `PendingIsWorkedOn` (`PendingHasWork`). `HasWork` accepts any task that would settle the result, and is not inductive: a
  scan of all providers counts only as long as the provider is enabled. `WorkInv` says who answers for a pending result:
  if its analysis has an id, a poll of its version, queued or at work or about to be retried; else a scan that was
  requested *by name* for its provider. A rescan withdraws the analysis and so passes the result from the polls to a scan; the commit of a
  scan passes it to the worker that is about to create the poll. `OnTask` is the rest of it: a session is about the version and the
  providers of its task. It holds with providers being toggled, which the runs check in part only.
* `PassedArePublished` (`PassedIsPublished`). The invariant is `PublishersBuilt`: a session on its way to publish has set its
  version to `success`. Then only results can make the gate refuse, and these are the recorded ones or have been replaced.
  Builds are included.

### TaskQueue

All safety results follow from one invariant, `QueueInv`. `Apart` says that no two places (`created`, the ready list, the delayed
set, a worker) have an envelope of the same task, `Enlisted` that only tasks with a row are anywhere and no dead one is,
`Recorded` which rows go with which places; `StartsCounted` bounds the starts of a task by the attempts its
envelope counts, `EndsCounted` its completions by the faults. `PlacesCount` turns the owners of a task into the number `Places`.

* `TypeCorrect`, `TaskIsInOnePlace` (`OnePlace`), `UnfinishedTaskIsSomewhere` (`NoTaskForgotten`), `CompletionsAreFaults`
  (`HandledOnce`), `StartsWithinAttempts` (`AttemptsBounded`), `TheDeadAreBuried` (`DeadIsBuried`).
* `QueueDeliversTasks` (`DeliversTasks`): the initial state maps to that of `TaskDelivery`, and each action to the step it names or to a
  stutter. `QueueInv` is needed here as well: taking a task leaves nothing of it behind only because it was in no second place.

### RegistryCache and RuntimeConfig

* `RegistryCacheProofs`: `TypeCorrect`, and `UndisturbedRefreshIsFresh` (`RefreshedAloneIsFresh`). `CacheInv` adds what is true as long as
  the process is left alone since its commit (`FreshFor`): it holds no rows but those of the database, whatever it found or
  has generated shows the rows and, unless `oldHash`, the configuration (`FreshProcess`), the hash is missing or current (`FreshHash`), and once it has
  deleted the two keys nothing else is in them (`FreshKeys`).
* `RuntimeConfigProofs`: `TypeCorrect`; `StalenessHasCause` (`StaleHasCause`) and `HashWillExpire` (`ExpiryIsComing`), which are inductive
  together with `WellFormed`, that whoever reads still has a key to read. `QuietReadsAreCurrent` (`QuietReadIsCurrent`) needs `Undisturbed`:
  while an accessor reads undisturbed, nothing stored or about to be stored is out of date.

### RequestLimits

* `TypeCorrect`, and `BlocksAreServed` (`BlockIsServed`), for any `Block` and `Window`. The history `late` names the keys that were blocked after
  the handler had passed the check; by `LateKnown`, every handler at work on a blocked key is late, and nobody is at work on the
  key of a challenge, which is counted as it is checked.
* `LimitsHold` (`OvershootBounded`), for any `Block` and `Window`. By `Limited(k)` there is a number of blocks that have run out in the
  window of a key (`Fits`): without a block, the attempts are at most what so many rounds of handlers can have added and the window has lasted
  for all of them; under a block, the handlers at work on `k` are counted with the attempts, since each of them can still
  add one, and the window has lasted for the blocks before and the part of this one that has passed. One lemma for each operation of
  a limiter (`CheckedFits`, `FailedFits`, `OlderFits`), and `RoundsOfWindow` for how many blocks a window has room for.

### Accounts

`AccountsInv` is `TypeOK` with what a request has gathered by each label (`Gathered`) and one part for each result.

* `ChallengesAreSpent` (`ChallengeSpentOnce`): `ChallengeCounted` counts the requests that a challenge let pass together with those that have
  read it from Redis and not deleted it yet; a request can be among them only once.
* `InvitesAreLimited` (`InviteWithinLimit`): by `InviteCounted`, as long as no two registrations held the invite at a time, `used` is at least
  the number of accounts, and the registration that holds it has read that number.
* `OnlyTheAdmittedGetIn` (`UsableIsAdmitted`): `Agrees` adds that the request that has the row loaded knows what it says.
* `BootstrapIsOver` (`BootstrapCloses`): `BootCounted` counts the accounts made together with the calls that found none.
* `LockoutStays` (`LockoutIsFinal`), an action property, from `Gathered`. `TypeCorrect`.

### RepoImport

`BuildInv` is about imports at work and versions, `ReviewInv` about submissions, the requests that decide on them and their tasks.

* `BuildsComeFromThePlugin` (`BuiltFromPluginsRepository`): `Founded` says what an import has established by the point it has reached, and
  from when it holds a commit to store, that this is of the plugin's repository and carries its key and author (`FromPlugin`); `Distinct`,
  that no commit is built twice.
* `LabelsTellTheContent` (`LabelTellsContent`): `ReadFrom` says what the first clone read, as long as the second is to come: the
  pinned commit, or the last one unless somebody has pushed. The second clone turns it into `Tells`.
* `ReviewersSeeWhatIsBuilt` (`ImportedAsPreviewed`): `Previewed`, that the preview shows the content of its commit, with the two above.
* `ImportsFollowAcceptance` (`ImportedOnAcceptance`): by `Reviewed`, unless two requests had the submission loaded at a time, one at most
  decides on it, finding it pending, and one at most has accepted it. `TraceInv` follows a submission from there into its tasks and
  versions: what is run for it has been decided on and has its ref (`Traced`, `TracedVersion`); without an overlap, of its tasks and
  versions one at most was not run `again` (`Once`, `Single`). Two versions of a pinned ref would be two of one commit, which `Distinct` excludes.
  `AcceptancesAreImported` (`AcceptedIsImported`), from `Kept`. `TypeCorrect`.

### Artifacts

`ArtifactsInv` is `KnownInv`, what rows, objects and processes are by the point they have reached, with four parts more.

* `ServedObjectsPassed` (`ServedAsScanned`): whatever is under a key was put there by a version that was given the key (`Puts`). A build
  of the same commit stores what was there before, so only a version in `Sharing` with other content replaces an object: another
  upload under the number, or a build of another commit with the same first digits.
* `BuiltVersionsHaveObjects` (`BuiltHasObject`), by `HasObject`, whatever the status of the row. It rests on `Unmade`: a version is made
  by one process, nobody deletes by its final key on its account before it has its row, so that the object is there when the row is
  written; and on `Swept`: who deletes its object with those of a plugin deletes its own plugin.
* `NothingIsOrphaned` (`NoOrphans`), by `Named`, which does not accept a row that is about to be deleted with its object. `TypeCorrect`.

### What is only model-checked

The liveness properties `PendingIsSettled`, `WorkersDrain`, `EveryTaskSettles`, `Converges`, `UpdatesTakeEffect` and
`BlocksEnd`: the prover handles neither fairness nor ENABLED. The safety that each of them rests on is proved: a pending result has
somebody at work on it, an unfinished task is somewhere, a hash without a time to live is about to get one. That the work
itself comes to an end is the part TLC shows on the instances above.

The `TypeOK` of `VersionLifecycle` and `TaskQueue` is in a configuration; that of the other modules is proved, and not
repeated in theirs.

## 5. What is left out, and the plan

Not modelled, and why:

* Pure data: reading, validating and previewing archives, parsing metadata and URLs, masking secrets, hashing
  passwords, issuing tokens, how a provider reaches a verdict.
* The recorded review label and the `human_review` row, and plugin metadata (`update_plugin`, tags, i18n): no decision reads
  them.
* Statistics (counters nothing decides on), migrations and start-up, the dashboard and `acprctl` (clients without state
  of the system), webhook signatures and event records.
* The fallback to in-process tasks for scans and builds: as for imports, it differs from a queue in that nothing is
  retried.
* In `RuntimeConfig`: a Redis client that is lost and found again; a process without Redis reads the table.
* In `RequestLimits`: `login_rate_limit_enabled = False`; that the dictionary is never swept of keys nobody asks for
  again; the address of a client behind proxies.
* In `Accounts`: a user name and an e-mail address that belong to two different accounts; the expiry of an
  invite, which is one of the reasons of `NoUsableInvite`.
* In `RepoImport`: deletion (in `VersionLifecycle` and `Artifacts`), forks that share commits, forced pushes, abbreviated commit
  ids, which GitHub resolves for a preview and `git clone --branch` refuses.
* In `Artifacts`: that the author's name is part of a key; the plugin's author does not change.

`PROJECT.json` lists every component with its status.

What remains, in this order:

1. Lemmas about the gate of `ScanPolicy` (what makes a version publishable does not stop doing so while its results and the
   providers stay), and with them that requests publish only what the gate lets through.
2. The safety behind the liveness properties, step by step: that a task of `VersionLifecycle` can be retried only
   finitely often, and that a chain of polls ends (`tries` and `attempts` as bounds that the model does not impose).
3. That `Artifacts` and `RepoImport` refine the flag `stored` and the build of `VersionLifecycle`, now an informal correspondence.
4. The hazard without a property: a skip during a build, of which `SuccessHasArtifact` shows one consequence.
