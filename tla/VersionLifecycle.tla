-------------------------- MODULE VersionLifecycle --------------------------
(***************************************************************************)
(* The versions of one plugin, from the request to build them to the       *)
(* moment one of them is the registry's current version: the plugins and   *)
(* plugin_versions rows, the scan results recorded for each version, the   *)
(* tasks the workers take, and the administrators who act at the same time *)
(* through the API.                                                        *)
(*                                                                         *)
(* An API request is short and runs in its own database session: it is one *)
(* step.  A task is not.  A worker loads rows into a session, waits for    *)
(* git, S3 or a scan service, and then writes.  Sessions are created with  *)
(* expire_on_commit=False and a flush writes only the attributes that      *)
(* differ from what the session loaded, so what a task writes depends on   *)
(* what it loaded before it waited.  job[w] keeps that session: build,     *)
(* status, latest, plug and tries are the loaded attributes, held the scan *)
(* results it has read and will not read again.                            *)
(***************************************************************************)
EXTENDS ScanPolicy, Naturals

CONSTANTS Versions,     \* identities a version row can have
          Workers,      \* worker processes
          NoVersion,    \* "no version row yet"
          AutoPublish,  \* auto_publish and not require_human_review
          BuildTasks,   \* whether builds from git are requested as well
          PluginInputs, \* statuses administrators give the plugin
          StatusInputs, \* statuses reviewers give a version
          Toggles,      \* providers administrators enable and disable
          MaxAttempts,  \* TASK_MAX_ATTEMPTS
          MaxPolls,     \* VIRUSTOTAL_MAX_POLL_ATTEMPTS
          MaxRequests,  \* bound: tasks administrators and webhooks enqueue
          MaxFaults     \* bound: exceptions and crashes the environment causes

PluginStatuses == {"pending", "active", "disabled", "deleted"}

ASSUME LifecycleAssumption == /\ NoVersion \notin Versions
                              /\ AutoPublish \in BOOLEAN
                              /\ BuildTasks \in BOOLEAN
                              /\ PluginInputs \subseteq PluginStatuses
                              /\ StatusInputs \subseteq VersionStatuses
                              /\ Toggles \subseteq Providers
                              /\ MaxAttempts \in Nat \ {0}
                              /\ MaxPolls \in Nat \ {0}
                              /\ MaxRequests \in Nat
                              /\ MaxFaults \in Nat

VARIABLES plugin,    \* plugins.status, or "gone"
          ver,       \* the plugin_versions rows
          res,       \* res[v][p]: the recorded result of provider p for v
          vt,        \* external_id and attempts of the virustotal result
          enabled,   \* SCAN_ENABLED_PROVIDERS
          queue,     \* tasks waiting in Redis, ready or delayed
          job,       \* what each worker is doing
          issued,    \* number of task ids given out
          requests,  \* tasks requested so far (bound)
          faults,    \* faults so far (bound)
          lost       \* versions a fault or a dead task left without their task

vars == <<plugin, ver, res, vt, enabled, queue, job, issued, requests, faults, lost>>

Task == [id : Nat, kind : {"scan", "scanall", "poll", "build"},
         v : Versions \cup {NoVersion}, sel : SUBSET Providers, attempts : Nat]

(* A version row.  "absent" was never created, "gone" was deleted; stored  *)
(* says whether the object its s3_key names is in the bucket, and scan     *)
(* whether it has a security_scans row.  unaware is history: who made the   *)
(* version current was a build that had loaded the plugin as active.       *)
Row == [build : BuildStatuses \cup {"absent", "gone"}, status : VersionStatuses,
        latest : BOOLEAN, scan : BOOLEAN, stored : BOOLEAN, unaware : BOOLEAN]

Job == [pc : {"building", "built", "scanning", "polling", "notify", "reload", "publish",
              "finishing", "raised", "failing", "conflict"},
        task : Task, v : Versions \cup {NoVersion}, sel : SUBSET Providers,
        build : BuildStatuses, status : VersionStatuses, latest : BOOLEAN,
        plug : PluginStatuses \cup {"unloaded"}, tries : Nat,
        held : [Providers -> Results \cup {"unread"}]]

Idle == [pc |-> "idle"]

NoResults == [p \in Providers |-> "none"]
Unread    == [p \in Providers |-> "unread"]

TypeOK == /\ plugin \in PluginStatuses \cup {"gone"}
          /\ ver \in [Versions -> Row]
          /\ res \in [Versions -> [Providers -> Results]]
          /\ vt \in [Versions -> [ext : BOOLEAN, tries : Nat]]
          /\ enabled \in SUBSET Providers
          /\ queue \in SUBSET Task
          /\ job \in [Workers -> Job \cup {Idle}]
          /\ issued \in Nat /\ requests \in Nat /\ faults \in Nat
          /\ lost \in SUBSET Versions

Absent == [build |-> "absent", status |-> "draft", latest |-> FALSE,
           scan |-> FALSE, stored |-> FALSE, unaware |-> FALSE]

(* No external_id.  It and attempts are read only while the virustotal       *)
(* result is pending; a result that stops being pending forgets them here. *)
NoAnalysis == [ext |-> FALSE, tries |-> 0]

Init == /\ plugin = "pending"
        /\ ver = [v \in Versions |-> Absent]
        /\ res = [v \in Versions |-> NoResults]
        /\ vt = [v \in Versions |-> NoAnalysis]
        /\ enabled = Providers
        /\ queue = {}
        /\ job = [w \in Workers |-> Idle]
        /\ issued = 0 /\ requests = 0 /\ faults = 0
        /\ lost = {}

-----------------------------------------------------------------------------
(* Rows and their constraints. *)

Present(v) == v \in Versions /\ ver[v].build \notin {"absent", "gone"}

(* ck_versions_latest_active_success.  A flush that breaks it raises.      *)
RowOK(r) == r.latest => r.status = "active" /\ r.build = "success"

(* Variant: the session writes back what it loaded. *)
Flush_Loaded(db, loaded, new) == loaded

(* What a flush leaves in a column: nothing is written when the session    *)
(* assigns the value it loaded.                                            *)
Flush(db, loaded, new) == IF new = loaded THEN db ELSE new

MayPublish(v) == Publishable(ver[v].build, res[v], ver[v].scan, enabled)

(* What a session that loads version v now sees of its results. *)
Displayed(v) == [p \in Providers |-> Shown(res[v], ver[v].scan, p)]

(* Variant: publishing does not clear the flag of the version before. *)
NoneLatest_Kept == ver

(* UPDATE plugin_versions SET is_latest = false WHERE plugin_id = ...       *)
NoneLatest == [u \in Versions |-> [ver[u] EXCEPT !.latest = FALSE, !.unaware = FALSE]]

(* Variant: without the test _can_mark_build_scanning makes. *)
CanMarkScanning_Always(r) == TRUE

(* _can_mark_build_scanning, of a row or of what a session holds of one;    *)
(* s3_key and download_url are set on every row.                           *)
CanMarkScanning(r) == ~(r.latest /\ r.status = "active")

(* mark_scan_pending sets the version scanning unless it is published.     *)
MarkedScanning(r) == [r EXCEPT !.scan = TRUE,
                               !.build = IF CanMarkScanning(r) THEN "scanning" ELSE @]

Enqueue(kind, v, sel) ==
    /\ queue' = queue \cup {[id |-> issued, kind |-> kind, v |-> v,
                             sel |-> sel, attempts |-> 0]}
    /\ issued' = issued + 1

-----------------------------------------------------------------------------
(* Requests of administrators and reviewers.  Each is one short transaction *)
(* in a session of its own; publishing and set_latest hold row locks.      *)

Admin == UNCHANGED <<vt, enabled, queue, job, issued, requests, faults, lost>>

(* Variant: only deleting a plugin withdraws its versions. *)
SetPluginStatus_DisableKeeps(s) ==
    /\ plugin # "gone"
    /\ plugin' = s
    /\ ver' = IF s = "deleted" THEN NoneLatest ELSE ver
    /\ UNCHANGED res /\ Admin

(* set_plugin_status: withdrawing the plugin withdraws every version. *)
SetPluginStatus(s) ==
    /\ plugin # "gone"
    /\ plugin' = s
    /\ ver' = IF s \in {"disabled", "deleted"} THEN NoneLatest ELSE ver
    /\ UNCHANGED res /\ Admin

(* set_version_status: only activation is gated. *)
SetVersionStatus(v, s) ==
    /\ Present(v)
    /\ s = "active" => MayPublish(v)
    /\ ver' = [ver EXCEPT ![v].status = s,
                          ![v].build = IF s = "active" THEN "success" ELSE @,
                          ![v].latest = IF s = "active" THEN @ ELSE FALSE]
    /\ UNCHANGED <<plugin, res>> /\ Admin

(* set_latest_version, under FOR UPDATE locks on the plugin and its versions. *)
SetLatest(v) ==
    /\ Present(v)
    /\ plugin = "active" /\ ver[v].status = "active"
    /\ MayPublish(v)
    /\ ver' = [NoneLatest EXCEPT ![v].latest = TRUE, ![v].build = "success"]
    /\ UNCHANGED <<plugin, res>> /\ Admin

(* publish_plugin_version as an administrator's request. *)
Publish(v) ==
    /\ plugin # "gone" /\ Present(v)
    /\ MayPublish(v)
    /\ plugin' = "active"
    /\ ver' = [NoneLatest EXCEPT ![v].latest = TRUE, ![v].build = "success",
                                 ![v].status = "active"]
    /\ UNCHANGED res /\ Admin

(* mark_scan_skipped, for one enabled provider or all of them. *)
SkipScan(v, sel) ==
    /\ Present(v)
    /\ res' = [res EXCEPT ![v] = [p \in Providers |-> IF p \in sel THEN "skipped" ELSE @[p]]]
    /\ vt' = IF VT \in sel THEN [vt EXCEPT ![v] = NoAnalysis] ELSE vt
    /\ ver' = [ver EXCEPT ![v].scan = TRUE, ![v].build = "success"]
    /\ UNCHANGED <<plugin, enabled, queue, job, issued, requests, faults, lost>>

(* Variant: no task for a version that is being scanned already. *)
TriggerScan_OncePerScan(v, sel, reached) ==
    /\ Present(v) /\ requests < MaxRequests /\ reached
    /\ requests' = requests + 1
    /\ res' = [res EXCEPT ![v] = [p \in Providers |-> IF p \in sel THEN "pending" ELSE @[p]]]
    /\ vt' = IF VT \in sel THEN [vt EXCEPT ![v] = NoAnalysis] ELSE vt
    /\ ver' = [ver EXCEPT ![v] = MarkedScanning(@)]
    /\ IF ver[v].build = "scanning" THEN UNCHANGED <<queue, issued>> ELSE Enqueue("scan", v, sel)
    /\ UNCHANGED <<plugin, enabled, job, faults, lost>>

(* trigger_scan and trigger_scan_provider: mark_scan_pending commits, and   *)
(* only then is the task created and pushed.  reached is false when the    *)
(* request dies in between.                                                *)
TriggerScan(v, sel, reached) ==
    /\ Present(v) /\ requests < MaxRequests
    /\ requests' = requests + 1
    /\ res' = [res EXCEPT ![v] = [p \in Providers |-> IF p \in sel THEN "pending" ELSE @[p]]]
    /\ vt' = IF VT \in sel THEN [vt EXCEPT ![v] = NoAnalysis] ELSE vt
    /\ ver' = [ver EXCEPT ![v] = MarkedScanning(@)]
    /\ IF reached
       THEN Enqueue("scan", v, sel) /\ UNCHANGED <<faults, lost>>
       ELSE /\ faults < MaxFaults /\ faults' = faults + 1
            /\ lost' = lost \cup {v}
            /\ UNCHANGED <<queue, issued>>
    /\ UNCHANGED <<plugin, enabled, job>>

(* upload_version: the object is stored, then the row is created with       *)
(* build_status success and no scan result, then a scan is queued.         *)
UploadVersion(v) ==
    /\ plugin # "gone" /\ ver[v].build = "absent" /\ requests < MaxRequests
    /\ requests' = requests + 1
    /\ ver' = [ver EXCEPT ![v].build = "success", ![v].stored = TRUE]
    /\ Enqueue("scanall", v, {})
    /\ UNCHANGED <<plugin, res, vt, enabled, job, faults, lost>>

(* trigger_build, create_version_from_repo, the webhook. *)
RequestBuild ==
    /\ BuildTasks
    /\ plugin # "gone" /\ requests < MaxRequests
    /\ requests' = requests + 1
    /\ Enqueue("build", NoVersion, {})
    /\ UNCHANGED <<plugin, ver, res, vt, enabled, job, faults, lost>>

(* update_config on SCAN_ENABLED_PROVIDERS. *)
ToggleProvider(p) ==
    /\ enabled' = IF p \in enabled THEN enabled \ {p} ELSE enabled \cup {p}
    /\ UNCHANGED <<plugin, ver, res, vt, queue, job, issued, requests, faults, lost>>

DeletedRow == [Absent EXCEPT !.build = "gone"]

(* delete_version *)
DeleteVersion(v) ==
    /\ Present(v)
    /\ ver' = [ver EXCEPT ![v] = DeletedRow]
    /\ res' = [res EXCEPT ![v] = NoResults]
    /\ vt' = [vt EXCEPT ![v] = NoAnalysis]
    /\ UNCHANGED <<plugin, enabled, queue, job, issued, requests, faults, lost>>

(* delete_plugin removes the plugin, its versions and their results. *)
DeletePlugin ==
    /\ plugin # "gone"
    /\ plugin' = "gone"
    /\ ver' = [v \in Versions |-> DeletedRow]
    /\ res' = [v \in Versions |-> NoResults]
    /\ vt' = [v \in Versions |-> NoAnalysis]
    /\ UNCHANGED <<enabled, queue, job, issued, requests, faults, lost>>

AdminStep ==
    \/ \E s \in PluginInputs : SetPluginStatus(s)
    \/ \E v \in Versions :
          \/ \E s \in StatusInputs : SetVersionStatus(v, s)
          \/ SetLatest(v)
          \/ Publish(v)
          \/ UploadVersion(v)
          \/ DeleteVersion(v)
          \/ \E sel \in {enabled} \cup {{p} : p \in enabled} :
                \/ SkipScan(v, sel)
                \/ \E reached \in BOOLEAN : TriggerScan(v, sel, reached)
    \/ RequestBuild
    \/ DeletePlugin
    \/ \E p \in Toggles : ToggleProvider(p)

-----------------------------------------------------------------------------
(* What the workers do with a task.                                        *)

Done(w) == job' = [job EXCEPT ![w] = Idle]

NewJob(t, label, v, sel) ==
    [pc |-> label, task |-> t, v |-> v, sel |-> sel, build |-> "pending",
     status |-> "draft", latest |-> FALSE, plug |-> "unloaded", tries |-> 0, held |-> Unread]

(* From here on only the task and the version of the session matter. *)
Leave(w, label) == job' = [job EXCEPT ![w] = NewJob(@.task, label, @.v, {})]

(* A write to rows that were deleted meanwhile, or that breaks a           *)
(* constraint, raises and leaves the database as it was.                   *)
Conflict(w) == Leave(w, "conflict") /\ UNCHANGED <<plugin, ver, res, vt>>

(* BLPOP: the task leaves Redis before it is handled. *)
Takes(w, t) == /\ job[w] = Idle /\ t \in queue
               /\ queue' = queue \ {t}
               /\ UNCHANGED <<enabled, issued, requests, faults>>

(* A scan or a poll of a version that was deleted: ValueError. *)
StartOnMissing(w, t) ==
    /\ Takes(w, t) /\ t.kind \in {"scan", "scanall", "poll"} /\ ~Present(t.v)
    /\ job' = [job EXCEPT ![w] = NewJob(t, "failing", t.v, {})]
    /\ UNCHANGED <<plugin, ver, res, vt, lost>>

(* scan_version up to its first commit: choose the providers, load the     *)
(* version, mark it scanning unless it is published.                       *)
ScanMark(r) == IF CanMarkScanning(r) THEN MarkedScanning(r) ELSE r

ScanSession(r, j) == [j EXCEPT !.pc = "scanning", !.build = ScanMark(r).build,
                               !.status = r.status]

StartScan(w, t) ==
    /\ Takes(w, t) /\ t.kind \in {"scan", "scanall"} /\ Present(t.v)
    /\ LET sel == IF t.kind = "scanall" THEN enabled ELSE t.sel
       IN  job' = [job EXCEPT ![w] = ScanSession(ver[t.v], NewJob(t, "scanning", t.v, sel))]
    /\ ver' = [ver EXCEPT ![t.v] = ScanMark(@)]
    /\ UNCHANGED <<plugin, res, vt, lost>>

(* build_from_repo up to create_version: the session keeps the plugin it   *)
(* loaded, and the row carries the key of an object not yet uploaded.      *)
StartBuild(w, t, v) ==
    /\ Takes(w, t) /\ t.kind = "build" /\ plugin # "gone"
    /\ ver[v].build = "absent"
    /\ ver' = [ver EXCEPT ![v].build = "building"]
    /\ job' = [job EXCEPT ![w] = [NewJob(t, "building", v, {}) EXCEPT
                                     !.build = "building", !.plug = plugin]]
    /\ UNCHANGED <<plugin, res, vt, lost>>

(* No row is created: the plugin is gone, or the preflight, the clone, the  *)
(* metadata or a commit that was built before raises an error that is       *)
(* retried or makes the task dead.                                         *)
RefuseBuild(w, t, retried) ==
    /\ Takes(w, t) /\ t.kind = "build"
    /\ job' = IF retried THEN [job EXCEPT ![w] = NewJob(t, "failing", NoVersion, {})] ELSE job
    /\ UNCHANGED <<plugin, ver, res, vt, lost>>

(* The archive is uploaded; update_version_after_build, which reads the row *)
(* again at once, and its refresh_cache.  Unless the registry is cached again already (cached),   *)
(* refresh_cache loads the versions of every active plugin with their      *)
(* results, and this session will not load them a second time.             *)
FinishUpload(w, cached) ==
    /\ job[w].pc = "building"
    /\ IF Present(job[w].v)
       THEN /\ ver' = [ver EXCEPT ![job[w].v].build = "success", ![job[w].v].stored = TRUE]
            /\ job' = [job EXCEPT ![w].pc = "built", ![w].build = "success",
                         ![w].status = ver[job[w].v].status, ![w].latest = ver[job[w].v].latest,
                         ![w].held = IF plugin = "active" /\ ~cached THEN Displayed(job[w].v) ELSE @]
            /\ UNCHANGED <<plugin, res, vt>>
       ELSE Conflict(w)
    /\ UNCHANGED <<enabled, queue, issued, requests, faults, lost>>

(* scan_version called by the build, up to its first commit.  The session   *)
(* has the version, so db.get asks for nothing: whether to mark it scanning *)
(* is decided on what it held before refresh_cache and the providers were   *)
(* awaited.                                                                *)
ScanBuilt(w) ==
    /\ job[w].pc = "built"
    /\ LET j    == job[w]
           row  == [ver[j.v] EXCEPT !.scan = TRUE, !.build = "scanning"]
           next == [j EXCEPT !.pc = "scanning", !.sel = enabled, !.latest = FALSE]
       IN IF ~CanMarkScanning(j)
          THEN job' = [job EXCEPT ![w] = next] /\ UNCHANGED <<plugin, ver, res, vt>>
          ELSE IF ~Present(j.v) \/ ~RowOK(row) THEN Conflict(w)
          ELSE /\ ver' = [ver EXCEPT ![j.v] = row]
               /\ job' = [job EXCEPT ![w] = [next EXCEPT !.build = "scanning"]]
               /\ UNCHANGED <<plugin, res, vt>>
    /\ UNCHANGED <<enabled, queue, issued, requests, faults, lost>>

Settled(outcomes) == \A p \in DOMAIN outcomes : outcomes[p] # "pending"

(* Results the session still refers to, newest, are not read again; one    *)
(* that it read before stays as it was read.                               *)
Held(j, newest, results) ==
    [p \in Providers |-> IF p \in newest /\ j.held[p] = "unread" THEN results[p] ELSE j.held[p]]

(* scan_version from the answers of the providers to its commit.  Of the    *)
(* results it wrote it keeps one in a variable, the last.                  *)
FinishScan(w, outcomes, last) ==
    /\ job[w].pc = "scanning"
    /\ LET j     == job[w]
           build == IF Settled(outcomes) THEN "success" ELSE "scanning"
           row   == [ver[j.v] EXCEPT !.scan = TRUE, !.build = Flush(@, j.build, build)]
       IN IF ~Present(j.v) \/ ~RowOK(row) THEN Conflict(w)
          ELSE /\ ver' = [ver EXCEPT ![j.v] = row]
               /\ res' = [res EXCEPT ![j.v] =
                            [p \in Providers |-> IF p \in j.sel THEN outcomes[p] ELSE @[p]]]
               /\ vt' = IF VT \in j.sel
                        THEN [vt EXCEPT ![j.v] =
                                [ext |-> outcomes[VT] = "pending", tries |-> 0]]
                        ELSE vt
               /\ IF Settled(outcomes)
                  THEN job' = [job EXCEPT ![w].pc = "reload", ![w].build = build,
                                          ![w].held = Held(j, {last} \cap j.sel, outcomes)]
                  ELSE Leave(w, "notify")
               /\ UNCHANGED plugin
    /\ UNCHANGED <<enabled, queue, issued, requests, faults, lost>>

(* Variant: the follow-up poll is never pushed. *)
NotifyPoll_Dropped(w) ==
    /\ job[w].pc = "notify"
    /\ Leave(w, "finishing")
    /\ UNCHANGED <<plugin, ver, res, vt, enabled, queue, issued, requests, faults, lost>>

(* The follow-up poll is created and pushed after the commit. *)
NotifyPoll(w) ==
    /\ job[w].pc = "notify"
    /\ Enqueue("poll", job[w].v, {})
    /\ Leave(w, "finishing")
    /\ UNCHANGED <<plugin, ver, res, vt, enabled, requests, faults, lost>>

(* What is left of a task: the last refresh_cache and mark_task_succeeded. *)
Finish(w) ==
    /\ job[w].pc = "finishing" /\ Done(w)
    /\ UNCHANGED <<plugin, ver, res, vt, enabled, queue, issued, requests, faults, lost>>

(* poll_virustotal_analysis when there is nothing to poll: the result is    *)
(* not pending any more, or a rescan was requested and has no analysis yet. *)
PollNothing(w, t) ==
    /\ Takes(w, t) /\ t.kind = "poll" /\ Present(t.v)
    /\ ~(vt[t.v].ext /\ res[t.v][VT] = "pending")
    /\ UNCHANGED <<plugin, ver, res, vt, job, lost>>

(* The result of a poll that ends the analysis. *)
Conclude(v, verdict) ==
    /\ res' = [res EXCEPT ![v][VT] = verdict]
    /\ vt' = [vt EXCEPT ![v] = NoAnalysis]

PollSession(t) ==
    [NewJob(t, "polling", t.v, {VT}) EXCEPT !.build = ver[t.v].build,
        !.status = ver[t.v].status, !.tries = vt[t.v].tries]

(* _complete_provider_outcome without asking VirusTotal: the provider was   *)
(* disabled or has no key (skipped), or the deadline has passed (error).   *)
PollWithoutAsking(w, t, verdict) ==
    /\ Takes(w, t) /\ t.kind = "poll" /\ Present(t.v)
    /\ vt[t.v].ext /\ res[t.v][VT] = "pending"
    /\ VT \notin enabled => verdict = "skipped"
    /\ Conclude(t.v, verdict)
    /\ ver' = [ver EXCEPT ![t.v].scan = TRUE, ![t.v].build = "success"]
    /\ job' = [job EXCEPT ![w] = [PollSession(t) EXCEPT !.pc = "reload", !.build = "success",
                                                       !.held[VT] = verdict]]
    /\ UNCHANGED <<plugin, lost>>

StartPoll(w, t) ==
    /\ Takes(w, t) /\ t.kind = "poll" /\ Present(t.v)
    /\ vt[t.v].ext /\ res[t.v][VT] = "pending" /\ VT \in enabled
    /\ job' = [job EXCEPT ![w] = PollSession(t)]
    /\ UNCHANGED <<plugin, ver, res, vt, lost>>

(* The answer of VirusTotal.  "pending" for the last allowed time becomes   *)
(* an error.  The session loaded mode pending and the external_id, so a     *)
(* pending answer writes neither; attempts it always writes.               *)
FinishPoll(w, answer) ==
    /\ job[w].pc = "polling"
    /\ LET j       == job[w]
           verdict == IF answer = "pending" /\ j.tries + 1 >= MaxPolls THEN "error" ELSE answer
           build   == IF verdict = "pending" THEN "scanning" ELSE "success"
           row     == [ver[j.v] EXCEPT !.build = Flush(@, j.build, build)]
       IN IF ~Present(j.v) \/ ~RowOK(row) THEN Conflict(w)
          ELSE /\ ver' = [ver EXCEPT ![j.v] = row]
               /\ IF verdict = "pending"
                  THEN /\ vt' = IF vt[j.v].ext THEN [vt EXCEPT ![j.v].tries = j.tries + 1] ELSE vt
                       /\ UNCHANGED res
                       /\ Leave(w, "notify")
                  ELSE /\ Conclude(j.v, verdict)
                       /\ job' = [job EXCEPT ![w].pc = "reload", ![w].build = build,
                                               ![w].held[VT] = verdict]
               /\ UNCHANGED plugin
    /\ UNCHANGED <<enabled, queue, issued, requests, faults, lost>>

(* Variant: only the providers of this task count. *)
SessionResults_OwnOnly(j) ==
    [p \in Providers |-> IF p \notin j.sel THEN "none"
                         ELSE IF j.held[p] = "unread" THEN Displayed(j.v)[p] ELSE j.held[p]]

(* What the session takes the results of its version to be. *)
SessionResults(j) ==
    [p \in Providers |-> IF j.held[p] = "unread" THEN Displayed(j.v)[p] ELSE j.held[p]]

(* refresh_cache after the commit; see FinishUpload. *)
Reload(w, cached) ==
    /\ job[w].pc = "reload"
    /\ LET j == job[w]
       IN job' = [job EXCEPT ![w].pc = "publish",
                    ![w].held = IF plugin = "active" /\ Present(j.v) /\ ~cached
                                THEN SessionResults(j) ELSE @]
    /\ UNCHANGED <<plugin, ver, res, vt, enabled, queue, issued, requests, faults, lost>>

(* Variant: a plugin has to be active before its versions are published. *)
AutoPublishes_ActiveOnly(j) ==
    /\ AutoPublish /\ plugin = "active" /\ Present(j.v)
    /\ Publishable(j.build, SessionResults(j), FALSE, enabled)

(* _try_auto_publish_after_scan.  publish_plugin_version takes the row      *)
(* locks, but what the session already holds is not read again: the build   *)
(* status, the version status, the plugin a build loaded, and the results. *)
AutoPublishes(j) ==
    /\ AutoPublish /\ plugin # "gone" /\ Present(j.v)
    /\ Publishable(j.build, SessionResults(j), FALSE, enabled)

TryAutoPublish(w) ==
    /\ job[w].pc = "publish"
    /\ LET j   == job[w]
           row == [ver[j.v] EXCEPT !.latest = TRUE, !.status = Flush(@, j.status, "active"),
                                   !.unaware = (j.plug = "active")]
       IN IF ~AutoPublishes(j)
          THEN Leave(w, "finishing") /\ UNCHANGED <<plugin, ver>>
          ELSE IF ~RowOK(row) THEN Leave(w, "conflict") /\ UNCHANGED <<plugin, ver>>
          ELSE /\ plugin' = Flush(plugin, j.plug, "active")
               /\ ver' = [NoneLatest EXCEPT ![j.v] = row]
               /\ Leave(w, "finishing")
    /\ UNCHANGED <<res, vt, enabled, queue, issued, requests, faults, lost>>

-----------------------------------------------------------------------------
(* Failures.                                                               *)

Versioned(S) == S \cap Versions

(* Git, S3, Redis, a provider or the database raises.  Between the commit   *)
(* and the push of the follow-up poll the poll is lost.                    *)
Raise(w) ==
    /\ faults < MaxFaults /\ faults' = faults + 1
    /\ job[w].pc \in {"building", "built", "scanning", "polling", "notify", "reload",
                      "publish", "finishing"}
    /\ Leave(w, IF job[w].task.kind = "build" THEN "raised" ELSE "failing")
    /\ lost' = IF job[w].pc = "notify" THEN lost \cup Versioned({job[w].v}) ELSE lost
    /\ UNCHANGED <<plugin, ver, res, vt, enabled, queue, issued, requests>>

(* The except block of build_from_repo: build_status = "failed". *)
MarkBuildFailed(w) ==
    /\ job[w].pc = "raised"
    /\ LET v == job[w].v
       IN ver' = IF Present(v) /\ RowOK([ver[v] EXCEPT !.build = "failed"])
                 THEN [ver EXCEPT ![v].build = "failed"] ELSE ver
    /\ Leave(w, "failing")
    /\ UNCHANGED <<plugin, res, vt, enabled, queue, issued, requests, faults, lost>>

(* Variant: the attempts of a task are not counted. *)
Requeue_Uncounted(w, retryable) ==
    /\ job[w].pc \in {"failing", "conflict"}
    /\ queue' = queue \cup {job[w].task}
    /\ Done(w)
    /\ UNCHANGED <<plugin, ver, res, vt, enabled, issued, requests, faults, lost>>

(* requeue_task: one more attempt, or the dead-letter queue.  Only builds    *)
(* raise the registry's own errors, which are not retryable.               *)
Requeue(w, retryable) ==
    /\ job[w].pc \in {"failing", "conflict"}
    /\ retryable \/ job[w].task.kind = "build"
    /\ LET t == job[w].task
       IN IF ~retryable \/ t.attempts + 1 >= MaxAttempts
          THEN lost' = lost \cup Versioned({t.v}) /\ UNCHANGED queue
          ELSE queue' = queue \cup {[t EXCEPT !.attempts = @ + 1]} /\ UNCHANGED lost
    /\ Done(w)
    /\ UNCHANGED <<plugin, ver, res, vt, enabled, issued, requests, faults>>

(* The worker process dies; the task it popped is nowhere else. *)
Crash(w) ==
    /\ faults < MaxFaults /\ faults' = faults + 1
    /\ job[w] # Idle
    /\ lost' = lost \cup Versioned({job[w].v, job[w].task.v})
    /\ Done(w)
    /\ UNCHANGED <<plugin, ver, res, vt, enabled, queue, issued, requests>>

-----------------------------------------------------------------------------
Outcomes(sel) == {o \in [sel -> Verdicts] : \A p \in sel : o[p] = "pending" => p = VT}

WorkerStep(w) ==
    \/ \E t \in queue :
          \/ StartOnMissing(w, t)
          \/ StartScan(w, t)
          \/ \E v \in Versions : StartBuild(w, t, v)
          \/ \E retried \in BOOLEAN : RefuseBuild(w, t, retried)
          \/ PollNothing(w, t)
          \/ \E verdict \in {"skipped", "error"} : PollWithoutAsking(w, t, verdict)
          \/ StartPoll(w, t)
    \/ \E cached \in BOOLEAN : FinishUpload(w, cached)
    \/ ScanBuilt(w)
    \/ /\ job[w].pc = "scanning"
       /\ \E o \in Outcomes(job[w].sel), last \in Providers : FinishScan(w, o, last)
    \/ \E answer \in {"pending", "passed", "failed", "error"} : FinishPoll(w, answer)
    \/ NotifyPoll(w)
    \/ \E cached \in BOOLEAN : Reload(w, cached)
    \/ Finish(w)
    \/ TryAutoPublish(w)
    \/ MarkBuildFailed(w)
    \/ \E retryable \in BOOLEAN : Requeue(w, retryable)

Next == \/ AdminStep
        \/ \E w \in Workers : WorkerStep(w) \/ Raise(w) \/ Crash(w)

Spec == Init /\ [][Next]_vars

(* The workers' loop never stops taking and handling tasks.  Nobody owes    *)
(* the registry an administrator's request, an exception or a crash.       *)
FairSpec == Spec /\ \A w \in Workers : WF_vars(WorkerStep(w))

-----------------------------------------------------------------------------
(* Properties.                                                             *)

(* The registry's current version is unique, released and built: what       *)
(* ck_versions_latest_active_success and idx_versions_is_latest_per_plugin *)
(* declare, kept by every request and every late commit of a worker.       *)
CurrentVersionSound ==
    /\ \A v \in Versions : RowOK(ver[v])
    /\ \A v, u \in Versions : ver[v].latest /\ ver[u].latest => v = u

(* A task or a worker that is still going to settle the result of p for v. *)
TaskSettles(t, v, p) ==
    /\ t.v = v
    /\ \/ t.kind = "scan" /\ p \in t.sel
       \/ t.kind = "scanall" /\ p \in enabled
       \/ t.kind = "poll" /\ p = VT /\ vt[v].ext

JobSettles(j, v, p) ==
    \/ j.pc = "scanning" /\ j.v = v /\ p \in j.sel
    \/ j.pc = "polling" /\ j.v = v /\ p = VT /\ vt[v].ext
    \/ j.pc = "notify" /\ j.v = v /\ p = VT /\ vt[v].ext
    \/ j.pc \in {"failing", "conflict"} /\ TaskSettles(j.task, v, p)

HasWork(v, p) == \/ \E t \in queue : TaskSettles(t, v, p)
                 \/ \E w \in Workers : job[w] # Idle /\ JobSettles(job[w], v, p)

(* A recorded result that says pending is always somebody's work: a scan   *)
(* or poll task is queued or a worker is on it, however rescans, skips,    *)
(* polls and retries overlap.  Only a fault or a dead task breaks this.    *)
PendingHasWork ==
    \A v \in Versions, p \in Providers :
        Present(v) /\ res[v][p] = "pending" => HasWork(v, p) \/ v \in lost

(* A disabled or deleted plugin has no current version, whatever the        *)
(* workers finish after the administrator withdrew it, but for one that was *)
(* published by a build whose session had loaded the plugin as active: the *)
(* registry then writes no plugin status, see NotHalfPublished.            *)
WithdrawnHasNoCurrent ==
    plugin \in {"disabled", "deleted"} => \A v \in Versions : ver[v].latest => ver[v].unaware

(* A task gets to its end while every enabled provider has passed its version. *)
EndsPassed(w) ==
    LET v == job[w].v
    IN  /\ AutoPublish /\ job[w].pc = "publish" /\ job'[w].pc = "finishing"
        /\ plugin # "gone" /\ Present(v) /\ ver[v].build = "success"
        /\ \A p \in enabled : res[v][p] = "passed"

(* The results the session of w holds are those that are recorded: no task  *)
(* that overlapped it has replaced one since.                              *)
UpToDate(w) == \A p \in enabled : job[w].held[p] \in {"unread", res[job[w].v][p]}

(* When the enabled providers have all passed a version, whatever scans,    *)
(* polls and toggles led there, the task that gets to the end publishes it, *)
(* unless its session holds a result that was replaced meanwhile.           *)
PassedIsPublished ==
    [][\A w \in Workers : EndsPassed(w) /\ UpToDate(w) => ver'[job[w].v].latest]_vars

(* Every pending result is settled, deleted or lost to a fault. *)
PendingIsSettled ==
    \A v \in Versions, p \in Providers :
        res[v][p] = "pending" ~> res[v][p] # "pending" \/ v \in lost

(* Follow-up polls do not go on for ever: when nobody asks for more scans,  *)
(* the queue runs empty and the workers become idle.                       *)
WorkersDrain == <>[](queue = {} /\ \A w \in Workers : job[w] = Idle)

-----------------------------------------------------------------------------
(* Claims of the documentation and of names in the code.                   *)

(* "Avoid violating the latest-version invariant while rescanning published *)
(* versions": no write of a worker is rejected by the constraint while its *)
(* version exists.                                                         *)
RescanRespectsLatest ==
    \A w \in Workers : job[w].pc = "conflict" => ~Present(job[w].v)

(* ck_versions_success_has_artifact: a version that counts as built has its *)
(* archive in the bucket.                                                  *)
SuccessHasArtifact ==
    \A v \in Versions : ver[v].build = "success" => ver[v].stored

(* "Publishing is atomic on the backend.  It should not leave a plugin      *)
(* half-published": the plugin of a version that becomes current is active. *)
NotHalfPublished ==
    [][\A v \in Versions : ~ver[v].latest /\ ver'[v].latest => plugin' = "active"]_vars

(* "only after build succeeds and recorded scan results are non-blocking":  *)
(* nothing becomes current over a recorded failed, errored or pending      *)
(* result of an enabled provider.                                          *)
PublishedOverNoBlockingResult ==
    [][\A v \in Versions : ~ver[v].latest /\ ver'[v].latest =>
          \A p \in enabled : res[v][p] \notin {"failed", "error", "pending"}]_vars

(* "publish automatically after all enabled providers pass". *)
PublishedAfterAllPass ==
    [][\A w \in Workers : EndsPassed(w) => ver'[job[w].v].latest]_vars
=============================================================================
