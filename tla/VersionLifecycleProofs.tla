----------------------- MODULE VersionLifecycleProofs -----------------------
(* Theorems about VersionLifecycle, for any number of versions, workers and *)
(* providers and any values of the bounds.                                 *)
EXTENDS VersionLifecycle, TLAPS

-----------------------------------------------------------------------------
(* What the helpers on rows and jobs return. *)

(* Marking a version as being scanned changes its row to a row. *)
LEMMA MarkType ==
    ASSUME NEW r \in Row, r.build \in BuildStatuses
    PROVE  /\ MarkedScanning(r) \in Row /\ MarkedScanning(r).build \in BuildStatuses
           /\ ScanMark(r) \in Row /\ ScanMark(r).build \in BuildStatuses
  BY DEF MarkedScanning, ScanMark, CanMarkScanning, Row, BuildStatuses

(* The empty row and the deleted row are rows. *)
LEMMA ConstantRows == Absent \in Row /\ DeletedRow \in Row
  BY DEF Absent, DeletedRow, Row, BuildStatuses, VersionStatuses

(* A task about to be handled is a job at any label. *)
LEMMA NewJobType ==
    ASSUME NEW t \in Task, NEW v \in Versions \cup {NoVersion}, NEW sel \in SUBSET Providers,
           NEW label \in {"building", "built", "scanning", "polling", "notify", "reload",
                          "publish", "finishing", "raised", "failing", "conflict"}
    PROVE  NewJob(t, label, v, sel) \in Job
  BY DEF NewJob, Job, Unread, BuildStatuses, VersionStatuses

(* A worker whose label is not "idle" has a job. *)
LEMMA BusyHasJob ==
    ASSUME TypeOK, NEW w \in Workers, job[w].pc # "idle"
    PROVE  job[w] \in Job
  BY DEF TypeOK, Idle

(* Leaving the session keeps the type of the jobs. *)
LEMMA LeaveType ==
    ASSUME TypeOK, NEW w \in Workers, job[w] \in Job,
           NEW label \in {"notify", "finishing", "raised", "failing", "conflict"}, Leave(w, label)
    PROVE  job' \in [Workers -> Job \cup {Idle}]
  <1>0. job[w].task \in Task /\ job[w].v \in Versions \cup {NoVersion}
    BY DEF Job
  <1>1. NewJob(job[w].task, label, job[w].v, {}) \in Job
    BY <1>0, NewJobType
  <1> QED BY <1>1 DEF Leave, TypeOK

(* What a session sees of the results is made of results. *)
LEMMA DisplayedType ==
    ASSUME TypeOK, NEW v \in Versions
    PROVE  Displayed(v) \in [Providers -> Results]
  BY DEF Displayed, Shown, TypeOK, Results, Verdicts

(* Clearing is_latest keeps the rows. *)
LEMMA NoneLatestType ==
    ASSUME TypeOK PROVE NoneLatest \in [Versions -> Row]
  BY DEF NoneLatest, TypeOK, Row

(* A row that is present has a build status of the column's domain. *)
LEMMA PresentRow ==
    ASSUME TypeOK, NEW v, Present(v)
    PROVE  v \in Versions /\ ver[v] \in Row /\ ver[v].build \in BuildStatuses
  BY DEF Present, TypeOK, Row


(* A queue stays a set of tasks when a task is added. *)
LEMMA EnqueueType ==
    ASSUME TypeOK, NEW kind \in {"scan", "scanall", "poll", "build"},
           NEW v \in Versions \cup {NoVersion}, NEW sel \in SUBSET Providers,
           Enqueue(kind, v, sel)
    PROVE  queue' \in SUBSET Task /\ issued' \in Nat
  BY DEF Enqueue, TypeOK, Task

-----------------------------------------------------------------------------
(* Type correctness, one lemma for each kind of step. *)

(* The requests of administrators keep the types. *)
LEMMA AdminType == TypeOK /\ AdminStep => TypeOK'
  <1> SUFFICES ASSUME TypeOK, AdminStep PROVE TypeOK'
    OBVIOUS
  <1>1. ASSUME NEW s \in PluginInputs, SetPluginStatus(s) PROVE TypeOK'
    <2>1. s \in PluginStatuses
      BY LifecycleAssumption
    <2>2. ver' \in [Versions -> Row]
      BY <1>1, NoneLatestType DEF SetPluginStatus, TypeOK
    <2> QED BY <1>1, <2>1, <2>2 DEF SetPluginStatus, Admin, TypeOK
  <1>2. ASSUME NEW v \in Versions, NEW s \in StatusInputs, SetVersionStatus(v, s) PROVE TypeOK'
    <2>1. s \in VersionStatuses /\ ver[v] \in Row
      BY LifecycleAssumption DEF TypeOK
    <2>2. ver' \in [Versions -> Row]
      BY <1>2, <2>1 DEF SetVersionStatus, TypeOK, Row, BuildStatuses
    <2> QED BY <1>2, <2>2 DEF SetVersionStatus, Admin, TypeOK
  <1>3. ASSUME NEW v \in Versions, SetLatest(v) PROVE TypeOK'
    <2>1. ver' \in [Versions -> Row]
      BY <1>3, NoneLatestType DEF SetLatest, Row, BuildStatuses
    <2> QED BY <1>3, <2>1 DEF SetLatest, Admin, TypeOK
  <1>4. ASSUME NEW v \in Versions, Publish(v) PROVE TypeOK'
    <2> DEFINE r == NoneLatest[v]
    <2>1. r \in Row
      BY NoneLatestType
    <2>2. [r EXCEPT !.latest = TRUE, !.build = "success", !.status = "active"] \in Row
      BY <2>1 DEF Row, BuildStatuses, VersionStatuses
    <2>3. ver' \in [Versions -> Row]
      BY <1>4, <2>2, NoneLatestType DEF Publish
    <2> QED BY <1>4, <2>3 DEF Publish, Admin, TypeOK, PluginStatuses
  <1>5. ASSUME NEW v \in Versions, NEW sel, SkipScan(v, sel) PROVE TypeOK'
    <2>1. ver[v] \in Row
      BY DEF TypeOK
    <2>2. [ver[v] EXCEPT !.scan = TRUE, !.build = "success"] \in Row
      BY <2>1 DEF Row, BuildStatuses
    <2>3. ver' \in [Versions -> Row]
      BY <1>5, <2>2 DEF SkipScan, TypeOK
    <2>4. res' \in [Versions -> [Providers -> Results]]
      BY <1>5 DEF SkipScan, TypeOK, Results, Verdicts
    <2>5. vt' \in [Versions -> [ext : BOOLEAN, tries : Nat]]
      BY <1>5 DEF SkipScan, TypeOK, NoAnalysis
    <2> QED BY <1>5, <2>3, <2>4, <2>5 DEF SkipScan, TypeOK
  <1>6. ASSUME NEW v \in Versions, NEW sel \in SUBSET Providers, NEW reached \in BOOLEAN,
               TriggerScan(v, sel, reached)
        PROVE  TypeOK'
    <2>1. ver' \in [Versions -> Row]
      BY <1>6, MarkType, PresentRow DEF TriggerScan, TypeOK
    <2>2. res' \in [Versions -> [Providers -> Results]]
      BY <1>6 DEF TriggerScan, TypeOK, Results, Verdicts
    <2>3. vt' \in [Versions -> [ext : BOOLEAN, tries : Nat]]
      BY <1>6 DEF TriggerScan, TypeOK, NoAnalysis
    <2>4. queue' \in SUBSET Task /\ issued' \in Nat /\ faults' \in Nat /\ lost' \in SUBSET Versions
      BY <1>6, EnqueueType DEF TriggerScan, TypeOK
    <2> QED BY <1>6, <2>1, <2>2, <2>3, <2>4 DEF TriggerScan, TypeOK
  <1>7. ASSUME NEW v \in Versions, UploadVersion(v) PROVE TypeOK'
    <2>1. ver' \in [Versions -> Row]
      <3>1. ver[v] \in Row
        BY DEF TypeOK
      <3>2. [ver[v] EXCEPT !.build = "success", !.stored = TRUE] \in Row
        BY <3>1 DEF Row, BuildStatuses
      <3> QED BY <1>7, <3>2 DEF UploadVersion, TypeOK
    <2>2. queue' \in SUBSET Task /\ issued' \in Nat
      BY <1>7, EnqueueType DEF UploadVersion
    <2> QED BY <1>7, <2>1, <2>2 DEF UploadVersion, TypeOK
  <1>8. ASSUME RequestBuild PROVE TypeOK'
    <2>1. queue' \in SUBSET Task /\ issued' \in Nat
      BY <1>8, EnqueueType DEF RequestBuild
    <2> QED BY <1>8, <2>1 DEF RequestBuild, TypeOK
  <1>9. ASSUME NEW p \in Toggles, ToggleProvider(p) PROVE TypeOK'
    BY <1>9, LifecycleAssumption DEF ToggleProvider, TypeOK
  <1>10. ASSUME NEW v \in Versions, DeleteVersion(v) PROVE TypeOK'
    BY <1>10, ConstantRows DEF DeleteVersion, TypeOK, NoResults, NoAnalysis, Results
  <1>11. ASSUME DeletePlugin PROVE TypeOK'
    BY <1>11, ConstantRows DEF DeletePlugin, TypeOK, NoResults, NoAnalysis, Results
  <1>12. \A sel \in {enabled} \cup {{p} : p \in enabled} : sel \in SUBSET Providers
    BY DEF TypeOK
  <1> QED BY <1>1, <1>2, <1>3, <1>4, <1>5, <1>6, <1>7, <1>8, <1>9, <1>10, <1>11, <1>12 DEF AdminStep

(* Taking a task off the queue and starting on it keeps the types. *)
LEMMA TakeType ==
    ASSUME TypeOK, NEW w \in Workers, NEW t \in queue,
           \/ StartOnMissing(w, t)
           \/ StartScan(w, t)
           \/ \E v \in Versions : StartBuild(w, t, v)
           \/ \E retried \in BOOLEAN : RefuseBuild(w, t, retried)
           \/ PollNothing(w, t)
           \/ \E verdict \in {"skipped", "error"} : PollWithoutAsking(w, t, verdict)
           \/ StartPoll(w, t)
    PROVE  TypeOK'
  <1>0. t \in Task /\ t.v \in Versions \cup {NoVersion} /\ t.sel \in SUBSET Providers
    BY DEF TypeOK, Task
  <1>1. CASE StartOnMissing(w, t)
    <2>1. NewJob(t, "failing", t.v, {}) \in Job
      BY <1>0, NewJobType
    <2> QED BY <1>1, <2>1 DEF StartOnMissing, Takes, TypeOK
  <1>2. CASE StartScan(w, t)
    <2> DEFINE sel == IF t.kind = "scanall" THEN enabled ELSE t.sel
    <2>1. Present(t.v)
      BY <1>2 DEF StartScan
    <2>2. t.v \in Versions /\ ver[t.v] \in Row /\ ver[t.v].build \in BuildStatuses
      BY <2>1, PresentRow
    <2>3. sel \in SUBSET Providers
      BY <1>0 DEF TypeOK
    <2>4. NewJob(t, "scanning", t.v, sel) \in Job
      BY <1>0, <2>3, NewJobType
    <2>5. ScanMark(ver[t.v]) \in Row /\ ScanMark(ver[t.v]).build \in BuildStatuses
      BY <2>2, MarkType
    <2>6. ver[t.v].status \in VersionStatuses
      BY <2>2 DEF Row
    <2>7. ScanSession(ver[t.v], NewJob(t, "scanning", t.v, sel)) \in Job
      BY <2>4, <2>5, <2>6 DEF ScanSession, Job
    <2> QED BY <1>2, <2>5, <2>7 DEF StartScan, Takes, TypeOK
  <1>3. ASSUME NEW v \in Versions, StartBuild(w, t, v) PROVE TypeOK'
    <2>1. NewJob(t, "building", v, {}) \in Job
      BY <1>0, NewJobType
    <2>2. plugin \in PluginStatuses
      BY <1>3 DEF StartBuild, TypeOK
    <2>3. [NewJob(t, "building", v, {}) EXCEPT !.build = "building", !.plug = plugin] \in Job
      BY <2>1, <2>2 DEF Job, BuildStatuses
    <2>4. ver' \in [Versions -> Row]
      BY <1>3 DEF StartBuild, TypeOK, Row, BuildStatuses
    <2> QED BY <1>3, <2>3, <2>4 DEF StartBuild, Takes, TypeOK
  <1>4. ASSUME NEW retried \in BOOLEAN, RefuseBuild(w, t, retried) PROVE TypeOK'
    <2>1. NewJob(t, "failing", NoVersion, {}) \in Job
      BY <1>0, NewJobType
    <2> QED BY <1>4, <2>1 DEF RefuseBuild, Takes, TypeOK
  <1>5. CASE PollNothing(w, t)
    BY <1>5 DEF PollNothing, Takes, TypeOK
  <1>6. ASSUME Present(t.v) PROVE PollSession(t) \in Job
    <2>1. NewJob(t, "polling", t.v, {VT}) \in Job
      BY <1>0, NewJobType, ProvidersAssumption
    <2>2. ver[t.v].build \in BuildStatuses /\ ver[t.v].status \in VersionStatuses
      BY <1>6, PresentRow DEF Row
    <2>3. vt[t.v].tries \in Nat
      BY <1>6, PresentRow DEF TypeOK
    <2> QED BY <2>1, <2>2, <2>3 DEF PollSession, Job
  <1>7. ASSUME NEW verdict \in {"skipped", "error"}, PollWithoutAsking(w, t, verdict) PROVE TypeOK'
    <2>1. Present(t.v)
      BY <1>7 DEF PollWithoutAsking
    <2>2. t.v \in Versions /\ ver[t.v] \in Row
      BY <2>1, PresentRow
    <2>3. PollSession(t) \in Job
      BY <1>6, <2>1
    <2>4. VT \in Providers
      BY ProvidersAssumption
    <2>5. [PollSession(t) EXCEPT !.pc = "reload", !.build = "success", !.held[VT] = verdict] \in Job
      BY <2>3, <2>4 DEF Job, BuildStatuses, Results, Verdicts
    <2>6. [ver[t.v] EXCEPT !.scan = TRUE, !.build = "success"] \in Row
      BY <2>2 DEF Row, BuildStatuses
    <2>7. ver' \in [Versions -> Row]
      BY <1>7, <2>6 DEF PollWithoutAsking, TypeOK
    <2>8. res' \in [Versions -> [Providers -> Results]]
      BY <1>7 DEF PollWithoutAsking, Conclude, TypeOK, Results, Verdicts
    <2>9. vt' \in [Versions -> [ext : BOOLEAN, tries : Nat]]
      BY <1>7 DEF PollWithoutAsking, Conclude, TypeOK, NoAnalysis
    <2> QED BY <1>7, <2>5, <2>7, <2>8, <2>9 DEF PollWithoutAsking, Takes, TypeOK
  <1>8. CASE StartPoll(w, t)
    BY <1>6, <1>8 DEF StartPoll, Takes, TypeOK
  <1> QED BY <1>1, <1>2, <1>3, <1>4, <1>5, <1>7, <1>8

(* A rejected write changes nothing but the job. *)
LEMMA ConflictType ==
    ASSUME TypeOK, NEW w \in Workers, job[w] \in Job, Conflict(w)
    PROVE  /\ job' \in [Workers -> Job \cup {Idle}]
           /\ UNCHANGED <<plugin, ver, res, vt>>
  BY LeaveType DEF Conflict

(* The scan of a build goes on with the session or is left by it. *)
LEMMA ScanBuiltJob ==
    ASSUME TypeOK, NEW w \in Workers, ScanBuilt(w)
    PROVE  \/ Leave(w, "conflict")
           \/ \E j \in Job : /\ job' = [job EXCEPT ![w] = j]
                            /\ j.pc = "scanning" /\ j.task = job[w].task
  <1> DEFINE next == [job[w] EXCEPT !.pc = "scanning", !.sel = enabled, !.latest = FALSE]
             marked == [next EXCEPT !.build = "scanning"]
  <1>1. job[w] \in Job /\ enabled \in SUBSET Providers
    BY BusyHasJob DEF ScanBuilt, TypeOK
  <1>2. next \in Job /\ next.pc = "scanning" /\ next.task = job[w].task
    BY <1>1 DEF Job
  <1>3. marked \in Job /\ marked.pc = "scanning" /\ marked.task = job[w].task
    <2> HIDE DEF next
    <2> QED BY <1>2 DEF Job, BuildStatuses
  <1>4. Leave(w, "conflict") \/ job' = [job EXCEPT ![w] = next] \/ job' = [job EXCEPT ![w] = marked]
    BY DEF ScanBuilt, Conflict
  <1> HIDE DEF next, marked
  <1> QED BY <1>2, <1>3, <1>4

(* The steps of a build up to its scan keep the types. *)
LEMMA BuildType ==
    ASSUME TypeOK, NEW w \in Workers,
           (\E cached \in BOOLEAN : FinishUpload(w, cached)) \/ ScanBuilt(w)
    PROVE  TypeOK'
  <1>1. job[w] \in Job
    BY BusyHasJob DEF FinishUpload, ScanBuilt
  <1>2. ASSUME NEW cached \in BOOLEAN, FinishUpload(w, cached), Present(job[w].v) PROVE TypeOK'
    <2> DEFINE v == job[w].v
               held == IF plugin = "active" /\ ~cached THEN Displayed(v) ELSE job[w].held
    <2>1. v \in Versions /\ ver[v] \in Row
      BY <1>2, PresentRow
    <2>2. [ver[v] EXCEPT !.build = "success", !.stored = TRUE] \in Row
      BY <2>1 DEF Row, BuildStatuses
    <2>3. ver' \in [Versions -> Row]
      BY <1>2, <2>1, <2>2 DEF FinishUpload, TypeOK
    <2>4. held \in [Providers -> Results \cup {"unread"}]
      BY <1>1, <2>1, DisplayedType DEF Job
    <2>5. [job[w] EXCEPT !.pc = "built", !.build = "success", !.status = ver[v].status,
                         !.latest = ver[v].latest, !.held = held] \in Job
      <3>1. ver[v].status \in VersionStatuses /\ ver[v].latest \in BOOLEAN
        BY <2>1 DEF Row
      <3> QED BY <1>1, <2>4, <3>1 DEF Job, BuildStatuses
    <2>6. job' = [job EXCEPT ![w] = [job[w] EXCEPT !.pc = "built", !.build = "success",
                                       !.status = ver[v].status, !.latest = ver[v].latest,
                                       !.held = held]]
      BY <1>2 DEF FinishUpload
    <2> QED BY <1>2, <2>3, <2>5, <2>6 DEF FinishUpload, TypeOK
  <1>3. CASE ScanBuilt(w)
    <2> DEFINE j    == job[w]
               row  == [ver[j.v] EXCEPT !.scan = TRUE, !.build = "scanning"]
               next == [j EXCEPT !.pc = "scanning", !.sel = enabled, !.latest = FALSE]
    <2>1. UNCHANGED <<enabled, queue, issued, requests, faults, lost>>
      BY <1>3 DEF ScanBuilt
    <2>2. next \in Job /\ [next EXCEPT !.build = "scanning"] \in Job
      <3>1. enabled \in SUBSET Providers
        BY DEF TypeOK
      <3>2. next \in Job
        BY <1>1, <3>1 DEF Job
      <3> HIDE DEF next
      <3> QED BY <3>2 DEF Job, BuildStatuses
    <2>3. CASE ~CanMarkScanning(j)
      BY <1>3, <2>1, <2>2, <2>3 DEF ScanBuilt, TypeOK
    <2>4. CASE CanMarkScanning(j) /\ (~Present(j.v) \/ ~RowOK(row))
      <3>1. Conflict(w)
        BY <1>3, <2>4 DEF ScanBuilt
      <3> QED BY <1>1, <2>1, <3>1, ConflictType DEF TypeOK
    <2>5. CASE CanMarkScanning(j) /\ Present(j.v) /\ RowOK(row)
      <3>1. j.v \in Versions /\ ver[j.v] \in Row
        BY <2>5, PresentRow
      <3>2. row \in Row
        BY <3>1 DEF Row, BuildStatuses
      <3>3. /\ ver' = [ver EXCEPT ![j.v] = row]
            /\ job' = [job EXCEPT ![w] = [next EXCEPT !.build = "scanning"]]
            /\ UNCHANGED <<plugin, res, vt>>
        BY <1>3, <2>5 DEF ScanBuilt
      <3> QED BY <2>1, <2>2, <3>2, <3>3 DEF TypeOK
    <2> QED BY <2>3, <2>4, <2>5
  <1>4. ASSUME NEW cached \in BOOLEAN, FinishUpload(w, cached), ~Present(job[w].v) PROVE TypeOK'
    <2>1. Conflict(w)
      BY <1>4 DEF FinishUpload
    <2>2. UNCHANGED <<enabled, queue, issued, requests, faults, lost>>
      BY <1>4 DEF FinishUpload
    <2> QED BY <1>1, <2>1, <2>2, ConflictType DEF TypeOK
  <1> QED BY <1>2, <1>3, <1>4

(* The commit of a scan keeps the types. *)
LEMMA FinishScanType ==
    ASSUME TypeOK, NEW w \in Workers, NEW o \in Outcomes(job[w].sel), NEW last \in Providers,
           FinishScan(w, o, last)
    PROVE  TypeOK'
  <1> DEFINE j     == job[w]
             build == IF Settled(o) THEN "success" ELSE "scanning"
             row   == [ver[j.v] EXCEPT !.scan = TRUE, !.build = Flush(@, j.build, build)]
  <1>1. j \in Job /\ j.sel \in SUBSET Providers /\ o \in [j.sel -> Verdicts]
    <2>1. j \in Job
      BY BusyHasJob DEF FinishScan
    <2> QED BY <2>1 DEF Job, Outcomes
  <1>2. CASE ~Present(j.v) \/ ~RowOK(row)
    <2>1. Conflict(w) /\ UNCHANGED <<enabled, queue, issued, requests, faults, lost>>
      BY <1>2 DEF FinishScan
    <2> QED BY <1>1, <2>1, ConflictType DEF TypeOK
  <1>3. CASE Present(j.v) /\ RowOK(row)
    <2>1. j.v \in Versions /\ ver[j.v] \in Row /\ ver[j.v].build \in BuildStatuses
      BY <1>3, PresentRow
    <2>2. Flush(ver[j.v].build, j.build, build) \in BuildStatuses
      BY <2>1 DEF Flush, BuildStatuses
    <2>3. row \in Row
      BY <2>1, <2>2 DEF Row
    <2>4. ver' = [ver EXCEPT ![j.v] = row]
      BY <1>3 DEF FinishScan
    <2>5. res' \in [Versions -> [Providers -> Results]]
      <3>1. res' = [res EXCEPT ![j.v] =
                      [p \in Providers |-> IF p \in j.sel THEN o[p] ELSE res[j.v][p]]]
        BY <1>3 DEF FinishScan
      <3>2. [p \in Providers |-> IF p \in j.sel THEN o[p] ELSE res[j.v][p]] \in [Providers -> Results]
        BY <1>1, <2>1 DEF TypeOK, Results
      <3> QED BY <2>1, <3>1, <3>2 DEF TypeOK
    <2>6. vt' \in [Versions -> [ext : BOOLEAN, tries : Nat]]
      <3> DEFINE found == [ext |-> o[VT] = "pending", tries |-> 0]
      <3>1. found \in [ext : BOOLEAN, tries : Nat]
        OBVIOUS
      <3>2. vt' = IF VT \in j.sel THEN [vt EXCEPT ![j.v] = found] ELSE vt
        BY <1>3 DEF FinishScan
      <3> HIDE DEF found
      <3> QED BY <3>1, <3>2 DEF TypeOK
    <2>7. job' \in [Workers -> Job \cup {Idle}]
      <3>1. CASE Settled(o)
        <4> DEFINE held == Held(j, {last} \cap j.sel, o)
        <4>1. held \in [Providers -> Results \cup {"unread"}]
          BY <1>1 DEF Held, Job, Results
        <4>2. [j EXCEPT !.pc = "reload", !.build = build, !.held = held] \in Job
          BY <1>1, <4>1 DEF Job, BuildStatuses
        <4>3. job' = [job EXCEPT ![w] = [j EXCEPT !.pc = "reload", !.build = build, !.held = held]]
          BY <1>3, <3>1 DEF FinishScan
        <4> QED BY <4>2, <4>3 DEF TypeOK
      <3>2. CASE ~Settled(o)
        BY <1>1, <1>3, <3>2, LeaveType DEF FinishScan
      <3> QED BY <3>1, <3>2
    <2>8. UNCHANGED <<plugin, enabled, queue, issued, requests, faults, lost>>
      BY <1>3 DEF FinishScan
    <2> QED BY <2>1, <2>3, <2>4, <2>5, <2>6, <2>7, <2>8 DEF TypeOK
  <1> QED BY <1>2, <1>3

(* The commit of a poll keeps the types. *)
LEMMA FinishPollType ==
    ASSUME TypeOK, NEW w \in Workers, NEW answer \in {"pending", "passed", "failed", "error"},
           FinishPoll(w, answer)
    PROVE  TypeOK'
  <1> DEFINE j       == job[w]
             verdict == IF answer = "pending" /\ j.tries + 1 >= MaxPolls THEN "error" ELSE answer
             build   == IF verdict = "pending" THEN "scanning" ELSE "success"
             row     == [ver[j.v] EXCEPT !.build = Flush(@, j.build, build)]
  <1>1. j \in Job /\ j.tries \in Nat /\ j.held \in [Providers -> Results \cup {"unread"}]
    <2>1. j \in Job
      BY BusyHasJob DEF FinishPoll
    <2> QED BY <2>1 DEF Job
  <1>2. CASE ~Present(j.v) \/ ~RowOK(row)
    <2>1. Conflict(w) /\ UNCHANGED <<enabled, queue, issued, requests, faults, lost>>
      BY <1>2 DEF FinishPoll
    <2> QED BY <1>1, <2>1, ConflictType DEF TypeOK
  <1>3. CASE Present(j.v) /\ RowOK(row)
    <2>1. j.v \in Versions /\ ver[j.v] \in Row /\ ver[j.v].build \in BuildStatuses
      BY <1>3, PresentRow
    <2>2. Flush(ver[j.v].build, j.build, build) \in BuildStatuses
      BY <2>1 DEF Flush, BuildStatuses
    <2>3. row \in Row
      BY <2>1, <2>2 DEF Row
    <2>4. ver' = [ver EXCEPT ![j.v] = row]
      BY <1>3 DEF FinishPoll
    <2>5. UNCHANGED <<plugin, enabled, queue, issued, requests, faults, lost>>
      BY <1>3 DEF FinishPoll
    <2>6. CASE verdict = "pending"
      <3>1. job' \in [Workers -> Job \cup {Idle}] /\ res' = res
        BY <1>1, <1>3, <2>6, LeaveType DEF FinishPoll
      <3>2. vt' \in [Versions -> [ext : BOOLEAN, tries : Nat]]
        BY <1>1, <1>3, <2>1, <2>6 DEF FinishPoll, TypeOK
      <3> QED BY <2>1, <2>3, <2>4, <2>5, <3>1, <3>2 DEF TypeOK
    <2>7. CASE verdict # "pending"
      <3>1. verdict \in Results /\ VT \in Providers
        BY ProvidersAssumption DEF Results, Verdicts
      <3>2. Conclude(j.v, verdict)
        BY <1>3, <2>7 DEF FinishPoll
      <3>3. res' \in [Versions -> [Providers -> Results]]
        BY <2>1, <3>1, <3>2 DEF Conclude, TypeOK
      <3>4. vt' \in [Versions -> [ext : BOOLEAN, tries : Nat]]
        BY <3>2 DEF Conclude, NoAnalysis, TypeOK
      <3>5. [j EXCEPT !.pc = "reload", !.build = build, !.held[VT] = verdict] \in Job
        BY <1>1, <3>1 DEF Job, BuildStatuses
      <3>6. job' = [job EXCEPT ![w] = [j EXCEPT !.pc = "reload", !.build = build,
                                                !.held[VT] = verdict]]
        BY <1>3, <2>7 DEF FinishPoll
      <3> QED BY <2>1, <2>3, <2>4, <2>5, <3>3, <3>4, <3>5, <3>6 DEF TypeOK
    <2> QED BY <2>6, <2>7
  <1> QED BY <1>2, <1>3

(* The steps after the commit, auto publishing among them, keep the types. *)
LEMMA AfterCommitType ==
    ASSUME TypeOK, NEW w \in Workers,
           \/ NotifyPoll(w)
           \/ \E cached \in BOOLEAN : Reload(w, cached)
           \/ Finish(w)
           \/ TryAutoPublish(w)
    PROVE  TypeOK'
  <1> DEFINE j == job[w]
  <1>1. j \in Job /\ j.held \in [Providers -> Results \cup {"unread"}]
    <2>1. j \in Job
      BY BusyHasJob DEF NotifyPoll, Reload, Finish, TryAutoPublish
    <2> QED BY <2>1 DEF Job
  <1>2. CASE NotifyPoll(w)
    <2>1. j.v \in Versions \cup {NoVersion}
      BY <1>1 DEF Job
    <2>2. queue' \in SUBSET Task /\ issued' \in Nat
      BY <1>2, <2>1, EnqueueType DEF NotifyPoll
    <2>3. job' \in [Workers -> Job \cup {Idle}]
      BY <1>1, <1>2, LeaveType DEF NotifyPoll
    <2> QED BY <1>2, <2>2, <2>3 DEF NotifyPoll, TypeOK
  <1>3. ASSUME NEW cached \in BOOLEAN, Reload(w, cached) PROVE TypeOK'
    <2> DEFINE held == IF plugin = "active" /\ Present(j.v) /\ ~cached
                       THEN SessionResults(j) ELSE j.held
    <2>1. held \in [Providers -> Results \cup {"unread"}]
      <3>1. CASE Present(j.v)
        <4>1. Displayed(j.v) \in [Providers -> Results]
          BY <3>1, PresentRow, DisplayedType
        <4> QED BY <1>1, <4>1 DEF SessionResults
      <3> QED BY <1>1, <3>1
    <2>2. [j EXCEPT !.pc = "publish", !.held = held] \in Job
      BY <1>1, <2>1 DEF Job
    <2>3. job' = [job EXCEPT ![w] = [j EXCEPT !.pc = "publish", !.held = held]]
      BY <1>3 DEF Reload
    <2> QED BY <1>3, <2>2, <2>3 DEF Reload, TypeOK
  <1>4. CASE Finish(w)
    BY <1>4 DEF Finish, Done, TypeOK
  <1>5. CASE TryAutoPublish(w)
    <2> DEFINE row == [ver[j.v] EXCEPT !.latest = TRUE, !.status = Flush(@, j.status, "active"),
                                      !.unaware = (j.plug = "active")]
    <2>1. job' \in [Workers -> Job \cup {Idle}]
      BY <1>1, <1>5, LeaveType DEF TryAutoPublish
    <2>2. CASE AutoPublishes(j) /\ RowOK(row)
      <3>1. j.v \in Versions /\ ver[j.v] \in Row
        BY <2>2, PresentRow DEF AutoPublishes
      <3>2. Flush(ver[j.v].status, j.status, "active") \in VersionStatuses
        BY <3>1 DEF Flush, Row, VersionStatuses
      <3>3. row \in Row
        BY <3>1, <3>2 DEF Row
      <3>4. ver' = [NoneLatest EXCEPT ![j.v] = row]
        BY <1>5, <2>2 DEF TryAutoPublish
      <3>5. ver' \in [Versions -> Row]
        BY <3>3, <3>4, NoneLatestType
      <3>6. plugin' \in PluginStatuses \cup {"gone"}
        BY <1>5, <2>2 DEF TryAutoPublish, Flush, TypeOK, PluginStatuses
      <3> QED BY <1>5, <2>1, <3>5, <3>6 DEF TryAutoPublish, TypeOK
    <2>3. CASE ~(AutoPublishes(j) /\ RowOK(row))
      BY <1>5, <2>1, <2>3 DEF TryAutoPublish, TypeOK
    <2> QED BY <2>2, <2>3
  <1> QED BY <1>2, <1>3, <1>4, <1>5

(* Exceptions, retries and crashes keep the types. *)
LEMMA FailureType ==
    ASSUME TypeOK, NEW w \in Workers,
           \/ MarkBuildFailed(w)
           \/ \E retryable \in BOOLEAN : Requeue(w, retryable)
           \/ Raise(w)
           \/ Crash(w)
    PROVE  TypeOK'
  <1> DEFINE j == job[w]
  <1>1. j \in Job
    <2>1. CASE Crash(w)
      BY <2>1 DEF Crash, TypeOK
    <2>2. CASE ~Crash(w)
      BY <2>2, BusyHasJob DEF MarkBuildFailed, Requeue, Raise
    <2> QED BY <2>1, <2>2
  <1>2. CASE MarkBuildFailed(w)
    <2>1. job' \in [Workers -> Job \cup {Idle}]
      BY <1>1, <1>2, LeaveType DEF MarkBuildFailed
    <2>2. ver' \in [Versions -> Row]
      <3>1. ASSUME Present(j.v) PROVE [ver[j.v] EXCEPT !.build = "failed"] \in Row
        BY <3>1, PresentRow DEF Row, BuildStatuses
      <3> QED BY <1>2, <3>1 DEF MarkBuildFailed, TypeOK
    <2> QED BY <1>2, <2>1, <2>2 DEF MarkBuildFailed, TypeOK
  <1>3. ASSUME NEW retryable \in BOOLEAN, Requeue(w, retryable) PROVE TypeOK'
    <2>1. j.task \in Task /\ [j.task EXCEPT !.attempts = @ + 1] \in Task
      BY <1>1 DEF Job, Task
    <2>2. queue' \in SUBSET Task /\ lost' \in SUBSET Versions
      BY <1>3, <2>1 DEF Requeue, Versioned, TypeOK
    <2> QED BY <1>3, <2>2 DEF Requeue, Done, TypeOK
  <1>4. CASE Raise(w)
    <2>1. job' \in [Workers -> Job \cup {Idle}]
      BY <1>1, <1>4, LeaveType DEF Raise
    <2>2. lost' \in SUBSET Versions /\ faults' \in Nat
      BY <1>4 DEF Raise, Versioned, TypeOK
    <2> QED BY <1>4, <2>1, <2>2 DEF Raise, TypeOK
  <1>5. CASE Crash(w)
    BY <1>5 DEF Crash, Done, Versioned, TypeOK
  <1> QED BY <1>2, <1>3, <1>4, <1>5

(* Every step of the system keeps the types. *)
LEMMA TypeInductive == TypeOK /\ [Next]_vars => TypeOK'
  <1> SUFFICES ASSUME TypeOK, [Next]_vars PROVE TypeOK'
    OBVIOUS
  <1>1. CASE AdminStep
    BY <1>1, AdminType
  <1>2. ASSUME NEW w \in Workers, WorkerStep(w) PROVE TypeOK'
    BY <1>2, TakeType, BuildType, FinishScanType, FinishPollType, AfterCommitType, FailureType
       DEF WorkerStep
  <1>3. ASSUME NEW w \in Workers, Raise(w) \/ Crash(w) PROVE TypeOK'
    BY <1>3, FailureType
  <1>4. CASE UNCHANGED vars
    BY <1>4 DEF vars, TypeOK
  <1> QED BY <1>1, <1>2, <1>3, <1>4 DEF Next

(* Type correctness: every column holds a value of its domain, every queued *)
(* task is well formed, and every worker is idle or in a job that names a   *)
(* version, a set of providers and loaded attributes of the right kind.    *)
THEOREM TypeCorrect == Spec => []TypeOK
  <1>1. Init => TypeOK
    BY ConstantRows DEF Init, TypeOK, PluginStatuses, NoResults, Results, NoAnalysis
  <1> QED BY <1>1, TypeInductive, PTL DEF Spec

-----------------------------------------------------------------------------
(* The current version.  With the types, CurrentVersionSound is inductive:  *)
(* every step either changes one row without making it current, or clears  *)
(* is_latest on every row and makes one row current.                       *)

(* A step that changes one row to a sound one, and does not make it current. *)
LEMMA OneRowSound ==
    ASSUME TypeOK, CurrentVersionSound, NEW v \in Versions, NEW r, RowOK(r),
           r.latest => ver[v].latest, ver' = [ver EXCEPT ![v] = r]
    PROVE  CurrentVersionSound'
  BY DEF TypeOK, CurrentVersionSound, RowOK

(* A step that makes one sound row the only current one. *)
LEMMA NewCurrentSound ==
    ASSUME TypeOK, NEW v \in Versions, NEW r, RowOK(r), ver' = [NoneLatest EXCEPT ![v] = r]
    PROVE  CurrentVersionSound'
  <1>1. \A u \in Versions : u # v => ~ver'[u].latest
    BY DEF NoneLatest, TypeOK, Row
  <1>2. ver'[v] = r
    BY DEF NoneLatest
  <1> QED BY <1>1, <1>2 DEF CurrentVersionSound, RowOK

(* A step that makes no row current at all. *)
LEMMA NoneCurrentSound ==
    ASSUME \A v \in Versions : ~ver'[v].latest
    PROVE  CurrentVersionSound'
  BY DEF CurrentVersionSound, RowOK

(* Marking a sound row as being scanned leaves it sound. *)
LEMMA MarkSound ==
    ASSUME NEW r \in Row, RowOK(r)
    PROVE  /\ RowOK(MarkedScanning(r)) /\ MarkedScanning(r).latest = r.latest
           /\ RowOK(ScanMark(r)) /\ ScanMark(r).latest = r.latest
  <1>1. ASSUME NEW b, NEW c PROVE [r EXCEPT !.scan = c, !.build = b].latest = r.latest
    BY DEF Row
  <1>2. CASE CanMarkScanning(r)
    <2>1. ~r.latest
      BY <1>2 DEF CanMarkScanning, RowOK
    <2> QED BY <1>1, <2>1 DEF MarkedScanning, ScanMark, RowOK
  <1>3. CASE ~CanMarkScanning(r)
    BY <1>3 DEF MarkedScanning, ScanMark, RowOK, Row
  <1> QED BY <1>2, <1>3

(* The requests of administrators keep the current version sound. *)
LEMMA AdminSound == TypeOK /\ CurrentVersionSound /\ AdminStep => CurrentVersionSound'
  <1> SUFFICES ASSUME TypeOK, CurrentVersionSound, AdminStep PROVE CurrentVersionSound'
    OBVIOUS
  <1>0. \A v \in Versions : RowOK(ver[v]) /\ ver[v] \in Row
    BY DEF CurrentVersionSound, TypeOK
  <1>1. ASSUME NEW s \in PluginInputs, SetPluginStatus(s) PROVE CurrentVersionSound'
    <2>1. CASE s \in {"disabled", "deleted"}
      <3>1. \A v \in Versions : ~ver'[v].latest
        BY <1>1, <2>1, <1>0 DEF SetPluginStatus, NoneLatest, Row
      <3> QED BY <3>1, NoneCurrentSound
    <2>2. CASE s \notin {"disabled", "deleted"}
      BY <1>1, <2>2 DEF SetPluginStatus, CurrentVersionSound
    <2> QED BY <2>1, <2>2
  <1>2. ASSUME NEW v \in Versions, NEW s \in StatusInputs, SetVersionStatus(v, s)
        PROVE  CurrentVersionSound'
    <2> DEFINE b == IF s = "active" THEN "success" ELSE ver[v].build
               l == IF s = "active" THEN ver[v].latest ELSE FALSE
               r == [ver[v] EXCEPT !.status = s, !.build = b, !.latest = l]
    <2>1. r.status = s /\ r.build = b /\ r.latest = l
      BY <1>0 DEF Row
    <2>2. RowOK(r) /\ (r.latest => ver[v].latest)
      BY <2>1 DEF RowOK
    <2>3. ver' = [ver EXCEPT ![v] = r]
      BY <1>2 DEF SetVersionStatus, TypeOK
    <2> QED BY <2>2, <2>3, OneRowSound
  <1>3. ASSUME NEW v \in Versions, SetLatest(v) PROVE CurrentVersionSound'
    <2> DEFINE r == [NoneLatest[v] EXCEPT !.latest = TRUE, !.build = "success"]
    <2>1. NoneLatest[v] \in Row /\ NoneLatest[v].status = "active"
      BY <1>0, <1>3, NoneLatestType DEF SetLatest, NoneLatest, Row
    <2>2. RowOK(r)
      BY <2>1 DEF RowOK, Row
    <2>3. ver' = [NoneLatest EXCEPT ![v] = r]
      BY <1>3, NoneLatestType DEF SetLatest
    <2> QED BY <2>2, <2>3, NewCurrentSound
  <1>4. ASSUME NEW v \in Versions, Publish(v) PROVE CurrentVersionSound'
    <2> DEFINE r == [NoneLatest[v] EXCEPT !.latest = TRUE, !.build = "success", !.status = "active"]
    <2>1. NoneLatest[v] \in Row
      BY NoneLatestType
    <2>2. RowOK(r)
      BY <2>1 DEF RowOK, Row
    <2>3. ver' = [NoneLatest EXCEPT ![v] = r]
      BY <1>4, NoneLatestType DEF Publish
    <2> QED BY <2>2, <2>3, NewCurrentSound
  <1>5. ASSUME NEW v \in Versions, NEW sel, SkipScan(v, sel) PROVE CurrentVersionSound'
    <2> DEFINE r == [ver[v] EXCEPT !.scan = TRUE, !.build = "success"]
    <2>1. r.latest = ver[v].latest /\ r.status = ver[v].status /\ r.build = "success"
      BY <1>0 DEF Row
    <2>2. RowOK(r)
      BY <1>0, <2>1 DEF RowOK
    <2>3. ver' = [ver EXCEPT ![v] = r]
      BY <1>5 DEF SkipScan, TypeOK
    <2> QED BY <2>1, <2>2, <2>3, OneRowSound
  <1>6. ASSUME NEW v \in Versions, NEW sel, NEW reached, TriggerScan(v, sel, reached)
        PROVE  CurrentVersionSound'
    <2>1. ver' = [ver EXCEPT ![v] = MarkedScanning(ver[v])]
      BY <1>6 DEF TriggerScan
    <2> QED BY <1>0, <2>1, MarkSound, OneRowSound
  <1>7. ASSUME NEW v \in Versions, UploadVersion(v) PROVE CurrentVersionSound'
    <2> DEFINE r == [ver[v] EXCEPT !.build = "success", !.stored = TRUE]
    <2>1. r.latest = ver[v].latest
      BY <1>0 DEF Row
    <2>2. ~ver[v].latest
      BY <1>0, <1>7 DEF UploadVersion, RowOK
    <2>3. ver' = [ver EXCEPT ![v] = r]
      BY <1>7 DEF UploadVersion, TypeOK
    <2>4. RowOK(r)
      BY <2>1, <2>2 DEF RowOK
    <2> QED BY <2>1, <2>3, <2>4, OneRowSound
  <1>8. ASSUME RequestBuild \/ \E p \in Toggles : ToggleProvider(p) PROVE CurrentVersionSound'
    BY <1>8 DEF RequestBuild, ToggleProvider, CurrentVersionSound
  <1>9. ~DeletedRow.latest /\ RowOK(DeletedRow)
    BY DEF DeletedRow, Absent, RowOK
  <1>10. ASSUME NEW v \in Versions, DeleteVersion(v) PROVE CurrentVersionSound'
    BY <1>9, <1>10, OneRowSound DEF DeleteVersion
  <1>11. ASSUME DeletePlugin PROVE CurrentVersionSound'
    BY <1>9, <1>11, NoneCurrentSound DEF DeletePlugin
  <1> QED BY <1>1, <1>2, <1>3, <1>4, <1>5, <1>6, <1>7, <1>8, <1>10, <1>11 DEF AdminStep

(* The workers' commits keep the current version sound, however old the     *)
(* session is that writes: the constraint rejects what would break it.     *)
LEMMA WorkerSound ==
    ASSUME TypeOK, CurrentVersionSound, NEW w \in Workers, WorkerStep(w)
    PROVE  CurrentVersionSound'
  <1> DEFINE j == job[w]
  <1>0. \A v \in Versions : RowOK(ver[v]) /\ ver[v] \in Row
    BY DEF CurrentVersionSound, TypeOK
  <1>1. ASSUME ver' = ver PROVE CurrentVersionSound'
    BY <1>1 DEF CurrentVersionSound
  <1>2. ASSUME NEW t \in queue, StartScan(w, t) PROVE CurrentVersionSound'
    <2>1. t.v \in Versions
      BY <1>2, PresentRow DEF StartScan
    <2>2. ver' = [ver EXCEPT ![t.v] = ScanMark(ver[t.v])]
      BY <1>2 DEF StartScan
    <2> QED BY <1>0, <2>1, <2>2, MarkSound, OneRowSound
  <1>3. ASSUME NEW t \in queue, NEW v \in Versions, StartBuild(w, t, v) PROVE CurrentVersionSound'
    <2> DEFINE r == [ver[v] EXCEPT !.build = "building"]
    <2>1. r.latest = ver[v].latest
      BY <1>0 DEF Row
    <2>2. ~ver[v].latest
      BY <1>0, <1>3 DEF StartBuild, RowOK
    <2>3. ver' = [ver EXCEPT ![v] = r] /\ RowOK(r)
      BY <1>3, <2>1, <2>2 DEF StartBuild, RowOK
    <2> QED BY <2>1, <2>3, OneRowSound
  <1>4. ASSUME NEW t \in queue, NEW verdict, PollWithoutAsking(w, t, verdict)
        PROVE  CurrentVersionSound'
    <2> DEFINE r == [ver[t.v] EXCEPT !.scan = TRUE, !.build = "success"]
    <2>1. t.v \in Versions
      BY <1>4, PresentRow DEF PollWithoutAsking
    <2>2. r.latest = ver[t.v].latest /\ r.status = ver[t.v].status /\ r.build = "success"
      BY <1>0, <2>1 DEF Row
    <2>3. RowOK(r)
      BY <1>0, <2>1, <2>2 DEF RowOK
    <2>4. ver' = [ver EXCEPT ![t.v] = r]
      BY <1>4 DEF PollWithoutAsking, TypeOK
    <2> QED BY <2>1, <2>2, <2>3, <2>4, OneRowSound
  <1>5. ASSUME NEW cached, FinishUpload(w, cached) PROVE CurrentVersionSound'
    <2>1. CASE Present(j.v)
      <3> DEFINE r == [ver[j.v] EXCEPT !.build = "success", !.stored = TRUE]
      <3>1. j.v \in Versions
        BY <2>1, PresentRow
      <3>2. r.latest = ver[j.v].latest /\ r.status = ver[j.v].status /\ r.build = "success"
        BY <1>0, <3>1 DEF Row
      <3>3. RowOK(r)
        BY <1>0, <3>1, <3>2 DEF RowOK
      <3>4. ver' = [ver EXCEPT ![j.v] = r]
        BY <1>5, <2>1, <3>1 DEF FinishUpload, TypeOK
      <3> QED BY <3>1, <3>2, <3>3, <3>4, OneRowSound
    <2>2. CASE ~Present(j.v)
      BY <1>1, <1>5, <2>2 DEF FinishUpload, Conflict
    <2> QED BY <2>1, <2>2
  <1>6. ASSUME ScanBuilt(w) PROVE CurrentVersionSound'
    <2> DEFINE row == [ver[j.v] EXCEPT !.scan = TRUE, !.build = "scanning"]
    <2>1. CASE CanMarkScanning(j) /\ Present(j.v) /\ RowOK(row)
      <3>1. j.v \in Versions
        BY <2>1, PresentRow
      <3>2. row.latest = ver[j.v].latest
        BY <1>0, <3>1 DEF Row
      <3>3. ver' = [ver EXCEPT ![j.v] = row]
        BY <1>6, <2>1 DEF ScanBuilt
      <3> HIDE DEF row
      <3> QED BY <2>1, <3>1, <3>2, <3>3, OneRowSound
    <2>2. CASE ~(CanMarkScanning(j) /\ Present(j.v) /\ RowOK(row))
      BY <1>1, <1>6, <2>2 DEF ScanBuilt, Conflict
    <2> QED BY <2>1, <2>2
  <1>7. ASSUME NEW o, NEW last, FinishScan(w, o, last) PROVE CurrentVersionSound'
    <2> DEFINE b   == Flush(ver[j.v].build, j.build, IF Settled(o) THEN "success" ELSE "scanning")
               row == [ver[j.v] EXCEPT !.scan = TRUE, !.build = b]
    <2>1. CASE Present(j.v) /\ RowOK(row)
      <3>1. j.v \in Versions
        BY <2>1, PresentRow
      <3>2. row.latest = ver[j.v].latest
        BY <1>0, <3>1 DEF Row
      <3>3. ver' = [ver EXCEPT ![j.v] = row]
        BY <1>7, <2>1 DEF FinishScan
      <3> HIDE DEF row
      <3> QED BY <2>1, <3>1, <3>2, <3>3, OneRowSound
    <2>2. CASE ~(Present(j.v) /\ RowOK(row))
      BY <1>1, <1>7, <2>2 DEF FinishScan, Conflict
    <2> QED BY <2>1, <2>2
  <1>8. ASSUME NEW answer, FinishPoll(w, answer) PROVE CurrentVersionSound'
    <2> DEFINE verdict == IF answer = "pending" /\ j.tries + 1 >= MaxPolls THEN "error" ELSE answer
               b   == Flush(ver[j.v].build, j.build,
                            IF verdict = "pending" THEN "scanning" ELSE "success")
               row == [ver[j.v] EXCEPT !.build = b]
    <2>1. CASE Present(j.v) /\ RowOK(row)
      <3>1. j.v \in Versions
        BY <2>1, PresentRow
      <3>2. row.latest = ver[j.v].latest
        BY <1>0, <3>1 DEF Row
      <3>3. ver' = [ver EXCEPT ![j.v] = row]
        BY <1>8, <2>1 DEF FinishPoll
      <3> HIDE DEF row
      <3> QED BY <2>1, <3>1, <3>2, <3>3, OneRowSound
    <2>2. CASE ~(Present(j.v) /\ RowOK(row))
      BY <1>1, <1>8, <2>2 DEF FinishPoll, Conflict
    <2> QED BY <2>1, <2>2
  <1>9. ASSUME TryAutoPublish(w) PROVE CurrentVersionSound'
    <2> DEFINE row == [ver[j.v] EXCEPT !.latest = TRUE, !.status = Flush(@, j.status, "active"),
                                      !.unaware = (j.plug = "active")]
    <2>1. CASE AutoPublishes(j) /\ RowOK(row)
      <3>1. j.v \in Versions
        BY <2>1, PresentRow DEF AutoPublishes
      <3>2. ver' = [NoneLatest EXCEPT ![j.v] = row]
        BY <1>9, <2>1 DEF TryAutoPublish
      <3> HIDE DEF row
      <3> QED BY <2>1, <3>1, <3>2, NewCurrentSound
    <2>2. CASE ~(AutoPublishes(j) /\ RowOK(row))
      BY <1>1, <1>9, <2>2 DEF TryAutoPublish
    <2> QED BY <2>1, <2>2
  <1>10. ASSUME MarkBuildFailed(w) PROVE CurrentVersionSound'
    <2> DEFINE r == [ver[j.v] EXCEPT !.build = "failed"]
    <2>1. CASE Present(j.v) /\ RowOK(r)
      <3>1. j.v \in Versions
        BY <2>1, PresentRow
      <3>2. r.latest = ver[j.v].latest
        BY <1>0, <3>1 DEF Row
      <3>3. ver' = [ver EXCEPT ![j.v] = r]
        BY <1>10, <2>1 DEF MarkBuildFailed, TypeOK
      <3> HIDE DEF r
      <3> QED BY <2>1, <3>1, <3>2, <3>3, OneRowSound
    <2>2. CASE ~(Present(j.v) /\ RowOK(r))
      BY <1>1, <1>10, <2>2 DEF MarkBuildFailed
    <2> QED BY <2>1, <2>2
  <1>11. ASSUME NEW t \in queue, \/ StartOnMissing(w, t)
                                \/ \E retried \in BOOLEAN : RefuseBuild(w, t, retried)
                                \/ PollNothing(w, t)
                                \/ StartPoll(w, t)
         PROVE  CurrentVersionSound'
    BY <1>1, <1>11 DEF StartOnMissing, RefuseBuild, PollNothing, StartPoll
  <1>12. ASSUME \/ NotifyPoll(w)
                \/ \E cached \in BOOLEAN : Reload(w, cached)
                \/ Finish(w)
                \/ \E retryable \in BOOLEAN : Requeue(w, retryable)
         PROVE  CurrentVersionSound'
    BY <1>1, <1>12 DEF NotifyPoll, Reload, Finish, Requeue
  <1> QED BY <1>2, <1>3, <1>4, <1>5, <1>6, <1>7, <1>8, <1>9, <1>10, <1>11, <1>12 DEF WorkerStep

(* Every step of the system keeps the current version sound. *)
LEMMA SoundInductive == TypeOK /\ CurrentVersionSound /\ [Next]_vars => CurrentVersionSound'
  <1> SUFFICES ASSUME TypeOK, CurrentVersionSound, [Next]_vars PROVE CurrentVersionSound'
    OBVIOUS
  <1>1. CASE AdminStep
    BY <1>1, AdminSound
  <1>2. ASSUME NEW w \in Workers, WorkerStep(w) PROVE CurrentVersionSound'
    BY <1>2, WorkerSound
  <1>3. ASSUME NEW w \in Workers, Raise(w) \/ Crash(w) PROVE CurrentVersionSound'
    BY <1>3 DEF Raise, Crash, CurrentVersionSound
  <1>4. CASE UNCHANGED vars
    BY <1>4 DEF vars, CurrentVersionSound
  <1> QED BY <1>1, <1>2, <1>3, <1>4 DEF Next

(* At most one version of the plugin is current, and it is active and      *)
(* successfully built, whatever requests, late commits of workers, retries *)
(* and crashes happen in between.                                          *)
THEOREM CurrentVersionIsSound == Spec => []CurrentVersionSound
  <1>1. Init => CurrentVersionSound
    BY DEF Init, CurrentVersionSound, RowOK, Absent
  <1> QED BY <1>1, TypeCorrect, SoundInductive, PTL DEF Spec

-----------------------------------------------------------------------------
(* Withdrawn plugins.  A task makes a version current without making the    *)
(* plugin active only when its session loaded the plugin as active, and     *)
(* that is what unaware records; no other step makes one current, or       *)
(* touches the flag of one that stays current.                             *)

(* What a row may become in a step that publishes nothing. *)
NotPublished(new, old) == new.latest => old.latest /\ new.unaware = old.unaware

(* Marking a version as being scanned does not publish it. *)
LEMMA MarkNotPublished ==
    ASSUME NEW r \in Row
    PROVE  NotPublished(MarkedScanning(r), r) /\ NotPublished(ScanMark(r), r)
  BY DEF MarkedScanning, ScanMark, NotPublished, Row

(* Administrators withdraw the plugin and its versions together. *)
LEMMA AdminWithdraws ==
    TypeOK /\ CurrentVersionSound /\ WithdrawnHasNoCurrent /\ AdminStep => WithdrawnHasNoCurrent'
  <1> SUFFICES ASSUME TypeOK, CurrentVersionSound, WithdrawnHasNoCurrent, AdminStep
               PROVE  WithdrawnHasNoCurrent'
    OBVIOUS
  <1>0. \A v \in Versions : ver[v] \in Row /\ RowOK(ver[v])
    BY DEF TypeOK, CurrentVersionSound
  <1>1. ASSUME UNCHANGED plugin, \A v \in Versions : NotPublished(ver'[v], ver[v])
        PROVE  WithdrawnHasNoCurrent'
    BY <1>1 DEF WithdrawnHasNoCurrent, NotPublished
  <1>2. ASSUME NEW s, SetPluginStatus(s) PROVE WithdrawnHasNoCurrent'
    BY <1>0, <1>2 DEF SetPluginStatus, NoneLatest, WithdrawnHasNoCurrent, Row
  <1>3. ASSUME (\E v \in Versions : SetLatest(v) \/ Publish(v)) \/ DeletePlugin
        PROVE  WithdrawnHasNoCurrent'
    BY <1>3 DEF SetLatest, Publish, DeletePlugin, Admin, WithdrawnHasNoCurrent
  <1>4. ASSUME NEW v \in Versions, NEW r, ver' = [ver EXCEPT ![v] = r], NotPublished(r, ver[v]),
               UNCHANGED plugin
        PROVE  WithdrawnHasNoCurrent'
    BY <1>1, <1>4 DEF TypeOK, NotPublished
  <1>5. ASSUME NEW v \in Versions, NEW s, SetVersionStatus(v, s) PROVE WithdrawnHasNoCurrent'
    <2> DEFINE b == IF s = "active" THEN "success" ELSE ver[v].build
               l == IF s = "active" THEN ver[v].latest ELSE FALSE
               r == [ver[v] EXCEPT !.status = s, !.build = b, !.latest = l]
    <2>1. NotPublished(r, ver[v])
      BY <1>0 DEF Row, NotPublished
    <2>2. ver' = [ver EXCEPT ![v] = r] /\ UNCHANGED plugin
      BY <1>5 DEF SetVersionStatus, TypeOK
    <2> HIDE DEF r
    <2> QED BY <1>4, <2>1, <2>2
  <1>6. ASSUME NEW v \in Versions, NEW sel, SkipScan(v, sel) PROVE WithdrawnHasNoCurrent'
    <2> DEFINE r == [ver[v] EXCEPT !.scan = TRUE, !.build = "success"]
    <2>1. NotPublished(r, ver[v])
      BY <1>0 DEF Row, NotPublished
    <2>2. ver' = [ver EXCEPT ![v] = r] /\ UNCHANGED plugin
      BY <1>6 DEF SkipScan, TypeOK
    <2> HIDE DEF r
    <2> QED BY <1>4, <2>1, <2>2
  <1>7. ASSUME NEW v \in Versions, NEW sel, NEW reached, TriggerScan(v, sel, reached)
        PROVE  WithdrawnHasNoCurrent'
    <2>1. NotPublished(MarkedScanning(ver[v]), ver[v])
      BY <1>0, MarkNotPublished
    <2>2. ver' = [ver EXCEPT ![v] = MarkedScanning(ver[v])] /\ UNCHANGED plugin
      BY <1>7 DEF TriggerScan
    <2> QED BY <1>4, <2>1, <2>2
  <1>8. ASSUME NEW v \in Versions, UploadVersion(v) PROVE WithdrawnHasNoCurrent'
    <2> DEFINE r == [ver[v] EXCEPT !.build = "success", !.stored = TRUE]
    <2>1. NotPublished(r, ver[v])
      BY <1>0 DEF Row, NotPublished
    <2>2. ver' = [ver EXCEPT ![v] = r] /\ UNCHANGED plugin
      BY <1>8 DEF UploadVersion, TypeOK
    <2> HIDE DEF r
    <2> QED BY <1>4, <2>1, <2>2
  <1>9. ASSUME NEW v \in Versions, DeleteVersion(v) PROVE WithdrawnHasNoCurrent'
    BY <1>4, <1>9 DEF DeleteVersion, DeletedRow, Absent, NotPublished
  <1>10. ASSUME RequestBuild \/ \E p \in Toggles : ToggleProvider(p) PROVE WithdrawnHasNoCurrent'
    BY <1>10 DEF RequestBuild, ToggleProvider, WithdrawnHasNoCurrent
  <1> QED BY <1>2, <1>3, <1>5, <1>6, <1>7, <1>8, <1>9, <1>10 DEF AdminStep

(* A worker step makes a version current only in TryAutoPublish. *)
LEMMA OnlyPublishingMakesCurrent ==
    ASSUME TypeOK, CurrentVersionSound, NEW w \in Workers, WorkerStep(w) \/ Raise(w) \/ Crash(w)
    PROVE  \/ TryAutoPublish(w)
           \/ UNCHANGED plugin /\ \A v \in Versions : NotPublished(ver'[v], ver[v])
  <1> DEFINE j == job[w]
             Keeps == UNCHANGED plugin /\ \A v \in Versions : NotPublished(ver'[v], ver[v])
  <1>0. \A v \in Versions : ver[v] \in Row /\ RowOK(ver[v])
    BY DEF TypeOK, CurrentVersionSound
  <1>1. ASSUME NEW v \in Versions, NEW r, ver' = [ver EXCEPT ![v] = r], NotPublished(r, ver[v]),
               UNCHANGED plugin
        PROVE  Keeps
    BY <1>1 DEF TypeOK, NotPublished
  <1>2. ASSUME NEW t \in queue, StartScan(w, t) PROVE Keeps
    <2>1. t.v \in Versions
      BY <1>2, PresentRow DEF StartScan
    <2>2. NotPublished(ScanMark(ver[t.v]), ver[t.v])
      BY <1>0, <2>1, MarkNotPublished
    <2> QED BY <1>1, <1>2, <2>1, <2>2 DEF StartScan
  <1>3. ASSUME NEW t \in queue, NEW v \in Versions, StartBuild(w, t, v) PROVE Keeps
    <2>1. NotPublished([ver[v] EXCEPT !.build = "building"], ver[v])
      BY <1>0 DEF Row, NotPublished
    <2>2. ver' = [ver EXCEPT ![v] = [ver[v] EXCEPT !.build = "building"]] /\ UNCHANGED plugin
      BY <1>3 DEF StartBuild
    <2> QED BY <1>1, <2>1, <2>2
  <1>4. ASSUME NEW v \in Versions, NEW b, NEW c,
               ver' = [ver EXCEPT ![v] = [ver[v] EXCEPT !.scan = c, !.build = b]],
               UNCHANGED plugin
        PROVE  Keeps
    <2> DEFINE r == [ver[v] EXCEPT !.scan = c, !.build = b]
    <2>1. NotPublished(r, ver[v])
      BY <1>0 DEF Row, NotPublished
    <2>2. ver' = [ver EXCEPT ![v] = r]
      BY <1>4
    <2> HIDE DEF r
    <2> QED BY <1>1, <1>4, <2>1, <2>2
  <1>5. ASSUME NEW t \in queue, NEW verdict, PollWithoutAsking(w, t, verdict) PROVE Keeps
    <2>1. t.v \in Versions
      BY <1>5, PresentRow DEF PollWithoutAsking
    <2>2. ver' = [ver EXCEPT ![t.v] = [ver[t.v] EXCEPT !.scan = TRUE, !.build = "success"]]
          /\ UNCHANGED plugin
      BY <1>5 DEF PollWithoutAsking, TypeOK
    <2> QED BY <1>4, <2>1, <2>2
  <1>6. ASSUME UNCHANGED <<plugin, ver>> PROVE Keeps
    BY <1>6 DEF NotPublished
  <1>7. ASSUME (\E cached \in BOOLEAN : FinishUpload(w, cached)) \/ ScanBuilt(w) PROVE Keeps
    <2>1. \/ UNCHANGED <<plugin, ver>>
          \/ /\ Present(j.v) /\ UNCHANGED plugin
             /\ \/ ver' = [ver EXCEPT ![j.v] = [ver[j.v] EXCEPT !.build = "success", !.stored = TRUE]]
                \/ ver' = [ver EXCEPT ![j.v] = [ver[j.v] EXCEPT !.scan = TRUE, !.build = "scanning"]]
      BY <1>7, PresentRow DEF FinishUpload, ScanBuilt, Conflict, TypeOK
    <2>2. CASE Present(j.v) /\ UNCHANGED plugin
               /\ ver' = [ver EXCEPT ![j.v] = [ver[j.v] EXCEPT !.build = "success", !.stored = TRUE]]
      <3>1. j.v \in Versions
        BY <2>2, PresentRow
      <3>2. NotPublished([ver[j.v] EXCEPT !.build = "success", !.stored = TRUE], ver[j.v])
        BY <1>0, <3>1 DEF Row, NotPublished
      <3> QED BY <1>1, <2>2, <3>1, <3>2
    <2> QED BY <1>4, <1>6, <2>1, <2>2, PresentRow
  <1>8. ASSUME NEW o, NEW last, FinishScan(w, o, last) PROVE Keeps
    <2> DEFINE b == Flush(ver[j.v].build, j.build, IF Settled(o) THEN "success" ELSE "scanning")
    <2>1. \/ UNCHANGED <<plugin, ver>>
          \/ /\ Present(j.v) /\ UNCHANGED plugin
             /\ ver' = [ver EXCEPT ![j.v] = [ver[j.v] EXCEPT !.scan = TRUE, !.build = b]]
      BY <1>8 DEF FinishScan, Conflict
    <2> HIDE DEF b
    <2> QED BY <1>4, <1>6, <2>1, PresentRow
  <1>9. ASSUME NEW answer, FinishPoll(w, answer) PROVE Keeps
    <2>1. \/ UNCHANGED <<plugin, ver>>
          \/ \E b : /\ Present(j.v) /\ UNCHANGED plugin
                    /\ ver' = [ver EXCEPT ![j.v] = [ver[j.v] EXCEPT !.build = b]]
      BY <1>9 DEF FinishPoll, Conflict
    <2>2. ASSUME NEW b, Present(j.v), UNCHANGED plugin,
                 ver' = [ver EXCEPT ![j.v] = [ver[j.v] EXCEPT !.build = b]]
          PROVE  Keeps
      <3>1. j.v \in Versions
        BY <2>2, PresentRow
      <3>2. NotPublished([ver[j.v] EXCEPT !.build = b], ver[j.v])
        BY <1>0, <3>1 DEF Row, NotPublished
      <3> QED BY <1>1, <2>2, <3>1, <3>2
    <2> QED BY <1>6, <2>1, <2>2
  <1>10. ASSUME MarkBuildFailed(w) PROVE Keeps
    <2>1. CASE UNCHANGED <<plugin, ver>>
      BY <1>6, <2>1
    <2>2. CASE Present(j.v) /\ ver' = [ver EXCEPT ![j.v] = [ver[j.v] EXCEPT !.build = "failed"]]
      <3>1. j.v \in Versions
        BY <2>2, PresentRow
      <3>2. NotPublished([ver[j.v] EXCEPT !.build = "failed"], ver[j.v])
        BY <1>0, <3>1 DEF Row, NotPublished
      <3>3. UNCHANGED plugin
        BY <1>10 DEF MarkBuildFailed
      <3> QED BY <1>1, <2>2, <3>1, <3>2, <3>3
    <2> QED BY <1>10, <2>1, <2>2 DEF MarkBuildFailed, TypeOK
  <1>11. ASSUME \/ \E t \in queue : \/ StartOnMissing(w, t)
                                   \/ \E retried \in BOOLEAN : RefuseBuild(w, t, retried)
                                   \/ PollNothing(w, t)
                                   \/ StartPoll(w, t)
                \/ NotifyPoll(w) \/ (\E cached \in BOOLEAN : Reload(w, cached)) \/ Finish(w)
                \/ (\E retryable \in BOOLEAN : Requeue(w, retryable)) \/ Raise(w) \/ Crash(w)
         PROVE  Keeps
    BY <1>6, <1>11 DEF StartOnMissing, RefuseBuild, PollNothing, StartPoll, NotifyPoll, Reload,
                       Finish, Requeue, Raise, Crash
  <1> QED BY <1>2, <1>3, <1>5, <1>7, <1>8, <1>9, <1>10, <1>11 DEF WorkerStep

(* A session that has not loaded the plugin as active makes it active when  *)
(* it publishes, and one that has marks the version.                       *)
LEMMA PublishingActivates ==
    ASSUME TypeOK, WithdrawnHasNoCurrent, NEW w \in Workers, TryAutoPublish(w)
    PROVE  WithdrawnHasNoCurrent'
  <1> DEFINE j   == job[w]
             row == [ver[j.v] EXCEPT !.latest = TRUE, !.status = Flush(@, j.status, "active"),
                                     !.unaware = (j.plug = "active")]
  <1>1. CASE UNCHANGED <<plugin, ver>>
    BY <1>1 DEF WithdrawnHasNoCurrent
  <1>2. CASE /\ Present(j.v) /\ plugin' = Flush(plugin, j.plug, "active")
             /\ ver' = [NoneLatest EXCEPT ![j.v] = row]
    <2>1. CASE j.plug # "active"
      BY <1>2, <2>1 DEF Flush, WithdrawnHasNoCurrent
    <2>2. CASE j.plug = "active"
      <3>1. j.v \in Versions /\ ver[j.v] \in Row
        BY <1>2, PresentRow
      <3>2. ver'[j.v].unaware
        <4>1. row.unaware
          BY <2>2, <3>1 DEF Row
        <4> QED BY <1>2, <3>1, <4>1 DEF NoneLatest
      <3>3. \A v \in Versions : v # j.v => ~ver'[v].latest
        BY <1>2 DEF NoneLatest, TypeOK, Row
      <3> QED BY <3>2, <3>3 DEF WithdrawnHasNoCurrent
    <2> QED BY <2>1, <2>2
  <1> QED BY <1>1, <1>2 DEF TryAutoPublish, AutoPublishes

(* Withdrawing a plugin sticks: whatever scans, polls, builds and retries   *)
(* finish later, the only version of a disabled or deleted plugin that can *)
(* be current is one published by a build that had loaded it as active.    *)
THEOREM WithdrawalSticks == Spec => []WithdrawnHasNoCurrent
  <1>1. Init => WithdrawnHasNoCurrent
    BY DEF Init, WithdrawnHasNoCurrent
  <1>2. TypeOK /\ CurrentVersionSound /\ WithdrawnHasNoCurrent /\ [Next]_vars => WithdrawnHasNoCurrent'
    <2> SUFFICES ASSUME TypeOK, CurrentVersionSound, WithdrawnHasNoCurrent, [Next]_vars
                 PROVE  WithdrawnHasNoCurrent'
      OBVIOUS
    <2>1. CASE AdminStep
      BY <2>1, AdminWithdraws
    <2>2. ASSUME NEW w \in Workers, WorkerStep(w) \/ Raise(w) \/ Crash(w)
          PROVE  WithdrawnHasNoCurrent'
      <3>1. CASE TryAutoPublish(w)
        BY <3>1, PublishingActivates
      <3>2. CASE UNCHANGED plugin /\ \A v \in Versions : NotPublished(ver'[v], ver[v])
        BY <3>2 DEF WithdrawnHasNoCurrent, NotPublished
      <3> QED BY <2>2, <3>1, <3>2, OnlyPublishingMakesCurrent
    <2>3. CASE UNCHANGED vars
      BY <2>3 DEF vars, WithdrawnHasNoCurrent
    <2> QED BY <2>1, <2>2, <2>3 DEF Next
  <1> QED BY <1>1, <1>2, TypeCorrect, CurrentVersionIsSound, PTL DEF Spec

-----------------------------------------------------------------------------
(* Pending results.  HasWork accepts any task or worker that settles the    *)
(* result; what is inductive is who answers for it.  A result whose         *)
(* analysis has an id is in the hands of a poll, any other in those of a    *)
(* scan of the provider that was requested by name.  A scan of all          *)
(* providers never answers for a recorded result, and has not to: what it   *)
(* chose to scan depends on settings that may have changed since.           *)

Scans(t, v, p) == t.kind = "scan" /\ t.v = v /\ p \in t.sel

Polls(t, v) == t.kind = "poll" /\ t.v = v

AtScan(j, v, p) == j.pc \in {"scanning", "failing", "conflict"} /\ Scans(j.task, v, p)

AtPoll(j, v) == \/ j.pc \in {"polling", "notify"} /\ j.v = v
                \/ j.pc \in {"failing", "conflict"} /\ Polls(j.task, v)

ScanUnderway(v, p) == (\E t \in queue : Scans(t, v, p)) \/ \E w \in Workers : AtScan(job[w], v, p)

PollUnderway(v) == (\E t \in queue : Polls(t, v)) \/ \E w \in Workers : AtPoll(job[w], v)

Answered(v, p) ==
    res[v][p] = "pending" =>
        \/ v \in lost
        \/ IF p = VT /\ vt[v].ext THEN PollUnderway(v) ELSE ScanUnderway(v, p)

(* The session of a scan or a poll is about the version of its task, and   *)
(* that of a scan about its providers.                                     *)
OnTask(j) ==
    /\ j.pc = "scanning" /\ j.task.kind = "scan" => j.v = j.task.v /\ j.sel = j.task.sel
    /\ j.pc = "polling" => j.task.kind = "poll" /\ j.v = j.task.v
    /\ j.pc \in {"building", "built"} => j.task.kind = "build"

WorkInv == /\ \A w \in Workers : OnTask(job[w])
           /\ \A v \in Versions, p \in Providers : Answered(v, p)
(* A step of w keeps a scan under way when the tasks it takes and the job   *)
(* it leaves are carried on.                                               *)
LEMMA ScanKept ==
    ASSUME TypeOK, NEW w \in Workers, NEW j, job' = [job EXCEPT ![w] = j], NEW v, NEW p,
           ScanUnderway(v, p),
           \A t \in queue : Scans(t, v, p) => t \in queue' \/ AtScan(j, v, p),
           AtScan(job[w], v, p) => AtScan(j, v, p) \/ \E t \in queue' : Scans(t, v, p)
    PROVE  ScanUnderway(v, p)'
  <1>1. job'[w] = j /\ \A u \in Workers \ {w} : job'[u] = job[u]
    BY DEF TypeOK
  <1>2. SUFFICES \/ \E t \in queue' : Scans(t, v, p)
                 \/ \E u \in Workers : AtScan(job'[u], v, p)
    BY DEF ScanUnderway
  <1>3. CASE \E t \in queue : Scans(t, v, p)
    BY <1>1, <1>3
  <1>4. ASSUME NEW u \in Workers, AtScan(job[u], v, p)
        PROVE  \/ \E t \in queue' : Scans(t, v, p)
               \/ \E x \in Workers : AtScan(job'[x], v, p)
    BY <1>1, <1>4
  <1> QED BY <1>3, <1>4 DEF ScanUnderway

(* The same of a poll. *)
LEMMA PollKept ==
    ASSUME TypeOK, NEW w \in Workers, NEW j, job' = [job EXCEPT ![w] = j], NEW v,
           PollUnderway(v),
           \A t \in queue : Polls(t, v) => t \in queue' \/ AtPoll(j, v),
           AtPoll(job[w], v) => AtPoll(j, v) \/ \E t \in queue' : Polls(t, v)
    PROVE  PollUnderway(v)'
  <1>1. job'[w] = j /\ \A u \in Workers \ {w} : job'[u] = job[u]
    BY DEF TypeOK
  <1>2. SUFFICES \/ \E t \in queue' : Polls(t, v)
                 \/ \E u \in Workers : AtPoll(job'[u], v)
    BY DEF PollUnderway
  <1>3. CASE \E t \in queue : Polls(t, v)
    BY <1>1, <1>3
  <1>4. ASSUME NEW u \in Workers, AtPoll(job[u], v)
        PROVE  \/ \E t \in queue' : Polls(t, v)
               \/ \E x \in Workers : AtPoll(job'[x], v)
    BY <1>1, <1>4
  <1> QED BY <1>3, <1>4 DEF PollUnderway

(* A job that replaces another one on the same tasks: the sessions of the   *)
(* other workers are still on theirs.                                      *)
LEMMA OneJobOnTask ==
    ASSUME TypeOK, WorkInv, NEW w \in Workers, NEW j, job' = [job EXCEPT ![w] = j], OnTask(j)
    PROVE  \A u \in Workers : OnTask(job'[u])
  <1>1. job'[w] = j /\ \A u \in Workers \ {w} : job'[u] = job[u]
    BY DEF TypeOK
  <1> QED BY <1>1 DEF WorkInv

(* A worker that writes no result hands its work on when the tasks it takes *)
(* and the job it leaves are carried on, or their versions are given up.   *)
LEMMA WorkHandedOn ==
    ASSUME TypeOK, WorkInv, NEW w \in Workers, NEW j, job' = [job EXCEPT ![w] = j], OnTask(j),
           UNCHANGED res, \A v \in Versions : vt'[v].ext = vt[v].ext, lost \subseteq lost',
           \A t \in queue : \/ t \in queue'
                            \/ \A v, p : /\ Scans(t, v, p) => AtScan(j, v, p)
                                         /\ Polls(t, v) => AtPoll(j, v),
           \A v \in Versions, p \in Providers : AtScan(job[w], v, p) =>
               v \in lost' \/ AtScan(j, v, p) \/ \E t \in queue' : Scans(t, v, p),
           \A v \in Versions : AtPoll(job[w], v) =>
               v \in lost' \/ AtPoll(j, v) \/ \E t \in queue' : Polls(t, v)
    PROVE  WorkInv'
  <1>1. \A u \in Workers : OnTask(job'[u])
    BY OneJobOnTask
  <1>2. ASSUME NEW v \in Versions, NEW p \in Providers PROVE Answered(v, p)'
    <2>1. Answered(v, p)
      BY DEF WorkInv
    <2>2. ScanUnderway(v, p) => v \in lost' \/ ScanUnderway(v, p)'
      BY ScanKept
    <2>3. PollUnderway(v) => v \in lost' \/ PollUnderway(v)'
      BY PollKept
    <2> QED BY <2>1, <2>2, <2>3 DEF Answered
  <1> QED BY <1>1, <1>2 DEF WorkInv

(* A session that fails keeps its task, which answers for the same results. *)
LEMMA LeaveHandsOn ==
    ASSUME NEW j \in Job, OnTask(j), j.pc # "notify", NEW label \in {"failing", "conflict"}
    PROVE  LET new == NewJob(j.task, label, j.v, {})
           IN  /\ OnTask(new)
               /\ \A v, p : AtScan(j, v, p) => AtScan(new, v, p)
               /\ \A v : AtPoll(j, v) => AtPoll(new, v)
  <1> DEFINE new == NewJob(j.task, label, j.v, {})
  <1>1. new.pc = label /\ new.task = j.task
    BY DEF NewJob
  <1> HIDE DEF new
  <1>2. OnTask(new)
    BY <1>1 DEF OnTask
  <1>3. \A v, p : AtScan(j, v, p) => AtScan(new, v, p)
    BY <1>1 DEF AtScan
  <1>4. \A v : AtPoll(j, v) => AtPoll(new, v)
    BY <1>1 DEF AtPoll, OnTask, Polls
  <1> QED BY <1>2, <1>3, <1>4 DEF new
(* Taking a task off the queue: whoever takes it answers for what it was    *)
(* about, or there is nothing left to answer for.                          *)
LEMMA TakingHandsOn ==
    ASSUME TypeOK, WorkInv, NEW w \in Workers, NEW t \in queue,
           \/ StartOnMissing(w, t)
           \/ StartScan(w, t)
           \/ \E v \in Versions : StartBuild(w, t, v)
           \/ \E retried \in BOOLEAN : RefuseBuild(w, t, retried)
           \/ StartPoll(w, t)
    PROVE  WorkInv'
  <1>1. /\ job[w] = Idle /\ \A u \in queue : u = t \/ u \in queue'
        /\ UNCHANGED <<res, vt, lost>>
    BY DEF StartOnMissing, StartScan, StartBuild, RefuseBuild, StartPoll, Takes
  <1>2. \A v, p : ~AtScan(job[w], v, p) /\ ~AtPoll(job[w], v)
    BY <1>1 DEF Idle, AtScan, AtPoll
  <1>3. ASSUME NEW j, job' = [job EXCEPT ![w] = j], OnTask(j),
               \A v, p : Scans(t, v, p) => AtScan(j, v, p),
               \A v : Polls(t, v) => AtPoll(j, v)
        PROVE  WorkInv'
    BY <1>1, <1>2, <1>3, WorkHandedOn
  <1>4. ASSUME NEW v, job' = [job EXCEPT ![w] = NewJob(t, "failing", v, {})] PROVE WorkInv'
    <2> DEFINE new == NewJob(t, "failing", v, {})
    <2>1. new.pc = "failing" /\ new.task = t
      BY DEF NewJob
    <2> HIDE DEF new
    <2>2. OnTask(new) /\ \A u, p : (Scans(t, u, p) => AtScan(new, u, p)) /\ (Polls(t, u) => AtPoll(new, u))
      BY <2>1 DEF OnTask, AtScan, AtPoll
    <2>3. job' = [job EXCEPT ![w] = new]
      BY <1>4 DEF new
    <2> QED BY <1>3, <2>2, <2>3
  <1>5. CASE StartOnMissing(w, t)
    BY <1>4, <1>5 DEF StartOnMissing
  <1>6. CASE StartScan(w, t)
    <2> DEFINE sel == IF t.kind = "scanall" THEN enabled ELSE t.sel
               new == ScanSession(ver[t.v], NewJob(t, "scanning", t.v, sel))
    <2>1. new.pc = "scanning" /\ new.task = t /\ new.v = t.v /\ new.sel = sel
      BY DEF ScanSession, NewJob
    <2>2. job' = [job EXCEPT ![w] = new] /\ t.kind \in {"scan", "scanall"}
      BY <1>6 DEF StartScan
    <2> HIDE DEF new
    <2>3. OnTask(new) /\ \A u, p : (Scans(t, u, p) => AtScan(new, u, p)) /\ (Polls(t, u) => AtPoll(new, u))
      BY <2>1, <2>2 DEF OnTask, AtScan, Polls
    <2> QED BY <1>3, <2>2, <2>3
  <1>7. ASSUME NEW v \in Versions, StartBuild(w, t, v) PROVE WorkInv'
    <2> DEFINE new == [NewJob(t, "building", v, {}) EXCEPT !.build = "building", !.plug = plugin]
    <2>1. new.pc = "building" /\ new.task = t
      BY DEF NewJob
    <2>2. job' = [job EXCEPT ![w] = new] /\ t.kind = "build"
      BY <1>7 DEF StartBuild
    <2> HIDE DEF new
    <2>3. OnTask(new) /\ \A u, p : ~Scans(t, u, p) /\ ~Polls(t, u)
      BY <2>1, <2>2 DEF OnTask, Scans, Polls
    <2> QED BY <1>3, <2>2, <2>3
  <1>8. ASSUME NEW retried \in BOOLEAN, RefuseBuild(w, t, retried) PROVE WorkInv'
    <2>1. CASE retried
      BY <1>4, <1>8, <2>1 DEF RefuseBuild
    <2>2. CASE ~retried
      <3>1. job' = [job EXCEPT ![w] = Idle] /\ t.kind = "build"
        BY <1>1, <1>8, <2>2 DEF RefuseBuild, TypeOK
      <3>2. OnTask(Idle) /\ \A u, p : ~Scans(t, u, p) /\ ~Polls(t, u)
        BY <3>1 DEF OnTask, Scans, Polls, Idle
      <3> QED BY <1>3, <3>1, <3>2
    <2> QED BY <2>1, <2>2
  <1>9. CASE StartPoll(w, t)
    <2>1. PollSession(t).pc = "polling" /\ PollSession(t).task = t /\ PollSession(t).v = t.v
      BY DEF PollSession, NewJob
    <2>2. job' = [job EXCEPT ![w] = PollSession(t)] /\ t.kind = "poll"
      BY <1>9 DEF StartPoll
    <2>3. /\ OnTask(PollSession(t))
          /\ \A u, p : ~Scans(t, u, p) /\ (Polls(t, u) => AtPoll(PollSession(t), u))
      BY <2>1, <2>2 DEF OnTask, AtPoll, Scans, Polls
    <2> QED BY <1>3, <2>2, <2>3
  <1> QED BY <1>5, <1>6, <1>7, <1>8, <1>9

(* A poll ends without a successor only when there is nothing to poll, or   *)
(* with a result that is not pending.                                      *)
LEMMA PollEndsAnswered ==
    ASSUME TypeOK, WorkInv, NEW w \in Workers, NEW j, job' = [job EXCEPT ![w] = j], OnTask(j),
           NEW x \in Versions, UNCHANGED lost,
           \A t \in queue : t \in queue' \/ Polls(t, x),
           \A v \in Versions, p \in Providers : ~AtScan(job[w], v, p),
           \A v \in Versions : AtPoll(job[w], v) => v = x,
           \A v \in Versions, p \in Providers : v # x \/ p # VT =>
               res'[v][p] = res[v][p] /\ (v # x => vt'[v] = vt[v]),
           res'[x][VT] = "pending" => res[x][VT] = "pending" /\ ~vt[x].ext /\ ~vt'[x].ext
    PROVE  WorkInv'
  <1>1. \A u \in Workers : OnTask(job'[u])
    BY OneJobOnTask
  <1>2. ASSUME NEW v \in Versions, NEW p \in Providers PROVE Answered(v, p)'
    <2>1. Answered(v, p) /\ VT \in Providers
      BY ProvidersAssumption DEF WorkInv
    <2>2. ScanUnderway(v, p) => ScanUnderway(v, p)'
      <3>1. \A t \in queue : Scans(t, v, p) => t \in queue'
        BY DEF Scans, Polls
      <3> QED BY <3>1, ScanKept
    <2>3. v # x /\ PollUnderway(v) => PollUnderway(v)'
      <3>1. v # x => \A t \in queue : Polls(t, v) => t \in queue'
        BY DEF Polls
      <3> QED BY <3>1, PollKept
    <2>4. CASE v = x /\ p = VT
      BY <2>1, <2>2, <2>4 DEF Answered
    <2>5. CASE v = x /\ p # VT
      BY <2>1, <2>2, <2>5 DEF Answered
    <2>6. CASE v # x
      BY <2>1, <2>2, <2>3, <2>6 DEF Answered
    <2> QED BY <2>4, <2>5, <2>6
  <1> QED BY <1>1, <1>2 DEF WorkInv
(* Polls that never ask VirusTotal. *)
LEMMA PollWithoutAskingAnswers ==
    ASSUME TypeOK, WorkInv, NEW w \in Workers, NEW t \in queue,
           PollNothing(w, t) \/ \E verdict \in {"skipped", "error"} : PollWithoutAsking(w, t, verdict)
    PROVE  WorkInv'
  <1>1. /\ job[w] = Idle /\ \A u \in queue : u = t \/ u \in queue'
        /\ UNCHANGED lost /\ Present(t.v) /\ t.kind = "poll"
    BY DEF PollNothing, PollWithoutAsking, Takes
  <1>2. /\ \A v, p : ~AtScan(job[w], v, p) /\ ~AtPoll(job[w], v)
        /\ \A u \in queue : u \in queue' \/ Polls(u, t.v)
        /\ t.v \in Versions /\ VT \in Providers
    BY <1>1, PresentRow, ProvidersAssumption DEF Idle, AtScan, AtPoll, Polls
  <1>3. CASE PollNothing(w, t)
    <2>1. job' = [job EXCEPT ![w] = Idle] /\ OnTask(Idle)
      BY <1>1, <1>3 DEF PollNothing, TypeOK, OnTask, Idle
    <2>2. UNCHANGED <<res, vt>> /\ (res[t.v][VT] = "pending" => ~vt[t.v].ext)
      BY <1>3 DEF PollNothing
    <2> QED BY <1>1, <1>2, <2>1, <2>2, PollEndsAnswered
  <1>4. ASSUME NEW verdict \in {"skipped", "error"}, PollWithoutAsking(w, t, verdict) PROVE WorkInv'
    <2> DEFINE new == [PollSession(t) EXCEPT !.pc = "reload", !.build = "success", !.held[VT] = verdict]
    <2>1. new.pc = "reload"
      BY DEF PollSession, NewJob
    <2>2. job' = [job EXCEPT ![w] = new] /\ Conclude(t.v, verdict)
      BY <1>4 DEF PollWithoutAsking
    <2> HIDE DEF new
    <2>3. OnTask(new)
      BY <2>1 DEF OnTask
    <2>4. /\ \A v \in Versions, p \in Providers : v # t.v \/ p # VT =>
                res'[v][p] = res[v][p] /\ (v # t.v => vt'[v] = vt[v])
          /\ res'[t.v][VT] # "pending"
      BY <1>2, <2>2 DEF Conclude, TypeOK
    <2> QED BY <1>1, <1>2, <2>2, <2>3, <2>4, PollEndsAnswered
  <1> QED BY <1>3, <1>4

(* The answer of VirusTotal: the poll that is told to come back is notified *)
(* by the same worker, and a rejected commit is retried with its task.     *)
LEMMA FinishPollAnswers ==
    ASSUME TypeOK, WorkInv, NEW w \in Workers, NEW answer \in {"pending", "passed", "failed", "error"},
           FinishPoll(w, answer)
    PROVE  WorkInv'
  <1> DEFINE j       == job[w]
             verdict == IF answer = "pending" /\ j.tries + 1 >= MaxPolls THEN "error" ELSE answer
             build   == IF verdict = "pending" THEN "scanning" ELSE "success"
             row     == [ver[j.v] EXCEPT !.build = Flush(@, j.build, build)]
  <1>1. /\ j \in Job /\ OnTask(j) /\ j.pc = "polling"
        /\ UNCHANGED <<queue, lost>> /\ VT \in Providers
    BY BusyHasJob, ProvidersAssumption DEF FinishPoll, WorkInv
  <1>2. \A v, p : ~AtScan(j, v, p) /\ (AtPoll(j, v) => v = j.v)
    BY <1>1 DEF AtScan, AtPoll
  <1>3. CASE ~Present(j.v) \/ ~RowOK(row)
    <2> DEFINE new == NewJob(j.task, "conflict", j.v, {})
    <2>1. job' = [job EXCEPT ![w] = new] /\ UNCHANGED <<res, vt>>
      BY <1>3 DEF FinishPoll, Conflict, Leave
    <2>2. OnTask(new) /\ \A v : AtPoll(j, v) => AtPoll(new, v)
      BY <1>1, LeaveHandsOn
    <2> HIDE DEF new
    <2> QED BY <1>1, <1>2, <2>1, <2>2, WorkHandedOn
  <1>4. CASE Present(j.v) /\ RowOK(row) /\ verdict = "pending"
    <2> DEFINE new == NewJob(j.task, "notify", j.v, {})
    <2>1. /\ job' = [job EXCEPT ![w] = new] /\ UNCHANGED res
          /\ vt' = IF vt[j.v].ext THEN [vt EXCEPT ![j.v].tries = j.tries + 1] ELSE vt
      BY <1>4 DEF FinishPoll, Leave
    <2>2. new.pc = "notify" /\ new.v = j.v
      BY DEF NewJob
    <2> HIDE DEF new
    <2>3. OnTask(new) /\ \A v : AtPoll(j, v) => AtPoll(new, v)
      BY <1>2, <2>2 DEF OnTask, AtPoll
    <2>4. \A v \in Versions : vt'[v].ext = vt[v].ext
      BY <2>1 DEF TypeOK
    <2> QED BY <1>1, <1>2, <2>1, <2>3, <2>4, WorkHandedOn
  <1>5. CASE Present(j.v) /\ RowOK(row) /\ verdict # "pending"
    <2> DEFINE new == [j EXCEPT !.pc = "reload", !.build = build, !.held[VT] = verdict]
    <2>1. job' = [job EXCEPT ![w] = new] /\ Conclude(j.v, verdict)
      BY <1>5 DEF FinishPoll
    <2>2. new.pc = "reload" /\ j.v \in Versions
      BY <1>1, <1>5, PresentRow DEF Job
    <2> HIDE DEF new
    <2>3. OnTask(new)
      BY <2>2 DEF OnTask
    <2>4. /\ \A v \in Versions, p \in Providers : v # j.v \/ p # VT =>
                res'[v][p] = res[v][p] /\ (v # j.v => vt'[v] = vt[v])
          /\ res'[j.v][VT] # "pending"
      <3> HIDE DEF verdict
      <3> QED BY <1>1, <1>5, <2>1, <2>2 DEF Conclude, TypeOK
    <2> QED BY <1>1, <1>2, <2>1, <2>2, <2>3, <2>4, PollEndsAnswered
  <1> QED BY <1>3, <1>4, <1>5

(* The commit of a scan: what it leaves pending is an analysis with an id,  *)
(* and the worker is about to create the poll of it.                       *)
LEMMA FinishScanAnswers ==
    ASSUME TypeOK, WorkInv, NEW w \in Workers, NEW o \in Outcomes(job[w].sel), NEW last \in Providers,
           FinishScan(w, o, last)
    PROVE  WorkInv'
  <1> DEFINE j     == job[w]
             build == IF Settled(o) THEN "success" ELSE "scanning"
             row   == [ver[j.v] EXCEPT !.scan = TRUE, !.build = Flush(@, j.build, build)]
  <1>1. /\ j \in Job /\ OnTask(j) /\ j.pc = "scanning"
        /\ UNCHANGED <<queue, lost>> /\ VT \in Providers
    BY BusyHasJob, ProvidersAssumption DEF FinishScan, WorkInv
  <1>2. \A v, p : ~AtPoll(j, v) /\ (AtScan(j, v, p) => v = j.v /\ p \in j.sel)
    BY <1>1 DEF AtScan, AtPoll, OnTask, Scans
  <1>3. CASE ~Present(j.v) \/ ~RowOK(row)
    <2> DEFINE new == NewJob(j.task, "conflict", j.v, {})
    <2>1. job' = [job EXCEPT ![w] = new] /\ UNCHANGED <<res, vt>>
      BY <1>3 DEF FinishScan, Conflict, Leave
    <2>2. OnTask(new) /\ \A v, p : AtScan(j, v, p) => AtScan(new, v, p)
      BY <1>1, LeaveHandsOn
    <2> HIDE DEF new
    <2> QED BY <1>1, <1>2, <2>1, <2>2, WorkHandedOn
  <1>4. CASE Present(j.v) /\ RowOK(row)
    <2> DEFINE new == IF Settled(o)
                      THEN [j EXCEPT !.pc = "reload", !.build = build, !.held = Held(j, {last} \cap j.sel, o)]
                      ELSE NewJob(j.task, "notify", j.v, {})
               found == [ext |-> o[VT] = "pending", tries |-> 0]
    <2>1. /\ res' = [res EXCEPT ![j.v] = [p \in Providers |-> IF p \in j.sel THEN o[p] ELSE res[j.v][p]]]
          /\ vt' = IF VT \in j.sel THEN [vt EXCEPT ![j.v] = found] ELSE vt
          /\ job' = [job EXCEPT ![w] = new]
      BY <1>4 DEF FinishScan, Leave
    <2>2. new.pc = (IF Settled(o) THEN "reload" ELSE "notify") /\ (~Settled(o) => new.v = j.v)
      BY <1>1 DEF NewJob, Job
    <2>3. j.v \in Versions
      BY <1>4, PresentRow
    <2>4. found.ext = (o[VT] = "pending")
      OBVIOUS
    <2>5. /\ DOMAIN o = j.sel
          /\ \A p \in j.sel : o[p] = "pending" => p = VT
      BY DEF Outcomes
    <2> HIDE DEF new, found
    <2>6. OnTask(new)
      BY <2>2 DEF OnTask
    <2>7. \A u \in Workers : OnTask(job'[u])
      BY <2>1, <2>6, OneJobOnTask
    <2>8. ASSUME NEW v \in Versions, NEW p \in Providers PROVE Answered(v, p)'
      <3>1. Answered(v, p)
        BY DEF WorkInv
      <3>2. ~(v = j.v /\ p \in j.sel) /\ ScanUnderway(v, p) => ScanUnderway(v, p)'
        BY <1>1, <1>2, <2>1, ScanKept
      <3>3. PollUnderway(v) => PollUnderway(v)'
        BY <1>1, <1>2, <2>1, PollKept
      <3>4. CASE v = j.v /\ p \in j.sel
        <4>1. res'[v][p] = o[p]
          BY <2>1, <2>3, <3>4 DEF TypeOK
        <4>2. ASSUME o[p] = "pending" PROVE PollUnderway(v)' /\ p = VT /\ vt'[v].ext
          <5>1. p = VT /\ ~Settled(o)
            BY <2>5, <3>4, <4>2 DEF Settled
          <5>2. AtPoll(new, v)
            BY <2>2, <3>4, <5>1 DEF AtPoll
          <5>3. job'[w] = new
            BY <2>1 DEF TypeOK
          <5>4. PollUnderway(v)'
            BY <5>2, <5>3 DEF PollUnderway
          <5>5. vt'[v].ext
            BY <2>1, <2>3, <2>4, <3>4, <4>2, <5>1 DEF TypeOK
          <5> QED BY <5>1, <5>4, <5>5
        <4> QED BY <4>1, <4>2 DEF Answered
      <3>5. CASE ~(v = j.v /\ p \in j.sel)
        <4>1. res'[v][p] = res[v][p]
          BY <2>1, <2>3, <3>5 DEF TypeOK
        <4>2. p = VT => vt'[v] = vt[v]
          BY <2>1, <2>3, <3>5 DEF TypeOK
        <4> QED BY <1>1, <3>1, <3>2, <3>3, <3>5, <4>1, <4>2 DEF Answered
      <3> QED BY <3>4, <3>5
    <2> QED BY <2>7, <2>8 DEF WorkInv
  <1> QED BY <1>3, <1>4
(* The other steps of a worker write no result.  A scan or poll that fails  *)
(* keeps its task, one that must not be retried is given up, and the poll   *)
(* that was promised is queued by the worker that promised it.             *)
LEMMA WorkerHandsOn ==
    ASSUME TypeOK, WorkInv, NEW w \in Workers,
           \/ \E cached \in BOOLEAN : FinishUpload(w, cached) \/ Reload(w, cached)
           \/ ScanBuilt(w) \/ NotifyPoll(w) \/ Finish(w) \/ TryAutoPublish(w) \/ MarkBuildFailed(w)
           \/ \E retryable \in BOOLEAN : Requeue(w, retryable)
           \/ Raise(w) \/ Crash(w)
    PROVE  WorkInv'
  <1> DEFINE j == job[w]
  <1>1. /\ j # Idle => j \in Job /\ j.v \in Versions \cup {NoVersion} /\ j.task \in Task
        /\ OnTask(j)
    BY DEF TypeOK, Job, WorkInv
  <1>2. ASSUME NEW new, job' = [job EXCEPT ![w] = new], OnTask(new),
               UNCHANGED <<res, vt>>, lost \subseteq lost', queue \subseteq queue',
               \A v \in Versions, p \in Providers : AtScan(j, v, p) =>
                   v \in lost' \/ AtScan(new, v, p) \/ \E t \in queue' : Scans(t, v, p),
               \A v \in Versions : AtPoll(j, v) =>
                   v \in lost' \/ AtPoll(new, v) \/ \E t \in queue' : Polls(t, v)
        PROVE  WorkInv'
    BY <1>2, WorkHandedOn
  <1>3. j.pc \in {"building", "built", "reload", "publish", "finishing", "raised"} =>
            \A v, p : ~AtScan(j, v, p) /\ ~AtPoll(j, v)
    BY DEF AtScan, AtPoll
  <1>4. ASSUME NEW label, Leave(w, label), label \in {"finishing", "raised", "failing", "conflict"},
               j.pc \in {"building", "built", "reload", "publish", "finishing", "raised"},
               UNCHANGED <<res, vt, lost, queue>>
        PROVE  WorkInv'
    <2> DEFINE new == NewJob(j.task, label, j.v, {})
    <2>1. new.pc = label
      BY DEF NewJob
    <2>2. job' = [job EXCEPT ![w] = new]
      BY <1>4 DEF Leave
    <2> HIDE DEF new
    <2>3. OnTask(new)
      BY <1>4, <2>1 DEF OnTask
    <2> QED BY <1>2, <1>3, <1>4, <2>2, <2>3
  <1>5. ASSUME NEW cached \in BOOLEAN, FinishUpload(w, cached) PROVE WorkInv'
    <2>1. j.pc = "building" /\ j \in Job /\ UNCHANGED <<res, vt, lost, queue>> /\ j.task.kind = "build"
      BY <1>1, <1>5, BusyHasJob DEF FinishUpload, Conflict, OnTask
    <2>2. CASE Present(j.v)
      <3> DEFINE new == [j EXCEPT !.pc = "built", !.build = "success", !.status = ver[j.v].status,
                     !.latest = ver[j.v].latest,
                     !.held = IF plugin = "active" /\ ~cached THEN Displayed(j.v) ELSE @]
      <3>1. job' = [job EXCEPT ![w] = new]
        BY <1>5, <2>2 DEF FinishUpload
      <3>2. new.pc = "built" /\ new.task = j.task
        BY <2>1 DEF Job
      <3> HIDE DEF new
      <3>3. OnTask(new)
        BY <2>1, <3>2 DEF OnTask
      <3> QED BY <1>2, <1>3, <2>1, <3>1, <3>3
    <2>3. CASE ~Present(j.v)
      BY <1>4, <1>5, <2>1, <2>3 DEF FinishUpload, Conflict
    <2> QED BY <2>2, <2>3
  <1>6. CASE ScanBuilt(w)
    <2>1. j.pc = "built" /\ j \in Job /\ UNCHANGED <<res, vt, lost, queue>> /\ j.task.kind = "build"
      BY <1>1, <1>6, BusyHasJob DEF ScanBuilt, Conflict, OnTask
    <2>2. ASSUME NEW new \in Job, job' = [job EXCEPT ![w] = new], new.task = j.task,
                 new.pc = "scanning"
          PROVE  WorkInv'
      <3>1. OnTask(new)
        BY <2>1, <2>2 DEF OnTask
      <3> QED BY <1>2, <1>3, <2>1, <2>2, <3>1
    <2>3. CASE Leave(w, "conflict")
      BY <1>4, <2>1, <2>3
    <2> QED BY <1>6, <2>2, <2>3, ScanBuiltJob
  <1>7. CASE NotifyPoll(w)
    <2> DEFINE new  == NewJob(j.task, "finishing", j.v, {})
               poll == [id |-> issued, kind |-> "poll", v |-> j.v, sel |-> {}, attempts |-> 0]
    <2>1. /\ j.pc = "notify" /\ UNCHANGED <<res, vt, lost>>
          /\ job' = [job EXCEPT ![w] = new] /\ queue' = queue \cup {poll}
      BY <1>7 DEF NotifyPoll, Leave, Enqueue
    <2>2. new.pc = "finishing" /\ Polls(poll, j.v)
      BY DEF NewJob, Polls
    <2> HIDE DEF new, poll
    <2>3. OnTask(new) /\ \A v, p : ~AtScan(j, v, p) /\ (AtPoll(j, v) => v = j.v)
      BY <2>1, <2>2 DEF OnTask, AtScan, AtPoll
    <2> QED BY <1>2, <2>1, <2>2, <2>3
  <1>8. ASSUME NEW cached \in BOOLEAN, Reload(w, cached) PROVE WorkInv'
    <2> DEFINE new == [j EXCEPT !.pc = "publish",
                    !.held = IF plugin = "active" /\ Present(j.v) /\ ~cached
                             THEN SessionResults(j) ELSE @]
    <2>1. /\ j.pc = "reload" /\ j \in Job /\ UNCHANGED <<res, vt, lost, queue>>
          /\ job' = [job EXCEPT ![w] = new]
      BY <1>8, BusyHasJob DEF Reload
    <2>2. new.pc = "publish"
      BY <2>1 DEF Job
    <2> HIDE DEF new
    <2>3. OnTask(new)
      BY <2>2 DEF OnTask
    <2> QED BY <1>2, <1>3, <2>1, <2>3
  <1>9. OnTask(Idle)
    BY DEF OnTask, Idle
  <1>10. CASE Finish(w)
    BY <1>2, <1>3, <1>9, <1>10 DEF Finish, Done
  <1>11. CASE TryAutoPublish(w) \/ MarkBuildFailed(w)
    <2>1. /\ j.pc \in {"publish", "raised"} /\ UNCHANGED <<res, vt, lost, queue>>
          /\ \E label \in {"finishing", "conflict", "failing"} : Leave(w, label)
      BY <1>11 DEF TryAutoPublish, MarkBuildFailed
    <2> QED BY <1>4, <2>1
  <1>12. ASSUME NEW retryable \in BOOLEAN, Requeue(w, retryable) PROVE WorkInv'
    <2> DEFINE t     == j.task
               again == [t EXCEPT !.attempts = @ + 1]
    <2>1. /\ j.pc \in {"failing", "conflict"} /\ UNCHANGED <<res, vt>>
          /\ retryable \/ t.kind = "build"
          /\ job' = [job EXCEPT ![w] = Idle]
          /\ \/ lost' = lost \cup Versioned({t.v}) /\ UNCHANGED queue
             \/ queue' = queue \cup {again} /\ UNCHANGED lost
      BY <1>12 DEF Requeue, Done
    <2>2. again.kind = t.kind /\ again.v = t.v /\ again.sel = t.sel
      BY <1>1, <2>1 DEF Task, Idle
    <2> HIDE DEF again
    <2>3. ASSUME NEW v \in Versions, NEW p \in Providers, AtScan(j, v, p)
          PROVE  v \in lost' \/ \E u \in queue' : Scans(u, v, p)
      BY <2>1, <2>2, <2>3 DEF AtScan, Scans, Versioned
    <2>4. ASSUME NEW v \in Versions, AtPoll(j, v)
          PROVE  v \in lost' \/ \E u \in queue' : Polls(u, v)
      BY <2>1, <2>2, <2>4 DEF AtPoll, Polls, Versioned
    <2> QED BY <1>2, <1>9, <2>1, <2>3, <2>4
  <1>13. CASE Raise(w)
    <2>1. /\ j.pc \in {"building", "built", "scanning", "polling", "notify", "reload", "publish", "finishing"}
          /\ Leave(w, IF j.task.kind = "build" THEN "raised" ELSE "failing")
          /\ lost' = (IF j.pc = "notify" THEN lost \cup Versioned({j.v}) ELSE lost)
          /\ UNCHANGED <<res, vt, queue>>
      BY <1>13 DEF Raise
    <2>2. CASE j.pc = "notify"
      <3> DEFINE label == IF j.task.kind = "build" THEN "raised" ELSE "failing"
                 new   == NewJob(j.task, label, j.v, {})
      <3>1. new.pc \in {"raised", "failing"} /\ job' = [job EXCEPT ![w] = new]
        BY <2>1 DEF NewJob, Leave
      <3> HIDE DEF new
      <3>2. OnTask(new)
        BY <3>1 DEF OnTask
      <3>3. /\ \A v \in Versions, p \in Providers : ~AtScan(j, v, p)
            /\ \A v \in Versions : AtPoll(j, v) => v \in lost'
        BY <2>1, <2>2 DEF AtScan, AtPoll, Versioned
      <3> QED BY <1>2, <2>1, <2>2, <3>1, <3>2, <3>3
    <2>3. CASE j.pc # "notify" /\ j.task.kind # "build"
      <3> DEFINE new == NewJob(j.task, "failing", j.v, {})
      <3>1. job' = [job EXCEPT ![w] = new] /\ lost' = lost /\ j \in Job
        BY <1>1, <2>1, <2>3 DEF Leave, Idle
      <3>2. /\ OnTask(new) /\ \A v, p : AtScan(j, v, p) => AtScan(new, v, p)
            /\ \A v : AtPoll(j, v) => AtPoll(new, v)
        BY <1>1, <2>3, <3>1, LeaveHandsOn
      <3> HIDE DEF new
      <3> QED BY <1>2, <2>1, <3>1, <3>2
    <2>4. CASE j.pc # "notify" /\ j.task.kind = "build"
      <3> DEFINE new == NewJob(j.task, "raised", j.v, {})
      <3>1. job' = [job EXCEPT ![w] = new] /\ lost' = lost /\ new.pc = "raised"
        BY <2>1, <2>4 DEF Leave, NewJob
      <3> HIDE DEF new
      <3>2. OnTask(new) /\ \A v, p : ~AtScan(j, v, p) /\ ~AtPoll(j, v)
        BY <1>1, <2>1, <2>4, <3>1 DEF OnTask, AtScan, AtPoll, Scans
      <3> QED BY <1>2, <2>1, <3>1, <3>2
    <2> QED BY <2>2, <2>3, <2>4
  <1>14. CASE Crash(w)
    <2>1. /\ j # Idle /\ UNCHANGED <<res, vt, queue>> /\ job' = [job EXCEPT ![w] = Idle]
          /\ lost' = lost \cup Versioned({j.v, j.task.v})
      BY <1>14 DEF Crash, Done
    <2>2. /\ \A v \in Versions, p \in Providers : AtScan(j, v, p) => v \in lost'
          /\ \A v \in Versions : AtPoll(j, v) => v \in lost'
      BY <2>1 DEF AtScan, AtPoll, Scans, Polls, Versioned
    <2> QED BY <1>2, <1>9, <2>1, <2>2
  <1> QED BY <1>5, <1>6, <1>7, <1>8, <1>10, <1>11, <1>12, <1>13, <1>14
(* Requests leave every pending result with somebody who answers for it:    *)
(* a rescan withdraws the analysis of the results it makes pending, so that *)
(* polls still on their way have nothing to do, and queues a scan of them.  *)
LEMMA AdminHandsOn == TypeOK /\ WorkInv /\ AdminStep => WorkInv'
  <1> SUFFICES ASSUME TypeOK, WorkInv, AdminStep PROVE WorkInv'
    OBVIOUS
  <1>1. UNCHANGED job /\ queue \subseteq queue' /\ lost \subseteq lost'
    <2>1. ASSUME NEW v \in Versions, NEW s, SetVersionStatus(v, s) \/ SetPluginStatus(s)
          PROVE  UNCHANGED <<job, queue, lost>>
      BY <2>1 DEF SetVersionStatus, SetPluginStatus, Admin
    <2>2. ASSUME NEW v \in Versions, NEW sel, NEW reached, TriggerScan(v, sel, reached)
          PROVE  UNCHANGED job /\ queue \subseteq queue' /\ lost \subseteq lost'
      BY <2>2 DEF TriggerScan, Enqueue
    <2>3. ASSUME NEW v \in Versions, NEW sel,
                 SetLatest(v) \/ Publish(v) \/ DeleteVersion(v) \/ SkipScan(v, sel)
          PROVE  UNCHANGED <<job, queue, lost>>
      BY <2>3 DEF SetLatest, Publish, DeleteVersion, SkipScan, Admin
    <2>4. ASSUME NEW v \in Versions, UploadVersion(v) \/ RequestBuild
          PROVE  UNCHANGED <<job, lost>> /\ queue \subseteq queue'
      BY <2>4 DEF UploadVersion, RequestBuild, Enqueue
    <2>5. CASE RequestBuild
      BY <2>5 DEF RequestBuild, Enqueue
    <2>6. ASSUME NEW s, SetPluginStatus(s) PROVE UNCHANGED <<job, queue, lost>>
      BY <2>6 DEF SetPluginStatus, Admin
    <2>7. ASSUME DeletePlugin \/ \E p \in Toggles : ToggleProvider(p)
          PROVE  UNCHANGED <<job, queue, lost>>
      BY <2>7 DEF DeletePlugin, ToggleProvider
    <2> QED BY <2>1, <2>2, <2>3, <2>4, <2>5, <2>6, <2>7 DEF AdminStep
  <1>2. SUFFICES ASSUME NEW v \in Versions, NEW p \in Providers PROVE Answered(v, p)'
    BY <1>1 DEF WorkInv
  <1>3. /\ Answered(v, p)
        /\ ScanUnderway(v, p) => ScanUnderway(v, p)'
        /\ PollUnderway(v) => PollUnderway(v)'
    BY <1>1 DEF WorkInv, ScanUnderway, PollUnderway
  <1>4. ASSUME res'[v][p] = res[v][p], p = VT => vt'[v].ext = vt[v].ext PROVE Answered(v, p)'
    BY <1>1, <1>3, <1>4 DEF Answered
  <1>5. ASSUME UNCHANGED <<res, vt>> PROVE Answered(v, p)'
    BY <1>4, <1>5
  <1>6. ASSUME res'[v][p] # "pending" PROVE Answered(v, p)'
    BY <1>6 DEF Answered
  <1>7. ASSUME NEW x \in Versions, NEW sel, SkipScan(x, sel) PROVE Answered(v, p)'
    <2>1. CASE v = x /\ p \in sel
      BY <1>6, <1>7, <2>1 DEF SkipScan, TypeOK
    <2>2. CASE ~(v = x /\ p \in sel)
      <3>1. res'[v][p] = res[v][p]
        BY <1>7, <2>2 DEF SkipScan, TypeOK
      <3>2. p = VT => vt'[v] = vt[v]
        BY <1>7, <2>2 DEF SkipScan, TypeOK
      <3> QED BY <1>4, <3>1, <3>2
    <2> QED BY <2>1, <2>2
  <1>8. ASSUME NEW x \in Versions, NEW sel, NEW reached \in BOOLEAN, TriggerScan(x, sel, reached)
        PROVE  Answered(v, p)'
    <2>1. CASE v = x /\ p \in sel
      <3>1. p = VT => vt'[v] = NoAnalysis
        BY <1>8, <2>1 DEF TriggerScan, TypeOK
      <3>2. ~(p = VT /\ vt'[v].ext)
        BY <3>1 DEF NoAnalysis
      <3>3. CASE reached
        <4> DEFINE t == [id |-> issued, kind |-> "scan", v |-> x, sel |-> sel, attempts |-> 0]
        <4>1. t \in queue'
          BY <1>8, <3>3 DEF TriggerScan, Enqueue
        <4>2. Scans(t, v, p)
          BY <2>1 DEF Scans
        <4> HIDE DEF t
        <4>3. ScanUnderway(v, p)'
          BY <4>1, <4>2 DEF ScanUnderway
        <4> QED BY <3>2, <4>3 DEF Answered
      <3>4. CASE ~reached
        <4>1. v \in lost'
          BY <1>8, <2>1, <3>4 DEF TriggerScan
        <4> QED BY <4>1 DEF Answered
      <3> QED BY <3>3, <3>4
    <2>2. CASE ~(v = x /\ p \in sel)
      <3>1. res'[v][p] = res[v][p]
        BY <1>8, <2>2 DEF TriggerScan, TypeOK
      <3>2. p = VT => vt'[v] = vt[v]
        BY <1>8, <2>2 DEF TriggerScan, TypeOK
      <3> QED BY <1>4, <3>1, <3>2
    <2> QED BY <2>1, <2>2
  <1>9. ASSUME NEW x \in Versions, DeleteVersion(x) PROVE Answered(v, p)'
    <2>1. CASE v = x
      BY <1>6, <1>9, <2>1 DEF DeleteVersion, TypeOK, NoResults
    <2>2. CASE v # x
      <3>1. res'[v] = res[v] /\ vt'[v] = vt[v]
        BY <1>9, <2>2 DEF DeleteVersion, TypeOK
      <3> QED BY <1>4, <3>1
    <2> QED BY <2>1, <2>2
  <1>10. CASE DeletePlugin
    BY <1>6, <1>10 DEF DeletePlugin, NoResults
  <1>11. ASSUME NEW x \in Versions, NEW s, SetVersionStatus(x, s) \/ SetLatest(x) \/ Publish(x) \/ UploadVersion(x)
         PROVE  Answered(v, p)'
    BY <1>5, <1>11 DEF SetVersionStatus, SetLatest, Publish, UploadVersion, Admin
  <1>12. ASSUME NEW s, SetPluginStatus(s) PROVE Answered(v, p)'
    BY <1>5, <1>12 DEF SetPluginStatus, Admin
  <1>13. ASSUME RequestBuild \/ \E x \in Toggles : ToggleProvider(x) PROVE Answered(v, p)'
    BY <1>5, <1>13 DEF RequestBuild, ToggleProvider
  <1> QED BY <1>7, <1>8, <1>9, <1>10, <1>11, <1>12, <1>13 DEF AdminStep

(* Whoever answers for a pending result is at work on it. *)
LEMMA AnsweredIsWork == TypeOK /\ WorkInv => PendingHasWork
  <1> SUFFICES ASSUME TypeOK, WorkInv, NEW v \in Versions, NEW p \in Providers,
                      res[v][p] = "pending", v \notin lost
               PROVE  HasWork(v, p)
    BY DEF PendingHasWork
  <1>1. IF p = VT /\ vt[v].ext THEN PollUnderway(v) ELSE ScanUnderway(v, p)
    BY DEF WorkInv, Answered
  <1>2. ASSUME NEW t \in queue, Scans(t, v, p) \/ (p = VT /\ vt[v].ext /\ Polls(t, v))
        PROVE  HasWork(v, p)
    BY <1>2 DEF Scans, Polls, HasWork, TaskSettles
  <1>3. ASSUME NEW w \in Workers, AtScan(job[w], v, p) PROVE HasWork(v, p)
    <2>1. job[w] # Idle /\ OnTask(job[w])
      BY <1>3 DEF AtScan, Idle, WorkInv
    <2>2. JobSettles(job[w], v, p)
      BY <1>3, <2>1 DEF AtScan, Scans, OnTask, JobSettles, TaskSettles
    <2> QED BY <2>1, <2>2 DEF HasWork
  <1>4. ASSUME NEW w \in Workers, AtPoll(job[w], v), p = VT, vt[v].ext PROVE HasWork(v, p)
    <2>1. job[w] # Idle
      BY <1>4 DEF AtPoll, Idle
    <2>2. JobSettles(job[w], v, p)
      BY <1>4 DEF AtPoll, Polls, JobSettles, TaskSettles
    <2> QED BY <2>1, <2>2 DEF HasWork
  <1> QED BY <1>1, <1>2, <1>3, <1>4 DEF ScanUnderway, PollUnderway

(* PendingHasWork: no overlap of rescans, skips, polls, retries, deletions  *)
(* and changed settings leaves a result pending that nobody will settle.    *)
THEOREM PendingIsWorkedOn == Spec => []PendingHasWork
  <1>1. Init => WorkInv
    BY DEF Init, WorkInv, OnTask, Answered, Idle, NoResults
  <1>2. TypeOK /\ WorkInv /\ [Next]_vars => WorkInv'
    <2> SUFFICES ASSUME TypeOK, WorkInv, [Next]_vars PROVE WorkInv'
      OBVIOUS
    <2>1. CASE AdminStep
      BY <2>1, AdminHandsOn
    <2>2. ASSUME NEW w \in Workers, WorkerStep(w) \/ Raise(w) \/ Crash(w) PROVE WorkInv'
      BY <2>2, TakingHandsOn, PollWithoutAskingAnswers, FinishPollAnswers, FinishScanAnswers,
         WorkerHandsOn DEF WorkerStep
    <2>3. CASE UNCHANGED vars
      BY <2>3 DEF vars, WorkInv, Answered, ScanUnderway, PollUnderway
    <2> QED BY <2>1, <2>2, <2>3 DEF Next
  <1>3. TypeOK /\ WorkInv => PendingHasWork
    BY AnsweredIsWork
  <1> QED BY <1>1, <1>2, <1>3, TypeCorrect, PTL DEF Spec
-----------------------------------------------------------------------------
(* Publishing what passed.  A session that gets as far as publishing has    *)
(* set its version to success: this is what makes the gate depend on the    *)
(* results alone.                                                          *)

Built(j) == j.pc \in {"reload", "publish"} => j.build = "success"

PublishersBuilt == \A w \in Workers : Built(job[w])

(* A step of a worker changes no other worker's session. *)
LEMMA MovesOneJob ==
    ASSUME TypeOK, NEW w \in Workers, WorkerStep(w) \/ Raise(w) \/ Crash(w)
    PROVE  \E j : job' = [job EXCEPT ![w] = j]
  <1>1. ASSUME UNCHANGED job PROVE job' = [job EXCEPT ![w] = job[w]]
    BY <1>1 DEF TypeOK
  <1>2. ASSUME NEW t \in queue, StartOnMissing(w, t) \/ StartScan(w, t) \/ StartPoll(w, t)
        PROVE  \E j : job' = [job EXCEPT ![w] = j]
    BY <1>2 DEF StartOnMissing, StartScan, StartPoll
  <1>3. ASSUME NEW t \in queue, NEW v \in Versions, StartBuild(w, t, v)
        PROVE  \E j : job' = [job EXCEPT ![w] = j]
    BY <1>3 DEF StartBuild
  <1>4. ASSUME NEW t \in queue, NEW retried \in BOOLEAN, RefuseBuild(w, t, retried)
        PROVE  \E j : job' = [job EXCEPT ![w] = j]
    BY <1>1, <1>4 DEF RefuseBuild
  <1>5. ASSUME NEW t \in queue, PollNothing(w, t) PROVE \E j : job' = [job EXCEPT ![w] = j]
    BY <1>1, <1>5 DEF PollNothing
  <1>6. ASSUME NEW t \in queue, NEW verdict, PollWithoutAsking(w, t, verdict)
        PROVE  \E j : job' = [job EXCEPT ![w] = j]
    BY <1>6 DEF PollWithoutAsking
  <1>7. ASSUME NEW cached, FinishUpload(w, cached) PROVE \E j : job' = [job EXCEPT ![w] = j]
    BY <1>7 DEF FinishUpload, Conflict, Leave
  <1>8. ASSUME ScanBuilt(w) PROVE \E j : job' = [job EXCEPT ![w] = j]
    BY <1>8 DEF ScanBuilt, Conflict, Leave
  <1>9. ASSUME NEW o, NEW last, FinishScan(w, o, last) PROVE \E j : job' = [job EXCEPT ![w] = j]
    BY <1>9 DEF FinishScan, Conflict, Leave
  <1>10. ASSUME NEW answer, FinishPoll(w, answer) PROVE \E j : job' = [job EXCEPT ![w] = j]
    BY <1>10 DEF FinishPoll, Conflict, Leave
  <1>11. ASSUME NEW cached, Reload(w, cached) PROVE \E j : job' = [job EXCEPT ![w] = j]
    BY <1>11 DEF Reload
  <1>12. ASSUME NotifyPoll(w) \/ Finish(w) \/ TryAutoPublish(w) \/ MarkBuildFailed(w) \/ Raise(w) \/ Crash(w)
                \/ \E retryable \in BOOLEAN : Requeue(w, retryable)
         PROVE  \E j : job' = [job EXCEPT ![w] = j]
    BY <1>12 DEF NotifyPoll, Finish, TryAutoPublish, MarkBuildFailed, Raise, Crash, Requeue, Leave, Done
  <1> QED BY <1>2, <1>3, <1>4, <1>5, <1>6, <1>7, <1>8, <1>9, <1>10, <1>11, <1>12 DEF WorkerStep

(* Only the commit of a scan or poll leads towards publishing, with a       *)
(* version that is a success.                                              *)
LEMMA BuiltInductive == TypeOK /\ PublishersBuilt /\ [Next]_vars => PublishersBuilt'
  <1> SUFFICES ASSUME TypeOK, PublishersBuilt, [Next]_vars PROVE PublishersBuilt'
    OBVIOUS
  <1>1. ASSUME NEW w \in Workers, NEW j, job' = [job EXCEPT ![w] = j], Built(j) PROVE PublishersBuilt'
    <2>1. job'[w] = j /\ \A u \in Workers \ {w} : job'[u] = job[u]
      BY <1>1 DEF TypeOK
    <2> QED BY <1>1, <2>1 DEF PublishersBuilt
  <1>2. CASE UNCHANGED job
    BY <1>2 DEF PublishersBuilt
  <1>3. CASE AdminStep
    <2>1. UNCHANGED job
      BY <1>3 DEF AdminStep, SetPluginStatus, SetVersionStatus, SetLatest, Publish, UploadVersion,
         DeleteVersion, SkipScan, TriggerScan, RequestBuild, DeletePlugin, ToggleProvider, Admin
    <2> QED BY <1>2, <2>1
  <1>4. ASSUME NEW w \in Workers, NEW j, job' = [job EXCEPT ![w] = j], j.pc \notin {"reload", "publish"}
        PROVE  PublishersBuilt'
    BY <1>1, <1>4 DEF Built
  <1>5. ASSUME NEW w \in Workers, NEW label, Leave(w, label), label \notin {"reload", "publish"}
        PROVE  PublishersBuilt'
    BY <1>4, <1>5 DEF Leave, NewJob
  <1>6. ASSUME NEW w \in Workers, NEW t, NEW label, NEW v, NEW sel, label \notin {"reload", "publish"},
               job' = [job EXCEPT ![w] = NewJob(t, label, v, sel)]
        PROVE  PublishersBuilt'
    BY <1>4, <1>6 DEF NewJob
  <1>7. ASSUME NEW w \in Workers, Done(w) PROVE PublishersBuilt'
    BY <1>4, <1>7 DEF Done, Idle
  <1>8. ASSUME NEW w \in Workers, NEW t \in queue, StartOnMissing(w, t) \/ PollNothing(w, t)
        PROVE  PublishersBuilt'
    BY <1>2, <1>6, <1>8 DEF StartOnMissing, PollNothing
  <1>9. ASSUME NEW w \in Workers, NEW t \in queue, StartScan(w, t) PROVE PublishersBuilt'
    <2> DEFINE new == ScanSession(ver[t.v], NewJob(t, "scanning", t.v,
                                     IF t.kind = "scanall" THEN enabled ELSE t.sel))
    <2>1. job' = [job EXCEPT ![w] = new] /\ new.pc = "scanning"
      BY <1>9 DEF StartScan, ScanSession, NewJob
    <2> HIDE DEF new
    <2> QED BY <1>4, <2>1
  <1>10. ASSUME NEW w \in Workers, NEW t \in queue, NEW v \in Versions, StartBuild(w, t, v)
         PROVE  PublishersBuilt'
    <2> DEFINE new == [NewJob(t, "building", v, {}) EXCEPT !.build = "building", !.plug = plugin]
    <2>1. job' = [job EXCEPT ![w] = new] /\ new.pc = "building"
      BY <1>10 DEF StartBuild, NewJob
    <2> HIDE DEF new
    <2> QED BY <1>4, <2>1
  <1>11. ASSUME NEW w \in Workers, NEW t \in queue, NEW retried \in BOOLEAN, RefuseBuild(w, t, retried)
         PROVE  PublishersBuilt'
    BY <1>2, <1>6, <1>11 DEF RefuseBuild
  <1>12. ASSUME NEW w \in Workers, NEW t \in queue, StartPoll(w, t) PROVE PublishersBuilt'
    <2>1. job' = [job EXCEPT ![w] = PollSession(t)] /\ PollSession(t).pc = "polling"
      BY <1>12 DEF StartPoll, PollSession, NewJob
    <2> QED BY <1>4, <2>1
  <1>13. ASSUME NEW w \in Workers, NEW t \in queue, NEW verdict, PollWithoutAsking(w, t, verdict)
         PROVE  PublishersBuilt'
    <2> DEFINE new == [PollSession(t) EXCEPT !.pc = "reload", !.build = "success", !.held[VT] = verdict]
    <2>1. job' = [job EXCEPT ![w] = new] /\ new.build = "success"
      BY <1>13 DEF PollWithoutAsking, PollSession, NewJob
    <2> HIDE DEF new
    <2> QED BY <1>1, <2>1 DEF Built
  <1>14. ASSUME NEW w \in Workers, NEW cached \in BOOLEAN, FinishUpload(w, cached) PROVE PublishersBuilt'
    <2> DEFINE new == [job[w] EXCEPT !.pc = "built", !.build = "success",
                  !.status = ver[job[w].v].status, !.latest = ver[job[w].v].latest,
                  !.held = IF plugin = "active" /\ ~cached THEN Displayed(job[w].v) ELSE @]
    <2>1. new.pc = "built"
      BY <1>14, BusyHasJob DEF FinishUpload, Job
    <2>2. job' = [job EXCEPT ![w] = new] \/ Leave(w, "conflict")
      BY <1>14 DEF FinishUpload, Conflict
    <2> HIDE DEF new
    <2> QED BY <1>4, <1>5, <2>1, <2>2
  <1>15. ASSUME NEW w \in Workers, ScanBuilt(w) PROVE PublishersBuilt'
    BY <1>4, <1>5, <1>15, ScanBuiltJob
  <1>16. ASSUME NEW w \in Workers, NEW o, NEW last, FinishScan(w, o, last) PROVE PublishersBuilt'
    <2> DEFINE new == [job[w] EXCEPT !.pc = "reload", !.build = "success",
                                    !.held = Held(job[w], {last} \cap job[w].sel, o)]
    <2>1. new.build = "success"
      BY <1>16, BusyHasJob DEF FinishScan, Job
    <2>2. job' = [job EXCEPT ![w] = new] \/ Leave(w, "conflict") \/ Leave(w, "notify")
      BY <1>16 DEF FinishScan, Conflict
    <2> HIDE DEF new
    <2> QED BY <1>1, <1>5, <2>1, <2>2 DEF Built
  <1>17. ASSUME NEW w \in Workers, NEW answer, FinishPoll(w, answer) PROVE PublishersBuilt'
    <2> DEFINE verdict == IF answer = "pending" /\ job[w].tries + 1 >= MaxPolls THEN "error" ELSE answer
               new == [job[w] EXCEPT !.pc = "reload", !.build = "success", !.held[VT] = verdict]
    <2>1. new.build = "success"
      BY <1>17, BusyHasJob DEF FinishPoll, Job
    <2>2. job' = [job EXCEPT ![w] = new] \/ Leave(w, "conflict") \/ Leave(w, "notify")
      BY <1>17 DEF FinishPoll, Conflict
    <2> HIDE DEF new
    <2> QED BY <1>1, <1>5, <2>1, <2>2 DEF Built
  <1>18. ASSUME NEW w \in Workers, NEW cached \in BOOLEAN, Reload(w, cached) PROVE PublishersBuilt'
    <2> DEFINE new == [job[w] EXCEPT !.pc = "publish",
                   !.held = IF plugin = "active" /\ Present(job[w].v) /\ ~cached
                            THEN SessionResults(job[w]) ELSE @]
    <2>1. new.build = job[w].build /\ job[w].pc = "reload"
      BY <1>18, BusyHasJob DEF Reload, Job
    <2>2. job' = [job EXCEPT ![w] = new]
      BY <1>18 DEF Reload
    <2> HIDE DEF new
    <2> QED BY <1>1, <2>1, <2>2 DEF Built, PublishersBuilt
  <1>19. ASSUME NEW w \in Workers, NotifyPoll(w) \/ TryAutoPublish(w) \/ MarkBuildFailed(w) \/ Raise(w)
         PROVE  PublishersBuilt'
    BY <1>5, <1>19 DEF NotifyPoll, TryAutoPublish, MarkBuildFailed, Raise
  <1>20. ASSUME NEW w \in Workers, Finish(w) \/ Crash(w) \/ \E retryable \in BOOLEAN : Requeue(w, retryable)
         PROVE  PublishersBuilt'
    BY <1>7, <1>20 DEF Finish, Crash, Requeue
  <1>21. CASE UNCHANGED vars
    BY <1>2, <1>21 DEF vars
  <1> QED BY <1>3, <1>8, <1>9, <1>10, <1>11, <1>12, <1>13, <1>14, <1>15, <1>16, <1>17, <1>18,
             <1>19, <1>20, <1>21 DEF Next, WorkerStep
(* A session that holds no replaced result publishes what passed. *)
LEMMA PublishesPassed ==
    ASSUME TypeOK, NEW w \in Workers, Built(job[w]), EndsPassed(w), UpToDate(w), TryAutoPublish(w)
    PROVE  ver'[job[w].v].latest
  <1> DEFINE j   == job[w]
             v   == j.v
             row == [ver[v] EXCEPT !.latest = TRUE, !.status = Flush(@, j.status, "active"),
                                   !.unaware = (j.plug = "active")]
  <1>1. j.pc = "publish" /\ j.build = "success" /\ job'[w].pc = "finishing"
    BY DEF EndsPassed, Built
  <1>2. v \in Versions /\ ver[v] \in Row
    BY PresentRow DEF EndsPassed
  <1>3. ASSUME NEW p \in enabled PROVE SessionResults(j)[p] = "passed"
    <2>1. res[v][p] = "passed" /\ j.held[p] \in {"unread", "passed"} /\ p \in Providers
      BY DEF EndsPassed, UpToDate, TypeOK
    <2>2. Displayed(v)[p] = "passed"
      BY <2>1 DEF Displayed, Shown
    <2> QED BY <2>1, <2>2 DEF SessionResults
  <1>4. AutoPublishes(j)
    <2>1. BuildReady(j.build, SessionResults(j), FALSE, enabled)
      BY <1>1 DEF BuildReady
    <2>2. ScanPassed(SessionResults(j), FALSE, enabled)
      BY <1>3 DEF ScanPassed, Shown
    <2> QED BY <2>1, <2>2 DEF AutoPublishes, Publishable, EndsPassed
  <1>5. RowOK(row)
    <2> SUFFICES ASSUME ~RowOK(row) PROVE FALSE
      OBVIOUS
    <2>1. Leave(w, "conflict")
      BY <1>4 DEF TryAutoPublish
    <2>2. job'[w].pc = "conflict"
      BY <2>1 DEF Leave, NewJob, TypeOK
    <2> QED BY <1>1, <2>2
  <1>6. ver' = [NoneLatest EXCEPT ![v] = row]
    BY <1>4, <1>5 DEF TryAutoPublish
  <1>7. row.latest
    BY <1>2 DEF Row
  <1> HIDE DEF row
  <1> QED BY <1>2, <1>6, <1>7, NoneLatestType

(* Only publishing takes a session from publishing to its last refresh. *)
LEMMA OnlyPublishingFinishes ==
    ASSUME TypeOK, [Next]_vars, NEW w \in Workers, job[w].pc = "publish", job'[w].pc = "finishing"
    PROVE  TryAutoPublish(w)
  <1>1. job[w] # job'[w] /\ job[w] # Idle /\ job'[w] # Idle
    BY DEF Idle
  <1>2. CASE AdminStep
    <2>1. UNCHANGED job
      BY <1>2 DEF AdminStep, SetPluginStatus, SetVersionStatus, SetLatest, Publish, UploadVersion,
         DeleteVersion, SkipScan, TriggerScan, RequestBuild, DeletePlugin, ToggleProvider, Admin
    <2> QED BY <1>1, <2>1
  <1>3. ASSUME NEW u \in Workers, u # w, WorkerStep(u) \/ Raise(u) \/ Crash(u) PROVE FALSE
    <2>1. PICK j : job' = [job EXCEPT ![u] = j]
      BY <1>3, MovesOneJob
    <2> QED BY <1>1, <1>3, <2>1 DEF TypeOK
  <1>4. CASE WorkerStep(w)
    <2>1. \A t \in queue : ~Takes(w, t)
      BY <1>1 DEF Takes
    <2>2. ASSUME NEW t \in queue
          PROVE  /\ ~StartOnMissing(w, t) /\ ~StartScan(w, t) /\ ~PollNothing(w, t) /\ ~StartPoll(w, t)
                 /\ \A v \in Versions : ~StartBuild(w, t, v)
                 /\ \A retried \in BOOLEAN : ~RefuseBuild(w, t, retried)
                 /\ \A verdict \in {"skipped", "error"} : ~PollWithoutAsking(w, t, verdict)
      BY <2>1 DEF StartOnMissing, StartScan, StartBuild, RefuseBuild, PollNothing, PollWithoutAsking,
         StartPoll
    <2>3. /\ \A cached \in BOOLEAN : ~FinishUpload(w, cached) /\ ~Reload(w, cached)
          /\ ~ScanBuilt(w) /\ job[w].pc # "scanning" /\ ~NotifyPoll(w) /\ ~Finish(w)
          /\ ~MarkBuildFailed(w)
          /\ \A answer : ~FinishPoll(w, answer)
          /\ \A retryable \in BOOLEAN : ~Requeue(w, retryable)
      BY DEF FinishUpload, Reload, ScanBuilt, NotifyPoll, Finish, MarkBuildFailed, FinishPoll, Requeue
    <2> QED BY <1>4, <2>2, <2>3 DEF WorkerStep
  <1>5. CASE Raise(w)
    <2>1. Leave(w, "raised") \/ Leave(w, "failing")
      BY <1>5 DEF Raise
    <2>2. job'[w].pc \in {"raised", "failing"}
      BY <2>1 DEF Leave, NewJob, TypeOK
    <2> QED BY <2>2
  <1>6. CASE Crash(w)
    BY <1>1, <1>6 DEF Crash, Done, TypeOK
  <1>7. CASE UNCHANGED vars
    BY <1>1, <1>7 DEF vars
  <1> QED BY <1>2, <1>3, <1>4, <1>5, <1>6, <1>7 DEF Next

(* PassedIsPublished: builds included, and however scans of a version      *)
(* overlap, only a replaced result in the session keeps a task that ends    *)
(* over passed results from publishing.                                    *)
THEOREM PassedArePublished == Spec => PassedIsPublished
  <1>1. Init => PublishersBuilt
    BY DEF Init, PublishersBuilt, Built, Idle
  <1>2. TypeOK /\ PublishersBuilt /\ [Next]_vars => PublishersBuilt'
    BY BuiltInductive
  <1>3. TypeOK /\ PublishersBuilt /\ [Next]_vars
            => [\A w \in Workers : EndsPassed(w) /\ UpToDate(w) => ver'[job[w].v].latest]_vars
    <2> SUFFICES ASSUME TypeOK, PublishersBuilt, [Next]_vars, NEW w \in Workers,
                        EndsPassed(w), UpToDate(w)
                 PROVE  ver'[job[w].v].latest
      OBVIOUS
    <2>1. TryAutoPublish(w)
      BY OnlyPublishingFinishes DEF EndsPassed
    <2> QED BY <2>1, PublishesPassed DEF PublishersBuilt
  <1> QED BY <1>1, <1>2, <1>3, TypeCorrect, PTL DEF Spec, PassedIsPublished
=============================================================================
