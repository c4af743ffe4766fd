------------------------------ MODULE Artifacts ------------------------------
(* The rows of one plugin's versions and the objects of the bucket that     *)
(* they name.  Rows and objects are written by separate calls, so builds,   *)
(* uploads, scans and deletions meet in between, and any of them may stop.  *)
(*                                                                          *)
(* An object is known by what it contains: the file of an upload, or what   *)
(* is built from a commit under a number.  A commit is a hash of forty      *)
(* digits, of which an object's key has the first seven.  When a version is *)
(* published, and how providers reach their verdict, is in VersionLifecycle. *)
EXTENDS Naturals

CONSTANTS Versions,   \* identities of versions
          Numbers,    \* version numbers
          Commits,    \* commits of the plugin's repository
          Short,      \* the first seven digits of each commit
          Procs,      \* requests and tasks running at a time
          None,       \* no commit, no object, no version
          MaxPlugins, \* bound: times the plugin is created
          MaxFaults   \* bound: processes that stop

Sources == [number : Numbers, commit : Commits \cup {None}]

Digits  == {Short[c] : c \in Commits}

(* build_s3_key_with_layout: the number, and the commit's first digits or   *)
(* the source type.                                                         *)
Keys    == Numbers \X (Digits \cup {"manual_upload", "git_auto"})

(* No source type is written with hexadecimal digits alone. *)
ASSUME ArtifactsAssumption ==
    /\ None \notin Versions \cup Commits \cup Sources \cup Keys \cup Digits
    /\ Digits \cap {"manual_upload", "git_auto"} = {}
    /\ MaxPlugins \in Nat /\ MaxFaults \in Nat

VARIABLES source,  \* number and commit of each version; no commit for an upload
          plugin,  \* which plugin of the key exists, 0 for none
          created, \* plugins created so far (bound)
          rows,    \* the rows of plugin_versions
          bucket,  \* what each object contains
          proc,    \* what each process is doing
          begun,   \* versions that somebody has begun to make
          leaked,  \* history: keys whose object a failure or a race left behind
          undone,  \* history: versions whose deletion stopped halfway
          faults   \* processes that stopped (bound)

vars == <<source, plugin, created, rows, bucket, proc, begun, leaked, undone, faults>>

(* passed is the content of the last scan that passed; served, history, the *)
(* content that had passed when the version was published.                  *)
Contents == Versions \cup Sources \cup {None}
Row  == [status : {"none", "building", "failed", "success"}, plugin : 0..MaxPlugins,
         key : Keys \cup {None}, passed : Contents, served : Contents]
NoRow == [status |-> "none", plugin |-> 0, key |-> None, passed |-> None, served |-> None]

Proc == [pc : {"idle", "put upload", "insert", "put build", "update", "build scan", "scan",
               "delete object", "delete row", "delete objects"},
         version : Versions \cup {None}, plugin : 0..MaxPlugins,
         key : Keys \cup {None}, keys : SUBSET Keys, content : Contents]
Idle == [pc |-> "idle", version |-> None, plugin |-> 0, key |-> None, keys |-> {}, content |-> None]

TypeOK == /\ source \in [Versions -> Sources]
          /\ plugin \in 0..MaxPlugins /\ created \in 0..MaxPlugins
          /\ rows \in [Versions -> Row]
          /\ bucket \in [Keys -> Contents]
          /\ proc \in [Procs -> Proc]
          /\ begun \subseteq Versions
          /\ leaked \subseteq Keys
          /\ undone \subseteq Versions
          /\ faults \in 0..MaxFaults

Init == /\ source \in [Versions -> Sources]
        /\ plugin \in {0, 1} \cap 0..MaxPlugins /\ created = plugin
        /\ rows = [v \in Versions |-> NoRow]
        /\ bucket = [k \in Keys |-> None]
        /\ proc = [p \in Procs |-> Idle]
        /\ begun = {}
        /\ leaked = {}
        /\ undone = {}
        /\ faults = 0

-----------------------------------------------------------------------------
Manual(v)  == source[v].commit = None
Content(v) == IF Manual(v) THEN v ELSE source[v]

(* Variant: the key of a build does not tell commits apart. *)
FinalKey_NoCommit(v) ==
    <<source[v].number, IF Manual(v) THEN "manual_upload" ELSE "git_auto">>

FinalKey(v) ==
    <<source[v].number, IF Manual(v) THEN "manual_upload" ELSE Short[source[v].commit]>>

Placeholder(v) == <<source[v].number, "git_auto">>

Goes(p, q) == proc' = [proc EXCEPT ![p] = q]
Ends(p)    == Goes(p, Idle)

Made(v)    == rows[v].status # "none"
Begins(v)  == v \notin begun /\ begun' = begun \cup {v}

-----------------------------------------------------------------------------
(* Uploads.                                                                 *)

(* upload_plugin: create_plugin, which refuses a key that exists. *)
UploadPlugin(p, v) ==
    /\ proc[p] = Idle /\ Manual(v) /\ Begins(v)
    /\ plugin = 0 /\ created < MaxPlugins
    /\ plugin' = created + 1 /\ created' = created + 1
    /\ Goes(p, [Idle EXCEPT !.pc = "put upload", !.version = v, !.plugin = created + 1])
    /\ UNCHANGED <<source, rows, bucket, leaked, undone, faults>>

(* upload_version: get_plugin *)
UploadVersion(p, v) ==
    /\ proc[p] = Idle /\ Manual(v) /\ Begins(v)
    /\ plugin # 0
    /\ Goes(p, [Idle EXCEPT !.pc = "put upload", !.version = v, !.plugin = plugin])
    /\ UNCHANGED <<source, plugin, created, rows, bucket, leaked, undone, faults>>

(* create_version_from_upload: the object first, *)
PutUpload(p) ==
    LET v == proc[p].version
    IN /\ proc[p].pc = "put upload"
       /\ bucket' = [bucket EXCEPT ![FinalKey(v)] = Content(v)]
       /\ Goes(p, [proc[p] EXCEPT !.pc = "insert", !.key = FinalKey(v)])
       /\ UNCHANGED <<source, plugin, created, rows, begun, leaked, undone, faults>>

(* then the row, unless the plugin is gone. *)
InsertUpload(p) ==
    LET q == proc[p]
    IN /\ q.pc = "insert"
       /\ IF plugin = q.plugin
          THEN /\ rows' = [rows EXCEPT ![q.version] = [NoRow EXCEPT !.status = "success",
                                                          !.plugin = q.plugin, !.key = q.key]]
               /\ UNCHANGED leaked
          ELSE leaked' = leaked \cup {q.key} /\ UNCHANGED rows
       /\ Ends(p)
       /\ UNCHANGED <<source, plugin, created, bucket, begun, undone, faults>>

-----------------------------------------------------------------------------
(* Builds.                                                                  *)

BuiltCommit(v) == \E w \in Versions \ {v} :
                    /\ rows[w].key = FinalKey(w) /\ ~Manual(w)
                    /\ source[w].commit = source[v].commit

(* build_from_repo, with the clone done: the commit is not built yet, and   *)
(* the row is made under a key that has no object.                          *)
StartBuild(p, v) ==
    /\ proc[p] = Idle /\ ~Manual(v) /\ Begins(v)
    /\ plugin # 0 /\ ~BuiltCommit(v)
    /\ rows' = [rows EXCEPT ![v] = [NoRow EXCEPT !.status = "building", !.plugin = plugin,
                                                 !.key = Placeholder(v)]]
    /\ Goes(p, [Idle EXCEPT !.pc = "put build", !.version = v, !.plugin = plugin])
    /\ UNCHANGED <<source, plugin, created, bucket, leaked, undone, faults>>

(* Variant: an upload that fails is taken for done. *)
PutBuild_Lossy(p) ==
    LET v == proc[p].version
    IN /\ proc[p].pc = "put build"
       /\ \E stored \in {Content(v), None} : bucket' = [bucket EXCEPT ![FinalKey(v)] = stored]
       /\ Goes(p, [proc[p] EXCEPT !.pc = "update", !.key = FinalKey(v)])
       /\ UNCHANGED <<source, plugin, created, rows, begun, leaked, undone, faults>>

(* _create_zip, upload_file *)
PutBuild(p) ==
    LET v == proc[p].version
    IN /\ proc[p].pc = "put build"
       /\ bucket' = [bucket EXCEPT ![FinalKey(v)] = Content(v)]
       /\ Goes(p, [proc[p] EXCEPT !.pc = "update", !.key = FinalKey(v)])
       /\ UNCHANGED <<source, plugin, created, rows, begun, leaked, undone, faults>>

(* The except block of build_from_repo. *)
Failed(v) == rows' = IF Made(v) THEN [rows EXCEPT ![v].status = "failed"] ELSE rows

(* update_version_after_build: the row may have been deleted, and another   *)
(* row may have the commit by now, by the unique index.  Such a commit      *)
(* fails, and the session can then not write that the build failed.  The    *)
(* scan that follows a commit reads the local file.                         *)
UpdateBuild(p) ==
    LET q == proc[p]
        v == q.version
    IN /\ q.pc = "update"
       /\ IF Made(v) /\ ~BuiltCommit(v)
          THEN /\ rows' = [rows EXCEPT ![v].status = "success", ![v].key = q.key]
               /\ Goes(p, [q EXCEPT !.pc = "build scan", !.content = Content(v)])
               /\ UNCHANGED leaked
          ELSE /\ leaked' = leaked \cup {q.key}
               /\ Ends(p)
               /\ UNCHANGED rows
       /\ UNCHANGED <<source, plugin, created, bucket, begun, undone, faults>>

(* The size limit, the bucket, the database or, after the update, the scan  *)
(* raised.  What the database refused leaves the row as it is.              *)
BuildFails(p) ==
    LET q == proc[p]
    IN /\ q.pc \in {"put build", "update", "build scan"}
       /\ Failed(q.version) \/ (q.pc # "put build" /\ UNCHANGED rows)
       /\ leaked' = IF q.pc = "update" THEN leaked \cup {q.key} ELSE leaked
       /\ Ends(p)
       /\ UNCHANGED <<source, plugin, created, bucket, begun, undone, faults>>

-----------------------------------------------------------------------------
(* Scans, skips and publishing.                                             *)

(* A scan task downloads what the row names, or finds no object there.  It  *)
(* lasts until the last answer is in, that of a later poll included.  The   *)
(* code may mark the row as scanning for that time, which only forbids more *)
(* than is forbidden here.                                                  *)
StartScan(p, v) ==
    /\ proc[p] = Idle /\ Made(v)
    /\ Goes(p, [Idle EXCEPT !.pc = "scan", !.version = v, !.content = bucket[rows[v].key]])
    /\ UNCHANGED <<source, plugin, created, rows, bucket, begun, leaked, undone, faults>>

(* scan_version, the commit: what has a key and a URL is marked as built,   *)
(* whatever the outcome, and without an object the outcome is an error.     *)
FinishScan(p, passed) ==
    LET v == proc[p].version
    IN /\ proc[p].pc \in {"scan", "build scan"}
       /\ rows' = IF Made(v)
                  THEN [rows EXCEPT ![v].status = "success",
                                    ![v].passed = IF passed THEN proc[p].content ELSE None]
                  ELSE rows
       /\ Ends(p)
       /\ UNCHANGED <<source, plugin, created, bucket, begun, leaked, undone, faults>>

(* mark_scan_skipped: the same mark, and no content was looked at. *)
SkipScan(v) ==
    /\ Made(v)
    /\ rows' = [rows EXCEPT ![v].status = "success", ![v].passed = None]
    /\ UNCHANGED <<source, plugin, created, bucket, proc, begun, leaked, undone, faults>>

(* publish_plugin_version.  A scan that was skipped lets a version be       *)
(* published too, of which nothing is said here.                            *)
Publish(v) ==
    /\ rows[v].status = "success" /\ rows[v].passed # None
    /\ rows' = [rows EXCEPT ![v].served = rows[v].passed]
    /\ UNCHANGED <<source, plugin, created, bucket, proc, begun, leaked, undone, faults>>

-----------------------------------------------------------------------------
(* Deletions.                                                               *)

(* delete_version *)
DeleteVersion(p, v) ==
    /\ proc[p] = Idle /\ Made(v)
    /\ Goes(p, [Idle EXCEPT !.pc = "delete object", !.version = v, !.key = rows[v].key])
    /\ UNCHANGED <<source, plugin, created, rows, bucket, begun, leaked, undone, faults>>

(* Variant: the object is left where it is. *)
DeleteObject_Keeps(p) ==
    /\ proc[p].pc = "delete object"
    /\ Goes(p, [proc[p] EXCEPT !.pc = "delete row"])
    /\ UNCHANGED <<source, plugin, created, rows, bucket, begun, leaked, undone, faults>>

(* delete_file *)
DeleteObject(p) ==
    /\ proc[p].pc = "delete object"
    /\ bucket' = [bucket EXCEPT ![proc[p].key] = None]
    /\ Goes(p, [proc[p] EXCEPT !.pc = "delete row"])
    /\ UNCHANGED <<source, plugin, created, rows, begun, leaked, undone, faults>>

(* The row goes by its identity, under whatever key it has by now. *)
DeleteRow(p) ==
    LET v == proc[p].version
    IN /\ proc[p].pc = "delete row"
       /\ rows' = [rows EXCEPT ![v] = NoRow]
       /\ leaked' = IF rows[v].key \in {proc[p].key, None} THEN leaked
                    ELSE leaked \cup {rows[v].key}
       /\ Ends(p)
       /\ UNCHANGED <<source, plugin, created, bucket, begun, undone, faults>>

OfPlugin(g) == {v \in Versions : Made(v) /\ rows[v].plugin = g}

(* delete_plugin: the keys are read at once, *)
DeletePlugin(p) ==
    /\ proc[p] = Idle /\ plugin # 0
    /\ Goes(p, [Idle EXCEPT !.pc = "delete objects", !.plugin = plugin,
                            !.keys = {rows[v].key : v \in OfPlugin(plugin)}])
    /\ UNCHANGED <<source, plugin, created, rows, bucket, begun, leaked, undone, faults>>

(* the objects deleted one after the other, *)
DeletePluginObject(p, key) ==
    /\ proc[p].pc = "delete objects" /\ key \in proc[p].keys
    /\ bucket' = [bucket EXCEPT ![key] = None]
    /\ Goes(p, [proc[p] EXCEPT !.keys = @ \ {key}])
    /\ UNCHANGED <<source, plugin, created, rows, begun, leaked, undone, faults>>

(* and the rows there are by then go with the plugin, if it is still there. *)
DeletePluginRows(p) ==
    LET g == proc[p].plugin
    IN /\ proc[p].pc = "delete objects" /\ proc[p].keys = {}
       /\ rows' = [v \in Versions |-> IF v \in OfPlugin(g) THEN NoRow ELSE rows[v]]
       /\ plugin' = IF plugin = g THEN 0 ELSE plugin
       /\ leaked' = leaked \cup {rows[v].key : v \in {w \in OfPlugin(g) : bucket[rows[w].key] # None}}
       /\ Ends(p)
       /\ UNCHANGED <<source, created, bucket, begun, undone, faults>>

-----------------------------------------------------------------------------
(* A process stops where it is, or a call of it fails. *)
Stop(p) ==
    LET q == proc[p]
    IN /\ q.pc # "idle"
       /\ faults < MaxFaults /\ faults' = faults + 1
       /\ leaked' = IF q.pc \in {"insert", "update"} THEN leaked \cup {q.key} ELSE leaked
       /\ undone' = undone \cup (CASE q.pc = "delete row"     -> {q.version}
                                   [] q.pc = "delete objects" -> begun
                                   [] OTHER                   -> {})
       /\ Ends(p)
       /\ UNCHANGED <<source, plugin, created, rows, bucket, begun>>

Next == \/ \E p \in Procs :
              \/ \E v \in Versions : \/ UploadPlugin(p, v) \/ UploadVersion(p, v) \/ StartBuild(p, v)
                                     \/ StartScan(p, v) \/ DeleteVersion(p, v)
              \/ PutUpload(p) \/ InsertUpload(p)
              \/ PutBuild(p) \/ UpdateBuild(p) \/ BuildFails(p)
              \/ \E passed \in BOOLEAN : FinishScan(p, passed)
              \/ DeleteObject(p) \/ DeleteRow(p)
              \/ DeletePlugin(p) \/ DeletePluginRows(p)
              \/ \E key \in Keys : DeletePluginObject(p, key)
              \/ Stop(p)
        \/ \E v \in Versions : SkipScan(v) \/ Publish(v)

Spec == Init /\ [][Next]_vars

-----------------------------------------------------------------------------
(* Properties.                                                              *)

(* Other versions of the number, gone or not, that were uploaded like v, or *)
(* built like v from a commit with the same seven digits.                   *)
Origin(v)  == IF Manual(v) THEN None ELSE Short[source[v].commit]
Sharing(v) == {w \in begun \ {v} : source[w].number = source[v].number /\ Origin(w) = Origin(v)}

(* Users download what passed the scan: the object of a published version   *)
(* is not replaced after it was scanned, unless another one of its number   *)
(* and other content takes its place: both were uploaded by hand, or both   *)
(* built, and the first seven digits of their commits are the same.         *)
ServedAsScanned ==
    \A v \in Versions :
        rows[v].served # None /\ bucket[rows[v].key] \notin {rows[v].served, None} =>
            \E w \in Sharing(v) : Content(w) # Content(v)

(* A version that is built has its object, unless its deletion is under way *)
(* or was cut short, or another version with the same key was deleted.  The *)
(* placeholder that a scan or a skip may have marked as built has none.     *)
BuiltHasObject ==
    \A v \in Versions :
        rows[v].status = "success" /\ rows[v].key = FinalKey(v) /\ bucket[FinalKey(v)] = None =>
            \/ Sharing(v) # {}
            \/ v \in undone
            \/ \E p \in Procs : \/ proc[p].pc = "delete row" /\ proc[p].version = v
                                \/ proc[p].pc = "delete objects" /\ proc[p].plugin = rows[v].plugin

(* The bucket does not fill with objects that no row names: what is left    *)
(* behind was being stored when its process failed, or while its version or *)
(* its plugin was being deleted.                                            *)
NoOrphans ==
    \A key \in Keys :
        bucket[key] # None =>
            \/ key \in leaked
            \/ \E v \in Versions : Made(v) /\ rows[v].key = key
            \/ \E p \in Procs : proc[p].pc \in {"insert", "update"} /\ proc[p].key = key
=============================================================================
