----------------------------- MODULE RepoImport -----------------------------
(* From a repository to a version: a user submits a repository, reviewers   *)
(* preview it and decide, and an accepted one is imported by a task that    *)
(* clones it twice, once for its metadata and once to build it.  Meanwhile  *)
(* the owner of the repository pushes.                                      *)
(*                                                                          *)
(* A commit is a repository and a position in its history, and its content  *)
(* is what metadata.yaml says.  A ref is a commit, or Tip for a branch, a  *)
(* tag or the default: whatever moves.  Deleting plugins and versions is in *)
(* VersionLifecycle and Artifacts.                                          *)
EXTENDS Naturals, Sequences, FiniteSets

CONSTANTS Repos,       \* repositories
          Metas,       \* contents of metadata.yaml: [key, author, version]
          Submissions, \* identities of submission requests
          Reviewers,   \* reviewers, one request each at a time
          Imports,     \* identities of imports that a reviewer starts directly
          Retries,     \* identities of tasks that an administrator copies
          Tip,        \* a ref that moves
          None,        \* no submission, no version given, nothing yet
          MaxCommits,  \* bound: commits of a repository
          MaxAttempts, \* TASK_MAX_ATTEMPTS
          MaxFaults    \* bound: requests and workers that stop

Keys    == {m.key : m \in Metas}
Labels  == {m.version : m \in Metas}
Authors == {m.author : m \in Metas}
Commits == Repos \X (1..MaxCommits)
Refs    == Commits \cup {Tip}

(* An acceptance is the task of its submission and its reviewer, who finds  *)
(* a submission pending only once.                                          *)
Accepting == Submissions \X Reviewers
Tasks     == Accepting \cup Imports \cup Retries

ASSUME RepoImportAssumption ==
    /\ Metas \subseteq [key : Keys, author : Authors, version : Labels]
    /\ Metas # {} /\ IsFiniteSet(Metas)
    /\ Tip \notin Commits
    /\ None \notin Submissions \cup Repos /\ None \notin Commits
    /\ None \notin Metas /\ None \notin Labels \cup Authors
    /\ Imports \cap Accepting = {} /\ Retries \cap (Accepting \cup Imports) = {}
    /\ MaxCommits \in Nat \ {0} /\ MaxAttempts \in Nat \ {0} /\ MaxFaults \in Nat

VARIABLES redis,    \* whether tasks are queued, or run by the process that made them
          history,  \* the commits of each repository
          subs,     \* the rows of plugin_submission_requests
          request,  \* what each reviewer's request is doing
          preview,  \* the answer of an inspection (bound: the first one)
          task,     \* the import tasks
          plugins,  \* the rows of plugins
          versions, \* the rows of plugin_versions that were built from a commit
          faults    \* requests and workers that stopped (bound)

vars == <<redis, history, subs, request, preview, task, plugins, versions, faults>>

(* overlap and cut are history: two requests had the pending row loaded at  *)
(* a time; the request that accepted it stopped before making the task.     *)
Submission == [status : {"none", "pending_review", "accepted", "rejected", "duplicate"},
               repo : Repos \cup {None}, ref : Refs, overlap : BOOLEAN, cut : BOOLEAN]
NotMade    == [status |-> "none", repo |-> None, ref |-> Tip, overlap |-> FALSE, cut |-> FALSE]

Request == [pc : {"idle", "decide", "enqueue", "metadata", "match"},
            sub : Submissions \cup {None}, decision : {"accepted", "rejected", "duplicate"},
            commit : Commits \cup {None}, meta : Metas \cup {None}]
Idle    == [pc |-> "idle", sub |-> None, decision |-> "rejected", commit |-> None, meta |-> None]

(* pushed, sub and again are history: somebody pushed since the first       *)
(* clone; the submission whose acceptance it carries out; it is a second    *)
(* try, of the queue or of an administrator.                               *)
Task     == [pc : {"none", "queued", "find", "recheck", "insert", "build", "store", "scan",
                   "done", "dead", "lost"},
             repo : Repos \cup {None}, ref : Refs, version : Labels \cup {None},
             attempts : 0..MaxAttempts, meta : Metas \cup {None}, commit : Commits \cup {None},
             pushed : BOOLEAN, sub : Submissions \cup {None}, again : BOOLEAN]
NotTask  == [pc |-> "none", repo |-> None, ref |-> Tip, version |-> None, attempts |-> 0,
             meta |-> None, commit |-> None, pushed |-> FALSE, sub |-> None, again |-> FALSE]

Plugin   == [repo : Repos \cup {None}, author : Authors \cup {None}]
NoPlugin == [repo |-> None, author |-> None]

(* Of the fields only key, label and commit are stored; the others are      *)
(* history, the task that built the version.                                *)
Version  == [key : Keys, label : Labels, commit : Commits,
             ref : Refs, given : BOOLEAN, repo : Repos, pushed : BOOLEAN,
             sub : Submissions \cup {None}, again : BOOLEAN]

Preview  == [commit : Commits, meta : Metas,
             status : {"new_plugin", "new_commit", "duplicate_commit"}]

TypeOK == /\ redis \in BOOLEAN
          /\ history \in [Repos -> UNION {[1..n -> Metas] : n \in 1..MaxCommits}]
          /\ subs \in [Submissions -> Submission]
          /\ request \in [Reviewers -> Request]
          /\ preview \in Preview \cup {None}
          /\ task \in [Tasks -> Task]
          /\ plugins \in [Keys -> Plugin]
          /\ versions \subseteq Version
          /\ faults \in 0..MaxFaults

Init == /\ redis \in BOOLEAN
        /\ history \in [Repos -> {<<m>> : m \in Metas}]
        /\ subs = [s \in Submissions |-> NotMade]
        /\ request = [v \in Reviewers |-> Idle]
        /\ preview = None
        /\ task = [t \in Tasks |-> NotTask]
        /\ plugins = [k \in Keys |-> NoPlugin]
        /\ versions = {}
        /\ faults = 0

-----------------------------------------------------------------------------
(* GitHub.                                                                  *)

Content(c) == history[c[1]][c[2]]

(* The commits a clone of repo at ref can end up on: one or none. *)
Checkout(repo, ref) ==
    IF ref = Tip THEN {<<repo, Len(history[repo])>>}
    ELSE {c \in {ref} : c[1] = repo /\ c[2] \in DOMAIN history[repo]}

Push(repo, m) ==
    /\ Len(history[repo]) < MaxCommits
    /\ history' = [history EXCEPT ![repo] = Append(@, m)]
    /\ task' = [t \in Tasks |-> IF task[t].pc \in {"find", "recheck", "insert", "build"}
                                THEN [task[t] EXCEPT !.pushed = TRUE] ELSE task[t]]
    /\ UNCHANGED <<redis, subs, request, preview, plugins, versions, faults>>

-----------------------------------------------------------------------------
(* Submissions and their review.                                            *)

(* create_submission_request.  Nobody asks GitHub: the ref may not exist.   *)
CreateSubmission(s, repo, ref) ==
    /\ subs[s] = NotMade
    /\ subs' = [subs EXCEPT ![s] = [NotMade EXCEPT !.status = "pending_review",
                                                   !.repo = repo, !.ref = ref]]
    /\ UNCHANGED <<redis, history, request, preview, task, plugins, versions, faults>>

(* Variant: the decision does not look at the status. *)
Undecided_Any(s) == subs[s].status # "none"

(* mark_submission_decision refuses what has been processed, by the row as  *)
(* get_submission_request loaded it.                                        *)
Undecided(s) == subs[s].status = "pending_review"

Deciding(s) == {v \in Reviewers : request[v].pc = "decide" /\ request[v].sub = s}

(* get_submission_request, for any of the three decisions. *)
LoadSubmission(v, s, decision) ==
    /\ request[v] = Idle
    /\ Undecided(s)
    /\ request' = [request EXCEPT ![v] = [Idle EXCEPT !.pc = "decide", !.sub = s,
                                                      !.decision = decision]]
    /\ subs' = [subs EXCEPT ![s].overlap = @ \/ Deciding(s) # {}]
    /\ UNCHANGED <<redis, history, preview, task, plugins, versions, faults>>

(* mark_submission_decision: the commit. *)
MarkSubmissionDecision(v) ==
    /\ request[v].pc = "decide"
    /\ subs' = [subs EXCEPT ![request[v].sub].status = request[v].decision]
    /\ request' = [request EXCEPT ![v] = IF @.decision = "accepted"
                                         THEN [@ EXCEPT !.pc = "enqueue"] ELSE Idle]
    /\ UNCHANGED <<redis, history, preview, task, plugins, versions, faults>>

(* Variant: without Redis, submit tasks are forgotten. *)
EnqueueOrFallback_Forgets(t, repo, ref, version, sub) ==
    task' = IF redis THEN [task EXCEPT ![t] = [NotTask EXCEPT !.pc = "queued", !.repo = repo,
                                                !.ref = ref, !.version = version, !.sub = sub]]
            ELSE task

(* _enqueue_or_fallback: in Redis, or as a background task of the process. *)
EnqueueOrFallback(t, repo, ref, version, sub) ==
    task' = [task EXCEPT ![t] = [NotTask EXCEPT !.pc = "queued", !.repo = repo, !.ref = ref,
                                                !.version = version, !.sub = sub]]

(* accept_submission_endpoint, after the decision. *)
EnqueueAccepted(v) ==
    LET s == request[v].sub
    IN /\ request[v].pc = "enqueue"
       /\ EnqueueOrFallback(<<s, v>>, subs[s].repo, subs[s].ref, None, s)
       /\ request' = [request EXCEPT ![v] = Idle]
       /\ UNCHANGED <<redis, history, subs, preview, plugins, versions, faults>>

(* submit_plugin, which does not look at the repository either. *)
SubmitPlugin(t, repo, ref, version) ==
    /\ task[t] = NotTask
    /\ EnqueueOrFallback(t, repo, ref, version, None)
    /\ UNCHANGED <<redis, history, subs, request, preview, plugins, versions, faults>>

(* A request ends early: its process stops, or the database fails it. *)
StopRequest(v) ==
    /\ request[v] # Idle
    /\ faults < MaxFaults /\ faults' = faults + 1
    /\ subs' = IF request[v].pc = "enqueue" THEN [subs EXCEPT ![request[v].sub].cut = TRUE]
               ELSE subs
    /\ request' = [request EXCEPT ![v] = Idle]
    /\ UNCHANGED <<redis, history, preview, task, plugins, versions>>

-----------------------------------------------------------------------------
(* The preview: inspect_repo and resolve_ref settle on a commit, and ask    *)
(* for the metadata of that commit.                                         *)

ResolveRef(v, repo, ref) ==
    /\ request[v] = Idle
    /\ preview = None
    /\ \E c \in Checkout(repo, ref) :
          request' = [request EXCEPT ![v] = [Idle EXCEPT !.pc = "metadata", !.commit = c]]
    /\ UNCHANGED <<redis, history, subs, preview, task, plugins, versions, faults>>

(* Variant: the metadata is that of the branch, whatever it holds by now. *)
FetchMetadata_OfBranch(v) ==
    LET c == request[v].commit
    IN /\ request[v].pc = "metadata"
       /\ request' = [request EXCEPT ![v].pc = "match",
                                     ![v].meta = Content(<<c[1], Len(history[c[1]])>>)]
       /\ UNCHANGED <<redis, history, subs, preview, task, plugins, versions, faults>>

FetchMetadata(v) ==
    /\ request[v].pc = "metadata"
    /\ request' = [request EXCEPT ![v].pc = "match", ![v].meta = Content(request[v].commit)]
    /\ UNCHANGED <<redis, history, subs, preview, task, plugins, versions, faults>>

Built(key, c) == \E x \in versions : x.key = key /\ x.commit = c

(* _match_repo_metadata, and the answer. *)
MatchRepoMetadata(v) ==
    LET q == request[v]
    IN /\ q.pc = "match"
       /\ preview' = [commit |-> q.commit, meta |-> q.meta,
                      status |-> IF plugins[q.meta.key] = NoPlugin THEN "new_plugin"
                                 ELSE IF Built(q.meta.key, q.commit) THEN "duplicate_commit"
                                 ELSE "new_commit"]
       /\ request' = [request EXCEPT ![v] = Idle]
       /\ UNCHANGED <<redis, history, subs, task, plugins, versions, faults>>

-----------------------------------------------------------------------------
(* submit_repo, run by a worker or in the background.                       *)

Goes(t, pc) == task' = [task EXCEPT ![t].pc = pc]

(* The run is over: what it had read is gone, and its payload remains. *)
Ended(q, pc) == [q EXCEPT !.pc = pc, !.meta = None, !.commit = None, !.pushed = FALSE]
Ends(t, pc)  == task' = [task EXCEPT ![t] = Ended(@, pc)]

(* A RegistryError is not retried, and neither is a background task. *)
Refused(t) == Ends(t, "dead")

(* What the payload holds starts from the beginning. *)
Copy(q, attempts) ==
    [NotTask EXCEPT !.pc = "queued", !.repo = q.repo, !.ref = q.ref, !.version = q.version,
                    !.attempts = attempts, !.sub = q.sub, !.again = TRUE]

(* requeue_task, for any other exception. *)
Raised(t) ==
    LET q == task[t]
    IN task' = [task EXCEPT ![t] = IF redis /\ q.attempts + 1 < MaxAttempts
                                   THEN Copy(q, q.attempts + 1)
                                   ELSE Ended(q, "dead")]

(* retry_task_endpoint: any task with a row that does not say it is running *)
(* is copied, whatever it has done.                                        *)
RetryTask(t, u) ==
    /\ redis /\ task[t].pc \in {"queued", "done", "dead"}
    /\ task[u] = NotTask
    /\ task' = [task EXCEPT ![u] = Copy(task[t], 0)]
    /\ UNCHANGED <<redis, history, subs, request, preview, plugins, versions, faults>>

Running(t) == task[t].pc \in {"find", "recheck", "insert", "build", "store", "scan"}

(* GitHub, the bucket, the database or a provider failed, or timed out. *)
RunFails(t) ==
    /\ Running(t) \/ task[t].pc = "queued"
    /\ Raised(t)
    /\ UNCHANGED <<redis, history, subs, request, preview, plugins, versions, faults>>

(* The process stops, and the task it had taken is gone. *)
Crash(t) ==
    /\ Running(t)
    /\ faults < MaxFaults /\ faults' = faults + 1
    /\ Ends(t, "lost")
    /\ UNCHANGED <<redis, history, subs, request, preview, plugins, versions>>

(* Variant: the first clone takes the default branch. *)
FirstClone_Default(t) ==
    /\ task[t].pc = "queued"
    /\ \E c \in Checkout(task[t].repo, Tip) :
          task' = [task EXCEPT ![t].pc = "find", ![t].meta = Content(c)]
    /\ UNCHANGED <<redis, history, subs, request, preview, plugins, versions, faults>>

(* preflight_repo_size, clone_repo and parse_metadata_yaml *)
FirstClone(t) ==
    /\ task[t].pc = "queued"
    /\ \E c \in Checkout(task[t].repo, task[t].ref) :
          task' = [task EXCEPT ![t].pc = "find", ![t].meta = Content(c)]
    /\ UNCHANGED <<redis, history, subs, request, preview, plugins, versions, faults>>

(* assert_metadata_matches_plugin *)
Matches(m, key) == m.key = key /\ m.author = plugins[key].author

FindPlugin(t) ==
    LET m == task[t].meta
    IN /\ task[t].pc = "find"
       /\ IF plugins[m.key] = NoPlugin THEN Goes(t, "recheck")
          ELSE IF Matches(m, m.key) THEN Goes(t, "build")
          ELSE Refused(t)
       /\ UNCHANGED <<redis, history, subs, request, preview, plugins, versions, faults>>

(* create_plugin looks again, and refuses a key that exists by then. *)
RecheckPlugin(t) ==
    /\ task[t].pc = "recheck"
    /\ IF plugins[task[t].meta.key] = NoPlugin THEN Goes(t, "insert") ELSE Refused(t)
    /\ UNCHANGED <<redis, history, subs, request, preview, plugins, versions, faults>>

(* create_plugin: the insert, which the unique key may refuse. *)
InsertPlugin(t) ==
    LET m == task[t].meta
    IN /\ task[t].pc = "insert"
       /\ IF plugins[m.key] = NoPlugin
          THEN /\ plugins' = [plugins EXCEPT ![m.key] = [repo |-> task[t].repo, author |-> m.author]]
               /\ Goes(t, "build")
          ELSE Raised(t) /\ UNCHANGED plugins
       /\ UNCHANGED <<redis, history, subs, request, preview, versions, faults>>

(* Variant: the repository that was submitted is built. *)
BuildSource_Submitted(t) == task[t].repo

(* build_from_repo clones the repository of the plugin. *)
BuildSource(t) == plugins[task[t].meta.key].repo

(* The second clone, and what is checked before a row is made.  A label     *)
(* that differs from the metadata of the clone is written into its file.    *)
BuildClone(t) ==
    LET key == task[t].meta.key
    IN /\ task[t].pc = "build"
       /\ \E c \in Checkout(BuildSource(t), task[t].ref) :
             IF Matches(Content(c), key) /\ ~Built(key, c)
             THEN task' = [task EXCEPT ![t].pc = "store", ![t].commit = c]
             ELSE Refused(t)
       /\ UNCHANGED <<redis, history, subs, request, preview, plugins, versions, faults>>

(* _create_zip, of a release that is too large. *)
PackFails(t) ==
    /\ task[t].pc = "store"
    /\ Refused(t)
    /\ UNCHANGED <<redis, history, subs, request, preview, plugins, versions, faults>>

(* The artifact is uploaded and update_version_after_build commits, unless  *)
(* another task has built the commit: the index is unique.                  *)
StoreVersion(t) ==
    LET q == task[t]
    IN /\ q.pc = "store"
       /\ IF Built(q.meta.key, q.commit) THEN Raised(t) /\ UNCHANGED versions
          ELSE /\ versions' = versions \cup
                    {[key |-> q.meta.key,
                      label |-> IF q.version = None THEN q.meta.version ELSE q.version,
                      commit |-> q.commit, ref |-> q.ref, given |-> q.version # None,
                      repo |-> q.repo, pushed |-> q.pushed, sub |-> q.sub, again |-> q.again]}
               /\ Goes(t, "scan")
       /\ UNCHANGED <<redis, history, subs, request, preview, plugins, faults>>

(* scan_version returned. *)
EndImport(t) ==
    /\ task[t].pc = "scan"
    /\ Ends(t, "done")
    /\ UNCHANGED <<redis, history, subs, request, preview, plugins, versions, faults>>

-----------------------------------------------------------------------------
TaskStep(t) == \/ RunFails(t) \/ FirstClone(t) \/ FindPlugin(t) \/ RecheckPlugin(t)
               \/ InsertPlugin(t) \/ BuildClone(t) \/ PackFails(t) \/ StoreVersion(t)
               \/ EndImport(t)

Next == \/ \E repo \in Repos, m \in Metas : Push(repo, m)
        \/ \E repo \in Repos, ref \in Refs :
              \/ \E s \in Submissions : CreateSubmission(s, repo, ref)
              \/ \E t \in Imports, version \in Labels \cup {None} : SubmitPlugin(t, repo, ref, version)
              \/ \E v \in Reviewers : ResolveRef(v, repo, ref)
        \/ \E v \in Reviewers :
              \/ \E s \in Submissions, decision \in {"accepted", "rejected", "duplicate"} :
                    LoadSubmission(v, s, decision)
              \/ MarkSubmissionDecision(v)
              \/ EnqueueAccepted(v)
              \/ FetchMetadata(v)
              \/ MatchRepoMetadata(v)
              \/ StopRequest(v)
        \/ \E t \in Tasks : TaskStep(t) \/ Crash(t) \/ \E u \in Retries : RetryTask(t, u)

Spec == Init /\ [][Next]_vars

-----------------------------------------------------------------------------
(* Properties.                                                              *)

VersionsFor(s) == {x \in versions : x.sub = s}

(* A submission becomes a version only when it was accepted, and one        *)
(* version unless its ref moves: a task that starts again, because it       *)
(* failed after it had built or because an administrator asked, builds what *)
(* the ref shows by then.  Reviewers who had both found a submission        *)
(* pending, and decided at the same time, can have a rejected one imported, *)
(* and a moving one twice.                                                 *)
ImportedOnAcceptance ==
    \A s \in Submissions :
        /\ VersionsFor(s) # {} => subs[s].status = "accepted" \/ subs[s].overlap
        /\ \A x, y \in VersionsFor(s) :
              x # y => subs[s].ref = Tip /\ (subs[s].overlap \/ x.again \/ y.again)

(* Whatever repository is submitted under the key of a plugin, versions are *)
(* built from the repository that the plugin was created from, out of       *)
(* content that carries its key and its author, and no commit twice.        *)
BuiltFromPluginsRepository ==
    \A x \in versions :
        /\ x.commit[1] = plugins[x.key].repo
        /\ Matches(Content(x.commit), x.key)
        /\ \A y \in versions : y.key = x.key /\ y.commit = x.commit => y = x

(* A version is labelled with what its own content says, unless a label was *)
(* given, or the ref moves and somebody pushed between the two clones, or   *)
(* the label was read from another repository than the one that was built.  *)
(* A pinned commit is never mislabelled.                                    *)
LabelTellsContent ==
    \A x \in versions :
        x.label # Content(x.commit).version =>
            x.given \/ (x.ref = Tip /\ (x.pushed \/ x.repo # x.commit[1]))

(* What the reviewer saw is what is built from that commit: the preview     *)
(* shows the key of every version made of its commit, and the label when    *)
(* the import was pinned to it, whatever was pushed in the meantime.        *)
ImportedAsPreviewed ==
    preview # None =>
        /\ \A x \in versions : x.commit = preview.commit =>
              /\ x.key = preview.meta.key
              /\ x.ref # Tip /\ ~x.given => x.label = preview.meta.version
        /\ preview.status = "duplicate_commit" => Built(preview.meta.key, preview.commit)

(* No acceptance is forgotten: with Redis or without, a submission marked   *)
(* as accepted has a task that imports it or has tried, or its request is   *)
(* about to make one, unless a fault cut that request short between the     *)
(* commit and the task.  That tasks come to an end is the queue's promise.  *)
AcceptedIsImported ==
    \A s \in Submissions :
        subs[s].status = "accepted" =>
            \/ subs[s].cut
            \/ \E v \in Reviewers : \/ request[v].pc = "enqueue" /\ request[v].sub = s
                                   \/ task[<<s, v>>] # NotTask
=============================================================================
