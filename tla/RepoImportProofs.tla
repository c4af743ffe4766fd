-------------------------- MODULE RepoImportProofs --------------------------
(* Proofs about RepoImport: what is built comes from the repository of its  *)
(* plugin and is labelled as its content says, what reviewers accept is     *)
(* imported, and what they saw is what is built, however many repositories, *)
(* reviewers and imports there are and whatever is pushed meanwhile.        *)
EXTENDS RepoImport, TLAPS

(* A commit that has been pushed. *)
Known(c) == c[1] \in Repos /\ c[2] \in 1..Len(history[c[1]])

(* What the first clone told a task, as long as the second is still to      *)
(* come: of a pinned commit its own content, of a ref that moves the        *)
(* content of the last commit, unless somebody has pushed.                  *)
ReadFrom(q) ==
    q.pc \in {"find", "recheck", "insert", "build"} =>
        /\ q.ref # Tip => Known(q.ref) /\ q.ref[1] = q.repo /\ q.meta = Content(q.ref)
        /\ q.ref = Tip /\ ~q.pushed => q.meta = Content(<<q.repo, Len(history[q.repo])>>)

Tells(label, c, ref, pushed, repo) ==
    label = Content(c).version \/ (ref = Tip /\ (pushed \/ repo # c[1]))

FromPlugin(key, c) ==
    /\ c \in Commits /\ Known(c)
    /\ plugins[key] # NoPlugin
    /\ c[1] = plugins[key].repo
    /\ Matches(Content(c), key)

(* What a task has established by the point it has reached. *)
Founded(q) ==
    /\ q.pc # "none" => q.repo \in Repos
    /\ q.pc \in {"find", "recheck", "insert", "build", "store", "scan"} => q.meta \in Metas
    /\ q.pc \in {"build", "store"} => plugins[q.meta.key] # NoPlugin
    /\ q.pc = "store" => /\ FromPlugin(q.meta.key, q.commit)
                         /\ Tells(q.meta.version, q.commit, q.ref, q.pushed, q.repo)
                         /\ q.ref # Tip => q.commit = q.ref

(* What is true of a version from when it is stored. *)
Sound(x) == /\ FromPlugin(x.key, x.commit)
            /\ x.given \/ Tells(x.label, x.commit, x.ref, x.pushed, x.repo)
            /\ x.ref # Tip => x.commit = x.ref

Rooted(k) == plugins[k] # NoPlugin => plugins[k].repo \in Repos

Distinct(vs) == \A x, y \in vs : x.key = y.key /\ x.commit = y.commit => x = y

(* What a request has established by the point it has reached. *)
Asked(q) ==
    /\ q.pc \in {"decide", "enqueue"} => /\ q.sub \in Submissions /\ subs[q.sub].repo \in Repos
                                         /\ subs[q.sub].status # "none"
    /\ q.pc \in {"metadata", "match"} => q.commit \in Commits /\ Known(q.commit)
    /\ q.pc = "match" => q.meta = Content(q.commit)

Submitted(s) == subs[s].status # "none" => subs[s].repo \in Repos

Previewed(p) == /\ p.commit \in Commits /\ Known(p.commit) /\ p.meta = Content(p.commit)
                /\ p.status = "duplicate_commit" => Built(p.meta.key, p.commit)

(* A decision was written over the row of s. *)
Decided(s) == subs[s].status \notin {"none", "pending_review"}

(* The request v decides on s; it has accepted s, and the task is still to  *)
(* be made or exists.                                                       *)
Decides(v, s) == request[v].pc = "decide" /\ request[v].sub = s
Follows(v, s) == \/ request[v].pc = "enqueue" /\ request[v].sub = s
                 \/ task[<<s, v>>] # NotTask

(* The review of a submission that no two requests had loaded at a time. *)
Reviewed(s) ==
    subs[s].overlap \/
        /\ \A v \in Reviewers : Decides(v, s) => subs[s].status = "pending_review"
        /\ \A v \in Reviewers : Follows(v, s) => subs[s].status = "accepted"
        /\ \A v, w \in Reviewers : Decides(v, s) /\ Decides(w, s) => v = w
        /\ \A v, w \in Reviewers : Follows(v, s) /\ Follows(w, s) => v = w

Kept(s) == subs[s].status = "accepted" => subs[s].cut \/ \E v \in Reviewers : Follows(v, s)

BuildInv == /\ TypeOK
            /\ \A s \in Submissions : Submitted(s)
            /\ \A v \in Reviewers : Asked(request[v])
            /\ \A k \in Keys : Rooted(k)
            /\ \A t \in Tasks : Founded(task[t]) /\ ReadFrom(task[t])
            /\ \A x \in versions : Sound(x)
            /\ Distinct(versions)
            /\ preview # None => Previewed(preview)

ReviewInv == \A s \in Submissions : Reviewed(s) /\ Kept(s)

(* A task that carries out the acceptance of a submission has its ref, and  *)
(* is that acceptance's own unless it is a second try of one.              *)
For(q, s) == /\ s \in Submissions
             /\ subs[s].status # "none" /\ q.ref = subs[s].ref
             /\ \E v \in Reviewers : task[<<s, v>>] # NotTask

Traced(t) == task[t] # NotTask =>
                /\ t \in Accepting => task[t].sub = t[1]
                /\ task[t].sub # None => For(task[t], task[t].sub)
                /\ task[t].sub # None /\ ~task[t].again => t \in Accepting

(* The first try of a task can store no version any more. *)
Past(q) == q.again \/ q.pc \in {"scan", "done", "dead", "lost"}

(* A version that was built for a submission, at the first try or not. *)
TracedVersion(x) ==
    x.sub # None => /\ For(x, x.sub)
                    /\ ~x.again => \E v \in Reviewers : /\ task[<<x.sub, v>>] # NotTask
                                                        /\ Past(task[<<x.sub, v>>])

(* A reviewer who has accepted a submission finds it decided ever after, so *)
(* that the task is made once.                                              *)
Single(v, s) ==
    /\ Decides(v, s) => task[<<s, v>>] = NotTask
    /\ request[v].pc = "enqueue" /\ request[v].sub = s => Decided(s) /\ task[<<s, v>>] = NotTask
    /\ task[<<s, v>>] # NotTask => Decided(s)

(* First tries of a submission that was decided once store one version. *)
Once(s) == subs[s].overlap \/ \A x, y \in VersionsFor(s) : ~x.again /\ ~y.again => x = y

TraceInv == /\ \A t \in Tasks : Traced(t)
            /\ \A x \in versions : TracedVersion(x)
            /\ \A s \in Submissions : Once(s) /\ \A v \in Reviewers : Single(v, s)

-----------------------------------------------------------------------------
(* Repositories.                                                            *)

(* A history is a non-empty sequence of contents, within its bound. *)
LEMMA HistoryIsSequence ==
    ASSUME TypeOK, NEW r \in Repos
    PROVE  /\ history[r] \in Seq(Metas) /\ Len(history[r]) \in 1..MaxCommits
           /\ DOMAIN history[r] = 1..Len(history[r])
  <1>1. PICK n \in 1..MaxCommits : history[r] \in [1..n -> Metas]
    BY DEF TypeOK
  <1>2. n \in Nat
    BY RepoImportAssumption
  <1> QED BY <1>1, <1>2

(* The content of a pushed commit is one that metadata.yaml can have. *)
LEMMA KnownContent ==
    ASSUME TypeOK, NEW c, Known(c)
    PROVE  /\ Content(c) \in Metas /\ Content(c).key \in Keys
           /\ Content(c).version \in Labels /\ Content(c).author \in Authors
  <1>1. Content(c) \in Metas
    BY HistoryIsSequence DEF Known, Content
  <1> QED BY <1>1 DEF Keys, Labels, Authors

(* A clone ends up on a pushed commit of its repository: the one it was     *)
(* pinned to, or the last one.                                              *)
LEMMA CheckedOut ==
    ASSUME TypeOK, NEW r \in Repos, NEW ref \in Refs, NEW c \in Checkout(r, ref)
    PROVE  /\ c \in Commits /\ Known(c) /\ c[1] = r
           /\ ref # Tip => c = ref
           /\ ref = Tip => c = <<r, Len(history[r])>>
  <1>1. history[r] \in Seq(Metas) /\ Len(history[r]) \in 1..MaxCommits
        /\ DOMAIN history[r] = 1..Len(history[r])
    BY HistoryIsSequence
  <1>2. CASE ref = Tip
    BY <1>1, <1>2 DEF Checkout, Known, Commits
  <1>3. CASE ref # Tip
    <2>1. c = ref /\ c[1] = r /\ c[2] \in DOMAIN history[r]
      BY <1>3 DEF Checkout
    <2>2. c \in Commits
      BY <1>3, <2>1 DEF Refs
    <2> QED BY <1>1, <1>3, <2>1, <2>2 DEF Known
  <1> QED BY <1>2, <1>3

(* A push appends: the histories stay well formed, and a commit that was    *)
(* there is there still, with its content.                                  *)
LEMMA PushAppends ==
    ASSUME TypeOK, NEW r \in Repos, NEW m \in Metas, Push(r, m)
    PROVE  /\ history' \in [Repos -> UNION {[1..n -> Metas] : n \in 1..MaxCommits}]
           /\ \A c \in Commits : Known(c) => Known(c)' /\ Content(c)' = Content(c)
  <1>1. history[r] \in Seq(Metas) /\ Len(history[r]) \in 1..MaxCommits
    BY HistoryIsSequence
  <1> DEFINE h == Append(history[r], m)
             n == Len(history[r]) + 1
  <1>2. n \in 1..MaxCommits
    BY <1>1, RepoImportAssumption DEF Push
  <1>3. h \in [1..n -> Metas] /\ Len(h) = n /\ \A i \in 1..Len(history[r]) : h[i] = history[r][i]
    <2>1. h \in Seq(Metas) /\ Len(h) = n
      BY <1>1
    <2>2. \A i \in 1..Len(history[r]) : h[i] = history[r][i]
      BY <1>1
    <2>3. h \in [1..Len(h) -> Metas]
      <3> HIDE DEF h
      <3> QED BY <2>1
    <2> HIDE DEF h
    <2> QED BY <2>1, <2>2, <2>3
  <1>4. history' = [history EXCEPT ![r] = h]
    BY DEF Push
  <1>5. history \in [Repos -> UNION {[1..k -> Metas] : k \in 1..MaxCommits}]
    BY DEF TypeOK
  <1> HIDE DEF h
  <1>6. history'[r] = h /\ \A q \in Repos : q # r => history'[q] = history[q]
    BY <1>4, <1>5
  <1>7. ASSUME NEW q \in Repos
        PROVE  history'[q] \in UNION {[1..k -> Metas] : k \in 1..MaxCommits}
    BY <1>2, <1>3, <1>5, <1>6
  <1>8. history' \in [Repos -> UNION {[1..k -> Metas] : k \in 1..MaxCommits}]
    BY <1>4, <1>5, <1>7
  <1>9. ASSUME NEW c \in Commits, Known(c) PROVE Known(c)' /\ Content(c)' = Content(c)
    <2>1. CASE c[1] = r
      BY <1>1, <1>3, <1>6, <1>9, <2>1 DEF Known, Content
    <2>2. CASE c[1] # r
      BY <1>6, <1>9, <2>2 DEF Known, Content
    <2> QED BY <2>1, <2>2
  <1> QED BY <1>8, <1>9

-----------------------------------------------------------------------------
(* What the steps do to the tasks.                                          *)

OnlyTask(t) == task' \in [Tasks -> Task] /\ \A u \in Tasks \ {t} : task'[u] = task[u]

SameJob(p, q) == /\ p.repo = q.repo /\ p.ref = q.ref /\ p.version = q.version
                 /\ p.sub = q.sub /\ p.again = q.again
SameRun(p, q) == /\ SameJob(p, q)
                 /\ p.meta = q.meta /\ p.commit = q.commit /\ p.pushed = q.pushed

(* A task that exists is a task. *)
LEMMA NoTaskYet == NotTask \in Task /\ NotTask.pc = "none" /\ ~NotTask.again
  BY RepoImportAssumption DEF NotTask, Task, Refs

(* One assignment replaces one task. *)
LEMMA ReplaceTask ==
    ASSUME TypeOK, NEW t \in Tasks, NEW q \in Task, task' = [task EXCEPT ![t] = q]
    PROVE  OnlyTask(t) /\ task'[t] = q
  BY DEF TypeOK, OnlyTask

(* A task goes on to another point of submit_repo. *)
LEMMA GoesEffect ==
    ASSUME TypeOK, NEW t \in Tasks,
           NEW pc \in {"recheck", "insert", "build", "scan"}, Goes(t, pc)
    PROVE  OnlyTask(t) /\ task'[t].pc = pc /\ SameRun(task'[t], task[t])
  <1> DEFINE q == [task[t] EXCEPT !.pc = pc]
  <1>1. q \in Task /\ q.pc = pc /\ SameRun(q, task[t])
    BY DEF TypeOK, Task, SameRun, SameJob
  <1>2. task' = [task EXCEPT ![t] = q]
    BY DEF Goes
  <1> HIDE DEF q
  <1>3. OnlyTask(t) /\ task'[t] = q
    BY <1>1, <1>2, ReplaceTask
  <1> QED BY <1>1, <1>3

(* A run ends, and the import stays the import it was. *)
LEMMA EndsEffect ==
    ASSUME TypeOK, NEW t \in Tasks, NEW pc \in {"done", "dead", "lost"}, Ends(t, pc)
    PROVE  OnlyTask(t) /\ task'[t].pc = pc /\ SameJob(task'[t], task[t])
  <1> DEFINE q == Ended(task[t], pc)
  <1>1. q \in Task /\ q.pc = pc /\ SameJob(q, task[t])
    BY DEF TypeOK, Task, SameJob, Ended
  <1>2. task' = [task EXCEPT ![t] = q]
    BY DEF Ends
  <1> HIDE DEF q
  <1>3. OnlyTask(t) /\ task'[t] = q
    BY <1>1, <1>2, ReplaceTask
  <1> QED BY <1>1, <1>3

(* A copy is queued, and is the import it was. *)
LEMMA CopyIsTask ==
    ASSUME NEW q \in Task, NEW n \in 0..MaxAttempts
    PROVE  /\ Copy(q, n) \in Task /\ Copy(q, n).pc = "queued" /\ Copy(q, n).repo = q.repo
           /\ Copy(q, n).ref = q.ref /\ Copy(q, n).sub = q.sub /\ Copy(q, n).again
  <1> DEFINE p == [NotTask EXCEPT !.pc = "queued", !.repo = q.repo, !.ref = q.ref,
                                  !.version = q.version, !.attempts = n, !.sub = q.sub,
                                  !.again = TRUE]
  <1>1. /\ q.repo \in Repos \cup {None} /\ q.ref \in Refs /\ q.version \in Labels \cup {None}
        /\ q.sub \in Submissions \cup {None}
    BY DEF Task
  <1>2. /\ p \in Task /\ p.pc = "queued" /\ p.repo = q.repo /\ p.ref = q.ref
        /\ p.sub = q.sub /\ p.again
    BY <1>1, NoTaskYet DEF Task
  <1> QED BY <1>2 DEF Copy

(* What failed is queued again or is dead, and is the import it was. *)
LEMMA RaisedEffect ==
    ASSUME TypeOK, NEW t \in Tasks, Raised(t)
    PROVE  /\ OnlyTask(t) /\ task'[t].pc \in {"queued", "dead"}
           /\ task'[t].repo = task[t].repo /\ task'[t].ref = task[t].ref
           /\ task'[t].sub = task[t].sub /\ (task[t].again => task'[t].again)
           /\ task'[t].pc = "queued" => task'[t].again
  <1> DEFINE q == task[t]
             n == q.attempts + 1
  <1>0. q \in Task
    BY DEF TypeOK
  <1>1. CASE redis /\ n < MaxAttempts
    <2>1. task' = [task EXCEPT ![t] = Copy(q, n)]
      BY <1>1 DEF Raised
    <2>2. n \in 0..MaxAttempts
      BY <1>0, <1>1, RepoImportAssumption DEF Task
    <2> HIDE DEF n
    <2>3. OnlyTask(t) /\ task'[t] = Copy(q, n)
      BY <1>0, <2>1, <2>2, CopyIsTask, ReplaceTask
    <2> QED BY <1>0, <2>2, <2>3, CopyIsTask
  <1>2. CASE ~(redis /\ n < MaxAttempts)
    <2>1. Ends(t, "dead")
      BY <1>2 DEF Raised, Ends
    <2> QED BY <2>1, EndsEffect DEF SameJob
  <1> QED BY <1>1, <1>2

(* An administrator's copy is a task of its own. *)
LEMMA RetryEffect ==
    ASSUME TypeOK, NEW t \in Tasks, NEW u \in Retries, RetryTask(t, u)
    PROVE  /\ u \in Tasks /\ OnlyTask(u) /\ task[t].pc # "none" /\ task[u] = NotTask
           /\ task'[u].pc = "queued" /\ task'[u].repo = task[t].repo
           /\ task'[u].ref = task[t].ref /\ task'[u].sub = task[t].sub /\ task'[u].again
  <1>1. task[t] \in Task /\ u \in Tasks /\ 0 \in 0..MaxAttempts
    BY RepoImportAssumption DEF TypeOK, Tasks
  <1>2. /\ task' = [task EXCEPT ![u] = Copy(task[t], 0)]
        /\ task[u] = NotTask /\ task[t].pc # "none"
    BY DEF RetryTask
  <1>3. OnlyTask(u) /\ task'[u] = Copy(task[t], 0)
    BY <1>1, <1>2, CopyIsTask, ReplaceTask
  <1> QED BY <1>1, <1>2, <1>3, CopyIsTask

(* A task is made. *)
LEMMA EnqueueEffect ==
    ASSUME TypeOK, NEW t \in Tasks, NEW repo \in Repos, NEW ref \in Refs,
           NEW version \in Labels \cup {None}, NEW sub \in Submissions \cup {None},
           EnqueueOrFallback(t, repo, ref, version, sub)
    PROVE  /\ OnlyTask(t) /\ task'[t].pc = "queued" /\ task'[t].repo = repo
           /\ task'[t].ref = ref /\ task'[t].sub = sub /\ ~task'[t].again
  <1> DEFINE p == [NotTask EXCEPT !.pc = "queued", !.repo = repo, !.ref = ref,
                                  !.version = version, !.sub = sub]
  <1>1. task' = [task EXCEPT ![t] = p]
    BY DEF EnqueueOrFallback
  <1>2. p \in Task /\ p.pc = "queued" /\ p.repo = repo /\ p.ref = ref /\ p.sub = sub /\ ~p.again
    BY NoTaskYet DEF Task
  <1> HIDE DEF p
  <1>3. OnlyTask(t) /\ task'[t] = p
    BY <1>1, <1>2, ReplaceTask
  <1> QED BY <1>2, <1>3

(* The first clone reads the metadata of a commit it can end up on. *)
LEMMA FirstCloneEffect ==
    ASSUME TypeOK, NEW t \in Tasks, task[t].repo \in Repos, FirstClone(t)
    PROVE  /\ OnlyTask(t) /\ task'[t].pc = "find"
           /\ task'[t].repo = task[t].repo /\ task'[t].ref = task[t].ref
           /\ task'[t].pushed = task[t].pushed
           /\ task'[t].sub = task[t].sub /\ task'[t].again = task[t].again
           /\ \E c \in Checkout(task[t].repo, task[t].ref) : task'[t].meta = Content(c)
  <1>0. task[t] \in Task /\ task[t].ref \in Refs
    BY DEF TypeOK, Task
  <1>1. PICK c \in Checkout(task[t].repo, task[t].ref) :
             task' = [task EXCEPT ![t].pc = "find", ![t].meta = Content(c)]
    BY DEF FirstClone
  <1>2. Content(c) \in Metas
    BY <1>0, CheckedOut, KnownContent
  <1> DEFINE q == [task[t] EXCEPT !.pc = "find", !.meta = Content(c)]
  <1>3. /\ q \in Task /\ q.pc = "find" /\ q.repo = task[t].repo /\ q.ref = task[t].ref
        /\ q.pushed = task[t].pushed /\ q.meta = Content(c)
        /\ q.sub = task[t].sub /\ q.again = task[t].again
    BY <1>0, <1>2 DEF Task
  <1>4. task' = [task EXCEPT ![t] = q]
    BY <1>1
  <1> HIDE DEF q
  <1>5. OnlyTask(t) /\ task'[t] = q
    BY <1>3, <1>4, ReplaceTask
  <1> QED BY <1>3, <1>5

(* The second clone is refused, or settles on a commit of the plugin's      *)
(* repository that carries its key and its author.                          *)
LEMMA BuildCloneEffect ==
    ASSUME TypeOK, NEW t \in Tasks, BuildSource(t) \in Repos, BuildClone(t)
    PROVE  /\ OnlyTask(t) /\ task'[t].pc \in {"dead", "store"}
           /\ task'[t].repo = task[t].repo /\ task'[t].ref = task[t].ref
           /\ task'[t].sub = task[t].sub /\ task'[t].again = task[t].again
           /\ task'[t].pc = "store" =>
                 /\ task'[t].pushed = task[t].pushed /\ task'[t].meta = task[t].meta
                 /\ task'[t].commit \in Checkout(BuildSource(t), task[t].ref)
                 /\ Matches(Content(task'[t].commit), task[t].meta.key)
  <1>0. task[t] \in Task /\ task[t].ref \in Refs
    BY DEF TypeOK, Task
  <1> DEFINE key == task[t].meta.key
  <1>1. PICK c \in Checkout(BuildSource(t), task[t].ref) :
             IF Matches(Content(c), key) /\ ~Built(key, c)
             THEN task' = [task EXCEPT ![t].pc = "store", ![t].commit = c]
             ELSE Refused(t)
    BY DEF BuildClone
  <1>2. CASE Refused(t)
    <2>1. Ends(t, "dead")
      BY <1>2 DEF Refused
    <2> QED BY <2>1, EndsEffect DEF SameJob
  <1>3. CASE /\ Matches(Content(c), key)
             /\ task' = [task EXCEPT ![t].pc = "store", ![t].commit = c]
    <2>1. c \in Commits
      BY <1>0, CheckedOut
    <2> DEFINE q == [task[t] EXCEPT !.pc = "store", !.commit = c]
    <2>2. /\ q \in Task /\ q.pc = "store" /\ q.repo = task[t].repo /\ q.ref = task[t].ref
          /\ q.pushed = task[t].pushed /\ q.meta = task[t].meta /\ q.commit = c
          /\ q.sub = task[t].sub /\ q.again = task[t].again
      BY <1>0, <2>1 DEF Task
    <2>3. task' = [task EXCEPT ![t] = q]
      BY <1>3
    <2> HIDE DEF q
    <2>4. OnlyTask(t) /\ task'[t] = q
      BY <2>2, <2>3, ReplaceTask
    <2> QED BY <1>3, <2>2, <2>4
  <1> QED BY <1>1, <1>2, <1>3

(* A push marks the tasks between the two clones and changes nothing else   *)
(* of them.                                                                 *)
LEMMA PushEffect ==
    ASSUME TypeOK, NEW r \in Repos, NEW m \in Metas, Push(r, m), NEW t \in Tasks
    PROVE  /\ task'[t] \in Task /\ task'[t].pc = task[t].pc
           /\ task'[t] = task[t] \/ task[t].pc # "none"
           /\ task'[t].repo = task[t].repo /\ task'[t].ref = task[t].ref
           /\ task'[t].meta = task[t].meta /\ task'[t].commit = task[t].commit
           /\ task'[t].sub = task[t].sub /\ task'[t].again = task[t].again
           /\ IF task[t].pc \in {"find", "recheck", "insert", "build"}
              THEN task'[t].pushed ELSE task'[t] = task[t]
  <1>0. task[t] \in Task
    BY DEF TypeOK
  <1>1. CASE task[t].pc \in {"find", "recheck", "insert", "build"}
    <2> DEFINE q == [task[t] EXCEPT !.pushed = TRUE]
    <2>1. /\ q \in Task /\ q.pc = task[t].pc /\ q.repo = task[t].repo /\ q.ref = task[t].ref
          /\ q.meta = task[t].meta /\ q.commit = task[t].commit /\ q.pushed
          /\ q.sub = task[t].sub /\ q.again = task[t].again
      BY <1>0 DEF Task
    <2>2. task'[t] = q
      BY <1>1 DEF Push
    <2> HIDE DEF q
    <2> QED BY <1>1, <2>1, <2>2
  <1>2. CASE task[t].pc \notin {"find", "recheck", "insert", "build"}
    <2>1. task'[t] = task[t]
      BY <1>2 DEF Push
    <2> QED BY <1>0, <1>2, <2>1
  <1> QED BY <1>1, <1>2
-----------------------------------------------------------------------------
(* What the steps do to the requests and the submissions.                   *)

OnlyRequest(v) == /\ request' \in [Reviewers -> Request]
                  /\ \A w \in Reviewers \ {v} : request'[w] = request[w]

OnlySub(s) == /\ subs' \in [Submissions -> Submission]
              /\ \A u \in Submissions \ {s} : subs'[u] = subs[u]
              /\ \/ subs'[s].repo = subs[s].repo /\ subs'[s].ref = subs[s].ref
                 \/ subs[s].status = "none"

(* A reviewer who asks nothing is well formed. *)
LEMMA IdleRequest == Idle \in Request /\ Idle.pc = "idle"
  BY RepoImportAssumption DEF Idle, Request

(* One assignment replaces one request. *)
LEMMA ReplaceRequest ==
    ASSUME TypeOK, NEW v \in Reviewers, NEW q \in Request, request' = [request EXCEPT ![v] = q]
    PROVE  OnlyRequest(v) /\ request'[v] = q
  BY DEF TypeOK, OnlyRequest

(* One assignment replaces one submission. *)
LEMMA ReplaceSub ==
    ASSUME TypeOK, NEW s \in Submissions, NEW q \in Submission, subs' = [subs EXCEPT ![s] = q],
           (q.repo = subs[s].repo /\ q.ref = subs[s].ref) \/ subs[s].status = "none"
    PROVE  OnlySub(s) /\ subs'[s] = q
  BY DEF TypeOK, OnlySub

(* A submission is made: it is pending, and has its repository. *)
LEMMA CreateEffect ==
    ASSUME TypeOK, NEW s \in Submissions, NEW repo \in Repos, NEW ref \in Refs,
           CreateSubmission(s, repo, ref)
    PROVE  /\ OnlySub(s) /\ subs[s].status = "none" /\ ~subs[s].overlap
           /\ subs'[s].status = "pending_review" /\ subs'[s].repo = repo
           /\ ~subs'[s].overlap
  <1> DEFINE q == [NotMade EXCEPT !.status = "pending_review", !.repo = repo, !.ref = ref]
  <1>1. /\ q \in Submission /\ q.status = "pending_review" /\ q.repo = repo
        /\ ~q.overlap /\ NotMade.status = "none" /\ ~NotMade.overlap
    BY DEF NotMade, Submission
  <1>2. subs' = [subs EXCEPT ![s] = q] /\ subs[s] = NotMade
    BY DEF CreateSubmission
  <1> HIDE DEF q
  <1>3. OnlySub(s) /\ subs'[s] = q
    BY <1>1, <1>2, ReplaceSub
  <1> QED BY <1>1, <1>2, <1>3

(* A reviewer loads a submission that is pending: the row remembers when    *)
(* another had it loaded already.                                           *)
LEMMA LoadEffect ==
    ASSUME TypeOK, NEW v \in Reviewers, NEW s \in Submissions,
           NEW decision \in {"accepted", "rejected", "duplicate"}, LoadSubmission(v, s, decision)
    PROVE  /\ OnlyRequest(v) /\ request[v].pc = "idle"
           /\ request'[v].pc = "decide" /\ request'[v].sub = s
           /\ OnlySub(s) /\ subs[s].status = "pending_review"
           /\ subs'[s].status = subs[s].status /\ subs'[s].repo = subs[s].repo
           /\ subs'[s].cut = subs[s].cut
           /\ ~subs'[s].overlap => ~subs[s].overlap /\ Deciding(s) = {}
  <1> DEFINE q == [Idle EXCEPT !.pc = "decide", !.sub = s, !.decision = decision]
             o == subs[s].overlap \/ Deciding(s) # {}
             x == [subs[s] EXCEPT !.overlap = o]
  <1>1. q \in Request /\ q.pc = "decide" /\ q.sub = s
    BY IdleRequest DEF Request
  <1>2. request' = [request EXCEPT ![v] = q] /\ request[v] = Idle
    BY DEF LoadSubmission
  <1>3. OnlyRequest(v) /\ request'[v] = q
    <2> HIDE DEF q
    <2> QED BY <1>1, <1>2, ReplaceRequest
  <1>4. o \in BOOLEAN /\ (~o => ~subs[s].overlap /\ Deciding(s) = {})
    OBVIOUS
  <1>5. subs' = [subs EXCEPT ![s] = x] /\ subs[s].status = "pending_review"
    BY DEF LoadSubmission, Undecided
  <1> HIDE DEF o
  <1>6. /\ x \in Submission /\ x.status = subs[s].status /\ x.repo = subs[s].repo
        /\ x.ref = subs[s].ref /\ x.cut = subs[s].cut /\ x.overlap = o
    BY <1>4 DEF TypeOK, Submission
  <1> HIDE DEF x
  <1>7. OnlySub(s) /\ subs'[s] = x
    BY <1>5, <1>6, ReplaceSub
  <1> HIDE DEF q
  <1>8. OnlyRequest(v) /\ request[v].pc = "idle" /\ request'[v].pc = "decide" /\ request'[v].sub = s
    BY <1>1, <1>2, <1>3, IdleRequest
  <1> QED BY <1>4, <1>5, <1>6, <1>7, <1>8

(* A decision is written over whatever the row holds by now; only an        *)
(* acceptance is followed by a task.                                        *)
LEMMA MarkEffect ==
    ASSUME TypeOK, NEW v \in Reviewers, MarkSubmissionDecision(v), request[v].sub \in Submissions
    PROVE  /\ OnlyRequest(v) /\ request[v].pc = "decide"
           /\ \/ /\ request[v].decision = "accepted"
                 /\ request'[v].pc = "enqueue" /\ request'[v].sub = request[v].sub
              \/ request[v].decision # "accepted" /\ request'[v].pc = "idle"
           /\ OnlySub(request[v].sub)
           /\ subs'[request[v].sub].status = request[v].decision
           /\ request[v].decision \in {"accepted", "rejected", "duplicate"}
           /\ subs'[request[v].sub].repo = subs[request[v].sub].repo
           /\ subs'[request[v].sub].overlap = subs[request[v].sub].overlap
           /\ subs'[request[v].sub].cut = subs[request[v].sub].cut
  <1> DEFINE s == request[v].sub
             x == [subs[s] EXCEPT !.status = request[v].decision]
             q == IF request[v].decision = "accepted" THEN [request[v] EXCEPT !.pc = "enqueue"]
                  ELSE Idle
  <1>1. request[v] \in Request /\ request[v].decision \in {"accepted", "rejected", "duplicate"}
    BY DEF TypeOK, Request
  <1>3. /\ q \in Request
        /\ \/ request[v].decision = "accepted" /\ q.pc = "enqueue" /\ q.sub = s
           \/ request[v].decision # "accepted" /\ q.pc = "idle"
    <2>1. CASE request[v].decision = "accepted"
      BY <1>1, <2>1 DEF Request
    <2>2. CASE request[v].decision # "accepted"
      BY <2>2, IdleRequest
    <2> QED BY <2>1, <2>2
  <1>4. request' = [request EXCEPT ![v] = q] /\ request[v].pc = "decide"
    BY DEF MarkSubmissionDecision
  <1>5. OnlyRequest(v) /\ request'[v] = q
    <2> HIDE DEF q
    <2> QED BY <1>3, <1>4, ReplaceRequest
  <1>6. /\ x \in Submission /\ x.status = request[v].decision /\ x.repo = subs[s].repo
        /\ x.ref = subs[s].ref /\ x.overlap = subs[s].overlap /\ x.cut = subs[s].cut
    <2>1. subs[s] \in Submission
      BY DEF TypeOK
    <2> HIDE DEF s
    <2> QED BY <1>1, <2>1 DEF Submission
  <1>7. subs' = [subs EXCEPT ![s] = x]
    BY DEF MarkSubmissionDecision
  <1>8. OnlySub(s) /\ subs'[s] = x
    <2> HIDE DEF x
    <2> QED BY <1>6, <1>7, ReplaceSub
  <1> HIDE DEF x, q
  <1> QED BY <1>1, <1>3, <1>4, <1>5, <1>6, <1>8

(* A request that stops between the decision and the task leaves a mark. *)
LEMMA StopEffect ==
    ASSUME TypeOK, NEW v \in Reviewers, StopRequest(v),
           request[v].pc = "enqueue" => request[v].sub \in Submissions
    PROVE  /\ OnlyRequest(v) /\ request'[v].pc = "idle"
           /\ \/ subs' = subs /\ request[v].pc # "enqueue"
              \/ /\ request[v].pc = "enqueue" /\ OnlySub(request[v].sub)
                 /\ subs'[request[v].sub].status = subs[request[v].sub].status
                 /\ subs'[request[v].sub].repo = subs[request[v].sub].repo
                 /\ subs'[request[v].sub].overlap = subs[request[v].sub].overlap
                 /\ subs'[request[v].sub].cut
  <1>1. OnlyRequest(v) /\ request'[v].pc = "idle"
    <2>1. request' = [request EXCEPT ![v] = Idle]
      BY DEF StopRequest
    <2> QED BY <2>1, IdleRequest, ReplaceRequest
  <1>2. CASE request[v].pc # "enqueue"
    BY <1>1, <1>2 DEF StopRequest
  <1>3. CASE request[v].pc = "enqueue"
    <2> DEFINE s == request[v].sub
               x == [subs[s] EXCEPT !.cut = TRUE]
    <2>1. s \in Submissions /\ subs[s] \in Submission
      BY <1>3 DEF TypeOK
    <2>2. subs' = [subs EXCEPT ![s] = x]
      BY <1>3 DEF StopRequest
    <2> HIDE DEF s
    <2>3. /\ x \in Submission /\ x.status = subs[s].status /\ x.repo = subs[s].repo
          /\ x.ref = subs[s].ref /\ x.overlap = subs[s].overlap /\ x.cut
      BY <2>1 DEF Submission
    <2> HIDE DEF x
    <2>4. OnlySub(s) /\ subs'[s] = x
      BY <2>1, <2>2, <2>3, ReplaceSub
    <2>5. /\ OnlySub(s) /\ subs'[s].status = subs[s].status /\ subs'[s].repo = subs[s].repo
          /\ subs'[s].overlap = subs[s].overlap /\ subs'[s].cut
      BY <2>3, <2>4
    <2> QED BY <1>1, <1>3, <2>5 DEF s
  <1> QED BY <1>2, <1>3

(* An accepted submission gets its task. *)
LEMMA AcceptedEffect ==
    ASSUME TypeOK, NEW v \in Reviewers, EnqueueAccepted(v), Asked(request[v])
    PROVE  /\ OnlyRequest(v) /\ request'[v].pc = "idle"
           /\ request[v].pc = "enqueue" /\ request[v].sub \in Submissions
           /\ <<request[v].sub, v>> \in Tasks
           /\ OnlyTask(<<request[v].sub, v>>)
           /\ task'[<<request[v].sub, v>>].pc = "queued"
           /\ task'[<<request[v].sub, v>>].repo \in Repos
           /\ task'[<<request[v].sub, v>>].ref = subs[request[v].sub].ref
           /\ task'[<<request[v].sub, v>>].sub = request[v].sub
           /\ ~task'[<<request[v].sub, v>>].again
  <1> DEFINE s == request[v].sub
  <1>1. request[v].pc = "enqueue" /\ s \in Submissions /\ subs[s].repo \in Repos
    BY DEF EnqueueAccepted, Asked
  <1>2. subs[s].ref \in Refs /\ <<s, v>> \in Tasks
    BY <1>1 DEF TypeOK, Submission, Tasks, Accepting
  <1>3. EnqueueOrFallback(<<s, v>>, subs[s].repo, subs[s].ref, None, s)
    BY DEF EnqueueAccepted
  <1>4. request' = [request EXCEPT ![v] = Idle]
    BY DEF EnqueueAccepted
  <1>5. OnlyRequest(v) /\ request'[v].pc = "idle"
    BY <1>4, IdleRequest, ReplaceRequest
  <1> HIDE DEF s
  <1> DEFINE t == <<s, v>>
  <1>6. /\ OnlyTask(t) /\ task'[t].pc = "queued"
        /\ task'[t].repo = subs[s].repo /\ task'[t].ref = subs[s].ref
        /\ task'[t].sub = s /\ ~task'[t].again
    <2> HIDE DEF t
    <2>1. t \in Tasks /\ EnqueueOrFallback(t, subs[s].repo, subs[s].ref, None, s)
      BY <1>2, <1>3 DEF t
    <2>2. ASSUME NEW repo \in Repos, NEW ref \in Refs, NEW sub \in Submissions \cup {None},
                 EnqueueOrFallback(t, repo, ref, None, sub)
          PROVE  /\ OnlyTask(t) /\ task'[t].pc = "queued" /\ task'[t].repo = repo
                 /\ task'[t].ref = ref /\ task'[t].sub = sub /\ ~task'[t].again
      BY <2>1, <2>2, EnqueueEffect
    <2> QED BY <1>1, <1>2, <2>1, <2>2
  <1> QED BY <1>1, <1>2, <1>5, <1>6 DEF s

(* A preview settles on a commit. *)
LEMMA ResolveEffect ==
    ASSUME TypeOK, NEW v \in Reviewers, NEW repo \in Repos, NEW ref \in Refs,
           ResolveRef(v, repo, ref)
    PROVE  /\ OnlyRequest(v) /\ request'[v].pc = "metadata" /\ request[v].pc = "idle"
           /\ request'[v].commit \in Checkout(repo, ref)
  <1>1. PICK c \in Checkout(repo, ref) :
             request' = [request EXCEPT ![v] = [Idle EXCEPT !.pc = "metadata", !.commit = c]]
    BY DEF ResolveRef
  <1>2. c \in Commits
    BY CheckedOut
  <1> DEFINE q == [Idle EXCEPT !.pc = "metadata", !.commit = c]
  <1>3. q \in Request /\ q.pc = "metadata" /\ q.commit = c
    BY <1>2, IdleRequest DEF Request
  <1>4. request' = [request EXCEPT ![v] = q]
    BY <1>1
  <1> HIDE DEF q
  <1>5. OnlyRequest(v) /\ request'[v] = q
    BY <1>3, <1>4, ReplaceRequest
  <1> QED BY <1>3, <1>5, IdleRequest DEF ResolveRef

(* It reads the metadata of that commit. *)
LEMMA FetchEffect ==
    ASSUME TypeOK, NEW v \in Reviewers, Known(request[v].commit), FetchMetadata(v)
    PROVE  /\ OnlyRequest(v) /\ request[v].pc = "metadata" /\ request'[v].pc = "match"
           /\ request'[v].commit = request[v].commit
           /\ request'[v].meta = Content(request[v].commit)
  <1> DEFINE m == Content(request[v].commit)
             q == [request[v] EXCEPT !.pc = "match", !.meta = m]
  <1>1. request' = [request EXCEPT ![v] = q] /\ request[v].pc = "metadata"
    BY DEF FetchMetadata
  <1>2. m \in Metas
    BY KnownContent
  <1>3. q \in Request /\ q.pc = "match" /\ q.commit = request[v].commit /\ q.meta = m
    <2> HIDE DEF m
    <2> QED BY <1>2 DEF TypeOK, Request
  <1>4. OnlyRequest(v) /\ request'[v] = q
    <2> HIDE DEF q
    <2> QED BY <1>1, <1>3, ReplaceRequest
  <1> HIDE DEF q
  <1> QED BY <1>1, <1>3, <1>4
-----------------------------------------------------------------------------
(* What a step leaves of each variable.                                     *)

(* The steps of the reviewers, and those of the import tasks. *)
Review(v) ==
    \/ \E s \in Submissions, decision \in {"accepted", "rejected", "duplicate"} :
          LoadSubmission(v, s, decision)
    \/ MarkSubmissionDecision(v)
    \/ EnqueueAccepted(v)
    \/ FetchMetadata(v)
    \/ MatchRepoMetadata(v)
    \/ StopRequest(v)
    \/ \E repo \in Repos, ref \in Refs : ResolveRef(v, repo, ref)


(* Every step is a push, a submission, an import started directly, a step   *)
(* of a reviewer or one of a task.                                          *)
LEMMA StepKinds ==
    ASSUME [Next]_vars
    PROVE  \/ \E repo \in Repos, m \in Metas : Push(repo, m)
           \/ \E s \in Submissions, repo \in Repos, ref \in Refs : CreateSubmission(s, repo, ref)
           \/ \E t \in Imports, repo \in Repos, ref \in Refs, version \in Labels \cup {None} :
                 SubmitPlugin(t, repo, ref, version)
           \/ \E v \in Reviewers : Review(v)
           \/ \E t \in Tasks : TaskStep(t) \/ Crash(t)
           \/ \E t \in Tasks, u \in Retries : RetryTask(t, u)
           \/ UNCHANGED vars
  BY DEF Next, Review

(* Only a push changes a history: commits stay, with their content. *)
LEMMA HistoryStep ==
    ASSUME TypeOK, [Next]_vars
    PROVE  /\ \/ history' = history
              \/ \E repo \in Repos, m \in Metas : Push(repo, m)
           /\ history' \in [Repos -> UNION {[1..n -> Metas] : n \in 1..MaxCommits}]
           /\ \A c \in Commits : Known(c) => Known(c)' /\ Content(c)' = Content(c)
  <1>1. CASE \E repo \in Repos, m \in Metas : Push(repo, m)
    BY <1>1, PushAppends
  <1>2. CASE history' = history
    BY <1>2 DEF TypeOK, Known, Content
  <1>3. ASSUME NEW v \in Reviewers, Review(v) PROVE history' = history
    BY <1>3 DEF Review, LoadSubmission, MarkSubmissionDecision, EnqueueAccepted, FetchMetadata,
                MatchRepoMetadata, StopRequest, ResolveRef
  <1>4. ASSUME NEW t \in Tasks, TaskStep(t) \/ Crash(t) PROVE history' = history
    BY <1>4 DEF TaskStep, RunFails, FirstClone, FindPlugin, RecheckPlugin, InsertPlugin,
                BuildClone, PackFails, StoreVersion, EndImport, Crash
  <1>5. CASE \/ \E s \in Submissions, repo \in Repos, ref \in Refs : CreateSubmission(s, repo, ref)
             \/ \E t \in Imports, repo \in Repos, ref \in Refs, version \in Labels \cup {None} :
                   SubmitPlugin(t, repo, ref, version)
             \/ \E t \in Tasks, u \in Retries : RetryTask(t, u)
             \/ UNCHANGED vars
    <2>1. history' = history
      BY <1>5 DEF CreateSubmission, SubmitPlugin, RetryTask, vars
    <2> QED BY <1>2, <2>1
  <1> QED BY <1>1, <1>2, <1>3, <1>4, <1>5, StepKinds

(* The insert makes the plugin, unless another task has made it. *)
LEMMA InsertEffect ==
    ASSUME TypeOK, NEW t \in Tasks, Founded(task[t]), InsertPlugin(t)
    PROVE  \/ plugins' = plugins /\ Raised(t)
           \/ /\ Goes(t, "build") /\ plugins' \in [Keys -> Plugin]
              /\ task[t].meta.key \in Keys
              /\ plugins[task[t].meta.key] = NoPlugin
              /\ plugins'[task[t].meta.key] # NoPlugin
              /\ plugins'[task[t].meta.key].repo \in Repos
              /\ \A k \in Keys : k # task[t].meta.key => plugins'[k] = plugins[k]
  <1> DEFINE m == task[t].meta
             p == [repo |-> task[t].repo, author |-> m.author]
  <1>1. m \in Metas /\ task[t].repo \in Repos
    BY DEF Founded, InsertPlugin
  <1>2. m.key \in Keys /\ m.author \in Authors
    BY <1>1 DEF Keys, Authors
  <1>3. p \in Plugin /\ p.repo = task[t].repo
    BY <1>1, <1>2 DEF Plugin
  <1>4. p # NoPlugin
    <2>1. NoPlugin.repo = None
      BY DEF NoPlugin
    <2> QED BY <1>1, <1>3, <2>1, RepoImportAssumption
  <1>5. \/ plugins' = plugins /\ Raised(t)
        \/ plugins[m.key] = NoPlugin /\ plugins' = [plugins EXCEPT ![m.key] = p] /\ Goes(t, "build")
    BY DEF InsertPlugin
  <1>6. plugins \in [Keys -> Plugin]
    BY DEF TypeOK
  <1> HIDE DEF m, p
  <1>7. CASE plugins[m.key] = NoPlugin /\ plugins' = [plugins EXCEPT ![m.key] = p] /\ Goes(t, "build")
    <2>1. /\ plugins' \in [Keys -> Plugin] /\ plugins'[m.key] = p
          /\ \A k \in Keys : k # m.key => plugins'[k] = plugins[k]
      BY <1>2, <1>3, <1>6, <1>7
    <2> QED BY <1>1, <1>2, <1>3, <1>4, <1>7, <2>1 DEF m
  <1> QED BY <1>5, <1>7

(* A plugin that exists keeps its repository and its author, and one that   *)
(* is made has a repository.                                                *)
LEMMA PluginsStep ==
    ASSUME TypeOK, \A t \in Tasks : Founded(task[t]), \A k \in Keys : Rooted(k), [Next]_vars
    PROVE  /\ plugins' \in [Keys -> Plugin]
           /\ \A k \in Keys : plugins[k] # NoPlugin => plugins'[k] = plugins[k]
           /\ \A k \in Keys : Rooted(k)'
  <1> DEFINE Goal == /\ plugins' \in [Keys -> Plugin]
                     /\ \A k \in Keys : plugins[k] # NoPlugin => plugins'[k] = plugins[k]
                     /\ \A k \in Keys : Rooted(k)'
  <1>1. ASSUME plugins' = plugins PROVE Goal
    BY <1>1 DEF TypeOK, Rooted
  <1>2. ASSUME NEW t \in Tasks, InsertPlugin(t) PROVE Goal
    <2>1. CASE plugins' = plugins
      BY <1>1, <2>1
    <2>2. CASE /\ plugins' \in [Keys -> Plugin]
               /\ task[t].meta.key \in Keys
               /\ plugins[task[t].meta.key] = NoPlugin
               /\ plugins'[task[t].meta.key].repo \in Repos
               /\ \A k \in Keys : k # task[t].meta.key => plugins'[k] = plugins[k]
      BY <2>2 DEF Rooted
    <2> HIDE DEF Goal
    <2> QED BY <1>2, <2>1, <2>2, InsertEffect
  <1>3. ASSUME NEW t \in Tasks, TaskStep(t) \/ Crash(t), ~InsertPlugin(t) PROVE plugins' = plugins
    BY <1>3 DEF TaskStep, RunFails, FirstClone, FindPlugin, RecheckPlugin,
                BuildClone, PackFails, StoreVersion, EndImport, Crash
  <1>4. ASSUME NEW v \in Reviewers, Review(v) PROVE plugins' = plugins
    BY <1>4 DEF Review, LoadSubmission, MarkSubmissionDecision, EnqueueAccepted, FetchMetadata,
                MatchRepoMetadata, StopRequest, ResolveRef
  <1>5. ASSUME \/ \E repo \in Repos, m \in Metas : Push(repo, m)
               \/ \E s \in Submissions, repo \in Repos, ref \in Refs : CreateSubmission(s, repo, ref)
               \/ \E t \in Imports, repo \in Repos, ref \in Refs, version \in Labels \cup {None} :
                     SubmitPlugin(t, repo, ref, version)
               \/ \E t \in Tasks, u \in Retries : RetryTask(t, u)
               \/ UNCHANGED vars
        PROVE  plugins' = plugins
    BY <1>5 DEF Push, CreateSubmission, SubmitPlugin, RetryTask, vars
  <1> HIDE DEF Goal
  <1>6. Goal
    BY <1>1, <1>2, <1>3, <1>4, <1>5, StepKinds
  <1> QED BY <1>6 DEF Goal

(* Versions are only added, by the task that stores one. *)
LEMMA VersionsStep ==
    ASSUME [Next]_vars
    PROVE  \/ versions' = versions
           \/ \E t \in Tasks : StoreVersion(t) /\ ~Built(task[t].meta.key, task[t].commit)
  <1>1. ASSUME NEW t \in Tasks, TaskStep(t) \/ Crash(t)
        PROVE  \/ versions' = versions
               \/ StoreVersion(t) /\ ~Built(task[t].meta.key, task[t].commit)
    BY <1>1 DEF TaskStep, RunFails, FirstClone, FindPlugin, RecheckPlugin, InsertPlugin,
                BuildClone, PackFails, StoreVersion, EndImport, Crash
  <1>2. ASSUME NEW v \in Reviewers, Review(v) PROVE versions' = versions
    BY <1>2 DEF Review, LoadSubmission, MarkSubmissionDecision, EnqueueAccepted, FetchMetadata,
                MatchRepoMetadata, StopRequest, ResolveRef
  <1>3. ASSUME \/ \E repo \in Repos, m \in Metas : Push(repo, m)
               \/ \E s \in Submissions, repo \in Repos, ref \in Refs : CreateSubmission(s, repo, ref)
               \/ \E t \in Imports, repo \in Repos, ref \in Refs, version \in Labels \cup {None} :
                     SubmitPlugin(t, repo, ref, version)
               \/ \E t \in Tasks, u \in Retries : RetryTask(t, u)
               \/ UNCHANGED vars
        PROVE  versions' = versions
    BY <1>3 DEF Push, CreateSubmission, SubmitPlugin, RetryTask, vars
  <1> QED BY <1>1, <1>2, <1>3, StepKinds

(* What the plugin and the content of a commit made true stays true. *)
LEMMA FromPluginStays ==
    ASSUME TypeOK, \A t \in Tasks : Founded(task[t]), \A k \in Keys : Rooted(k), [Next]_vars,
           NEW key \in Keys, NEW c, FromPlugin(key, c)
    PROVE  FromPlugin(key, c)' /\ Content(c)' = Content(c)
  <1>1. Known(c)' /\ Content(c)' = Content(c) /\ plugins'[key] = plugins[key]
    BY HistoryStep, PluginsStep DEF FromPlugin
  <1> QED BY <1>1 DEF FromPlugin, Matches

(* So a task that does not move has lost nothing of what it knew. *)
LEMMA FoundedStays ==
    ASSUME TypeOK, \A t \in Tasks : Founded(task[t]), \A k \in Keys : Rooted(k), [Next]_vars,
           NEW q, Founded(q)
    PROVE  Founded(q)'
  <1>1. q.pc \in {"build", "store"} => q.meta \in Metas /\ q.meta.key \in Keys
    BY DEF Founded, Keys
  <1>2. q.pc \in {"build", "store"} => plugins'[q.meta.key] # NoPlugin
    BY <1>1, PluginsStep DEF Founded
  <1>3. ASSUME q.pc = "store"
        PROVE  /\ FromPlugin(q.meta.key, q.commit)'
               /\ Tells(q.meta.version, q.commit, q.ref, q.pushed, q.repo)'
    <2>1. FromPlugin(q.meta.key, q.commit)' /\ Content(q.commit)' = Content(q.commit)
      BY <1>1, <1>3, FromPluginStays DEF Founded
    <2> QED BY <1>3, <2>1 DEF Founded, Tells
  <1> QED BY <1>2, <1>3 DEF Founded
-----------------------------------------------------------------------------
(* The imports.                                                             *)

(* A task that takes a step had been made, and no other moves.  It keeps    *)
(* its submission and its ref, and what it could not store any more it     *)
(* cannot store now.                                                       *)
LEMMA OwnStep ==
    ASSUME TypeOK, \A k \in Keys : Rooted(k), NEW t \in Tasks, Founded(task[t]),
           TaskStep(t) \/ Crash(t)
    PROVE  /\ OnlyTask(t) /\ task[t].pc # "none" /\ task'[t].pc # "none"
           /\ task'[t].sub = task[t].sub /\ task'[t].ref = task[t].ref
           /\ task[t].again => task'[t].again
           /\ Past(task[t]) => Past(task'[t])
           /\ StoreVersion(t) /\ ~Built(task[t].meta.key, task[t].commit) => Past(task'[t])
  <1> DEFINE Goal == /\ OnlyTask(t) /\ task'[t].pc # "none"
                     /\ task'[t].sub = task[t].sub /\ task'[t].ref = task[t].ref
                     /\ task[t].again => task'[t].again
  <1>1. ASSUME NEW pc \in {"recheck", "insert", "build", "scan"}, Goes(t, pc)
        PROVE  Goal /\ (pc = "scan" => Past(task'[t]))
    BY <1>1, GoesEffect DEF SameRun, SameJob, Past
  <1>e. ASSUME NEW pc \in {"done", "dead", "lost"}, Ends(t, pc)
        PROVE  Goal /\ Past(task'[t])
    BY <1>e, EndsEffect DEF SameJob, Past
  <1>2. ASSUME Raised(t) PROVE Goal /\ Past(task'[t])
    BY <1>2, RaisedEffect DEF Past
  <1>3. ASSUME FirstClone(t) PROVE Goal /\ task[t].pc = "queued"
    BY <1>3, FirstCloneEffect DEF FirstClone, Founded
  <1>4. ASSUME BuildClone(t) PROVE Goal /\ task[t].pc = "build"
    <2>1. task[t].pc = "build" /\ task[t].meta \in Metas /\ plugins[task[t].meta.key] # NoPlugin
      BY <1>4 DEF BuildClone, Founded
    <2>2. BuildSource(t) \in Repos
      BY <2>1 DEF BuildSource, Rooted, Keys
    <2> QED BY <1>4, <2>1, <2>2, BuildCloneEffect
  <1>5. ASSUME FindPlugin(t) \/ RecheckPlugin(t) \/ InsertPlugin(t)
        PROVE  Goal /\ task[t].pc \in {"find", "recheck", "insert"}
    <2> HIDE DEF Goal
    <2> QED BY <1>1, <1>e, <1>2, <1>5 DEF FindPlugin, RecheckPlugin, InsertPlugin, Refused
  <1>6. ASSUME RunFails(t) \/ PackFails(t) \/ StoreVersion(t) \/ EndImport(t) \/ Crash(t)
        PROVE  Goal /\ Past(task'[t]) /\ task[t].pc # "none"
    <2> HIDE DEF Goal
    <2> QED BY <1>1, <1>e, <1>2, <1>6 DEF RunFails, PackFails, StoreVersion, EndImport,
                                    Crash, Refused, Running
  <1>7. Goal /\ task[t].pc # "none"
    <2> HIDE DEF Goal
    <2> QED BY <1>3, <1>4, <1>5, <1>6 DEF TaskStep
  <1>8. Past(task[t]) => Past(task'[t])
    <2>1. CASE task[t].again
      BY <1>7, <2>1 DEF Past
    <2>2. CASE task[t].pc \in {"scan", "done", "dead", "lost"}
      <3> HIDE DEF Goal
      <3> QED BY <1>3, <1>4, <1>5, <1>6, <2>2 DEF TaskStep
    <2> QED BY <2>1, <2>2 DEF Past
  <1>9. StoreVersion(t) => Past(task'[t])
    BY <1>6
  <1> QED BY <1>7, <1>8, <1>9

(* What a step can do to one task: nothing, a push, a step of its own, or   *)
(* making it.                                                               *)
LEMMA TaskMoves ==
    ASSUME TypeOK, \A v \in Reviewers : Asked(request[v]), \A t \in Tasks : Founded(task[t]),
           \A k \in Keys : Rooted(k), [Next]_vars
    PROVE  /\ task' \in [Tasks -> Task]
           /\ \A t \in Tasks :
                 \/ task'[t] = task[t]
                 \/ \E repo \in Repos, m \in Metas : Push(repo, m)
                 \/ TaskStep(t) \/ Crash(t)
                 \/ task'[t].pc = "queued" /\ task'[t].repo \in Repos
  <1> DEFINE Moves(t) == \/ task'[t] = task[t]
                         \/ \E repo \in Repos, m \in Metas : Push(repo, m)
                         \/ TaskStep(t) \/ Crash(t)
                         \/ task'[t].pc = "queued" /\ task'[t].repo \in Repos
             Goal == task' \in [Tasks -> Task] /\ \A t \in Tasks : Moves(t)
  <1>1. ASSUME NEW repo \in Repos, NEW m \in Metas, Push(repo, m) PROVE Goal
    <2>1. \A t \in Tasks : task'[t] \in Task
      BY <1>1, PushEffect
    <2>2. task' = [t \in Tasks |-> task'[t]]
      BY <1>1 DEF Push
    <2> QED BY <1>1, <2>1, <2>2
  <1>2. ASSUME NEW t \in Tasks, TaskStep(t) \/ Crash(t) PROVE Goal
    <2>1. OnlyTask(t)
      BY <1>2, OwnStep
    <2> QED BY <1>2, <2>1 DEF OnlyTask
  <1>3. ASSUME task' = task PROVE Goal
    BY <1>3 DEF TypeOK
  <1>4. ASSUME NEW t \in Tasks, OnlyTask(t), task'[t].pc = "queued", task'[t].repo \in Repos
        PROVE  Goal
    BY <1>4 DEF OnlyTask
  <1>5. ASSUME NEW v \in Reviewers, EnqueueAccepted(v) PROVE Goal
    <2>1. /\ <<request[v].sub, v>> \in Tasks /\ OnlyTask(<<request[v].sub, v>>)
          /\ task'[<<request[v].sub, v>>].pc = "queued"
          /\ task'[<<request[v].sub, v>>].repo \in Repos
      BY <1>5, AcceptedEffect
    <2> HIDE DEF Goal
    <2> QED BY <1>4, <2>1
  <1>6. ASSUME NEW t \in Imports, NEW repo \in Repos, NEW ref \in Refs,
               NEW version \in Labels \cup {None}, SubmitPlugin(t, repo, ref, version)
        PROVE  Goal
    <2>1. t \in Tasks /\ EnqueueOrFallback(t, repo, ref, version, None)
      BY <1>6 DEF Tasks, SubmitPlugin
    <2>2. OnlyTask(t) /\ task'[t].pc = "queued" /\ task'[t].repo \in Repos
      BY <2>1, EnqueueEffect
    <2> HIDE DEF Goal
    <2> QED BY <1>4, <2>1, <2>2
  <1>10. ASSUME NEW t \in Tasks, NEW u \in Retries, RetryTask(t, u) PROVE Goal
    <2>1. /\ u \in Tasks /\ OnlyTask(u) /\ task'[u].pc = "queued"
          /\ task'[u].repo = task[t].repo /\ task[t].pc # "none"
      BY <1>10, RetryEffect
    <2>2. task'[u].repo \in Repos
      BY <2>1 DEF Founded
    <2> HIDE DEF Goal
    <2> QED BY <1>4, <2>1, <2>2
  <1>7. ASSUME NEW v \in Reviewers, Review(v), ~EnqueueAccepted(v) PROVE task' = task
    BY <1>7 DEF Review, LoadSubmission, MarkSubmissionDecision, FetchMetadata,
                MatchRepoMetadata, StopRequest, ResolveRef
  <1>8. ASSUME \/ \E s \in Submissions, repo \in Repos, ref \in Refs : CreateSubmission(s, repo, ref)
               \/ UNCHANGED vars
        PROVE  task' = task
    BY <1>8 DEF CreateSubmission, vars
  <1> HIDE DEF Goal
  <1>9. Goal
    BY <1>1, <1>2, <1>3, <1>5, <1>6, <1>7, <1>8, <1>10, StepKinds
  <1> QED BY <1>9 DEF Goal

(* What a task reads and finds out stays true up to where it stores. *)
LEMMA TasksInductive ==
    ASSUME TypeOK, \A v \in Reviewers : Asked(request[v]),
           \A t \in Tasks : Founded(task[t]) /\ ReadFrom(task[t]),
           \A k \in Keys : Rooted(k), [Next]_vars
    PROVE  \A t \in Tasks : Founded(task[t])' /\ ReadFrom(task[t])'
  <1>0. \A t \in Tasks : Founded(task[t])
    OBVIOUS
  <1> SUFFICES ASSUME NEW t \in Tasks PROVE Founded(task[t])' /\ ReadFrom(task[t])'
    OBVIOUS
  <1>a. Founded(task[t]) /\ ReadFrom(task[t]) /\ task[t] \in Task /\ task[t].ref \in Refs
    BY DEF TypeOK, Task
  <1>b. ASSUME task'[t].pc \in {"queued", "dead", "done", "lost", "scan"},
               task'[t].repo \in Repos, task'[t].pc = "scan" => task'[t].meta \in Metas
        PROVE  Founded(task[t])' /\ ReadFrom(task[t])'
    BY <1>b DEF Founded, ReadFrom
  <1>c. task[t].meta \in Metas => task[t].meta.key \in Keys
    BY DEF Keys
  <1>1. CASE task'[t] = task[t] /\ history' = history
    <2>1. ASSUME NEW p, Founded(p), ReadFrom(p) PROVE Founded(p)' /\ ReadFrom(p)'
      BY <1>0, <1>1, <2>1, FoundedStays DEF ReadFrom, Known, Content
    <2>2. ASSUME NEW p, p = task[t] PROVE Founded(task[t])' /\ ReadFrom(task[t])'
      <3>1. Founded(p)' /\ ReadFrom(p)' /\ task'[t] = p
        BY <1>1, <1>a, <2>1, <2>2
      <3> QED BY <3>1 DEF Founded, ReadFrom
    <2> QED BY <2>2
  <1>2. ASSUME NEW repo \in Repos, NEW m \in Metas, Push(repo, m)
        PROVE  Founded(task[t])' /\ ReadFrom(task[t])'
    <2>1. CASE task[t].pc \in {"find", "recheck", "insert", "build"}
      <3>1. /\ task'[t].pc = task[t].pc /\ task'[t].repo = task[t].repo
            /\ task'[t].ref = task[t].ref /\ task'[t].meta = task[t].meta
            /\ task'[t].pushed
        BY <1>2, <2>1, PushEffect
      <3>2. plugins' = plugins
        BY <1>2 DEF Push
      <3>3. Founded(task[t])'
        BY <1>a, <2>1, <3>1, <3>2 DEF Founded
      <3>4. ASSUME task[t].ref # Tip
            PROVE  /\ Known(task[t].ref)' /\ task'[t].ref[1] = task'[t].repo
                   /\ task'[t].meta = Content(task[t].ref)'
        <4>1. /\ Known(task[t].ref) /\ task[t].ref[1] = task[t].repo
              /\ task[t].meta = Content(task[t].ref) /\ task[t].ref \in Commits
          BY <1>a, <2>1, <3>4 DEF ReadFrom, Refs
        <4>2. ASSUME NEW c, c = task[t].ref
              PROVE  /\ Known(task[t].ref)' /\ Content(task[t].ref)' = Content(task[t].ref)
          <5>1. Known(c)' /\ Content(c)' = Content(c)
            BY <1>2, <4>1, <4>2, PushAppends
          <5> QED BY <3>1, <4>2, <5>1 DEF Known, Content
        <4> QED BY <3>1, <4>1, <4>2
      <3> QED BY <3>1, <3>3, <3>4 DEF ReadFrom
    <2>2. CASE task[t].pc \notin {"find", "recheck", "insert", "build"}
      <3>1. task'[t] = task[t]
        BY <1>2, <2>2, PushEffect
      <3>2. ASSUME NEW p, p = task[t] PROVE Founded(task[t])'
        <4>1. Founded(p)' /\ task'[t] = p
          BY <1>0, <1>a, <3>1, <3>2, FoundedStays
        <4> QED BY <4>1 DEF Founded
      <3> QED BY <2>2, <3>1, <3>2 DEF ReadFrom
    <2> QED BY <2>1, <2>2
  <1>3. CASE FirstClone(t)
    <2>1. task[t].repo \in Repos
      BY <1>3, <1>a DEF FirstClone, Founded
    <2>2. /\ task'[t].pc = "find"
          /\ task'[t].repo = task[t].repo /\ task'[t].ref = task[t].ref
          /\ task'[t].pushed = task[t].pushed
          /\ \E c \in Checkout(task[t].repo, task[t].ref) : task'[t].meta = Content(c)
      BY <1>3, <2>1, FirstCloneEffect
    <2>3. PICK c \in Checkout(task[t].repo, task[t].ref) : task'[t].meta = Content(c)
      BY <2>2
    <2>4. /\ Known(c) /\ c[1] = task[t].repo
          /\ task[t].ref # Tip => c = task[t].ref
          /\ task[t].ref = Tip => c = <<task[t].repo, Len(history[task[t].repo])>>
      BY <1>a, <2>1, CheckedOut
    <2>5. Content(c) \in Metas
      BY <2>4, KnownContent
    <2>6. history' = history
      BY <1>3 DEF FirstClone
    <2>7. Founded(task[t])'
      BY <2>1, <2>2, <2>3, <2>5 DEF Founded
    <2> QED BY <2>2, <2>3, <2>4, <2>6, <2>7 DEF ReadFrom, Known, Content
  <1>4. CASE FindPlugin(t) \/ RecheckPlugin(t) \/ InsertPlugin(t)
    <2>1. /\ task[t].pc \in {"find", "recheck", "insert"}
          /\ task[t].repo \in Repos /\ task[t].meta \in Metas /\ history' = history
      BY <1>4, <1>a DEF FindPlugin, RecheckPlugin, InsertPlugin, Founded
    <2>2. CASE Raised(t)
      BY <1>b, <2>1, <2>2, RaisedEffect
    <2>3. CASE Ends(t, "dead")
      BY <1>b, <2>1, <2>3, EndsEffect DEF SameJob
    <2>4. ASSUME NEW pc \in {"recheck", "insert", "build"}, Goes(t, pc),
                 pc = "build" => plugins'[task[t].meta.key] # NoPlugin
          PROVE  Founded(task[t])' /\ ReadFrom(task[t])'
      <3>1. task'[t].pc = pc /\ SameRun(task'[t], task[t])
        BY <2>4, GoesEffect
      <3>2. Founded(task[t])'
        BY <2>1, <2>4, <3>1 DEF Founded, SameRun, SameJob
      <3> QED BY <1>a, <2>1, <3>1, <3>2 DEF ReadFrom, SameRun, SameJob, Known, Content
    <2>5. CASE FindPlugin(t)
      BY <2>3, <2>4, <2>5 DEF FindPlugin, Refused
    <2>6. CASE RecheckPlugin(t)
      BY <2>3, <2>4, <2>6 DEF RecheckPlugin, Refused
    <2>7. CASE InsertPlugin(t)
      BY <1>a, <2>2, <2>4, <2>7, InsertEffect
    <2> QED BY <1>4, <2>5, <2>6, <2>7
  <1>5. CASE BuildClone(t)
    <2>1. /\ task[t].pc = "build" /\ task[t].repo \in Repos /\ task[t].meta \in Metas
          /\ plugins[task[t].meta.key] # NoPlugin /\ UNCHANGED <<history, plugins>>
      BY <1>5, <1>a DEF BuildClone, Founded
    <2>2. BuildSource(t) \in Repos /\ BuildSource(t) = plugins[task[t].meta.key].repo
      BY <1>c, <2>1 DEF BuildSource, Rooted
    <2>3. /\ task'[t].pc \in {"dead", "store"}
          /\ task'[t].repo = task[t].repo /\ task'[t].ref = task[t].ref
          /\ task'[t].pc = "store" =>
                /\ task'[t].pushed = task[t].pushed /\ task'[t].meta = task[t].meta
                /\ task'[t].commit \in Checkout(BuildSource(t), task[t].ref)
                /\ Matches(Content(task'[t].commit), task[t].meta.key)
      BY <1>5, <2>2, BuildCloneEffect
    <2>4. CASE task'[t].pc = "dead"
      BY <1>b, <2>1, <2>3, <2>4
    <2>5. CASE task'[t].pc = "store"
      <3>1. PICK c \in Checkout(BuildSource(t), task[t].ref) :
                 task'[t].commit = c /\ Matches(Content(c), task[t].meta.key)
        BY <2>3, <2>5
      <3>2. /\ c \in Commits /\ Known(c) /\ c[1] = BuildSource(t)
            /\ task[t].ref # Tip => c = task[t].ref
            /\ task[t].ref = Tip => c = <<BuildSource(t), Len(history[BuildSource(t)])>>
        BY <1>a, <2>2, CheckedOut
      <3>3. Tells(task[t].meta.version, c, task[t].ref, task[t].pushed, task[t].repo)
        BY <1>a, <2>1, <3>2 DEF ReadFrom, Tells
      <3>4. FromPlugin(task[t].meta.key, c)
        BY <2>1, <2>2, <3>1, <3>2 DEF FromPlugin
      <3>5. Content(c)' = Content(c) /\ Known(c)'
        BY <2>1, <3>2 DEF Content, Known
      <3>6. FromPlugin(task[t].meta.key, task[t].commit)'
        BY <2>1, <2>3, <2>5, <3>1, <3>4, <3>5 DEF FromPlugin, Matches, Content, Known
      <3>7. Tells(task[t].meta.version, task[t].commit, task[t].ref, task[t].pushed, task[t].repo)'
        BY <2>3, <2>5, <3>1, <3>3, <3>5 DEF Tells, Content
      <3>8. task'[t].ref # Tip => task'[t].commit = task'[t].ref
        BY <2>3, <3>1, <3>2
      <3> QED BY <2>1, <2>3, <2>5, <3>6, <3>7, <3>8 DEF Founded, ReadFrom
    <2> QED BY <2>3, <2>4, <2>5
  <1>6. CASE RunFails(t)
    <2>1. task[t].repo \in Repos /\ Raised(t)
      BY <1>6, <1>a DEF RunFails, Running, Founded
    <2> QED BY <1>b, <2>1, RaisedEffect
  <1>7. CASE PackFails(t) \/ StoreVersion(t) \/ EndImport(t) \/ Crash(t)
    <2>1. task[t].repo \in Repos /\ task[t].meta \in Metas
      BY <1>7, <1>a DEF PackFails, StoreVersion, EndImport, Crash, Running, Founded
    <2>2. Raised(t) \/ Goes(t, "scan") \/ \E pc \in {"done", "dead", "lost"} : Ends(t, pc)
      BY <1>7 DEF PackFails, StoreVersion, EndImport, Crash, Refused
    <2>3. CASE Raised(t)
      BY <1>b, <2>1, <2>3, RaisedEffect
    <2>4. CASE Goes(t, "scan")
      BY <1>b, <2>1, <2>4, GoesEffect DEF SameRun, SameJob
    <2>5. ASSUME NEW pc \in {"done", "dead", "lost"}, Ends(t, pc)
          PROVE  Founded(task[t])' /\ ReadFrom(task[t])'
      BY <1>b, <2>1, <2>5, EndsEffect DEF SameJob
    <2> QED BY <2>2, <2>3, <2>4, <2>5
  <1>8. CASE task'[t].pc = "queued" /\ task'[t].repo \in Repos
    BY <1>b, <1>8
  <1> QED BY <1>0, <1>1, <1>2, <1>3, <1>4, <1>5, <1>6, <1>7, <1>8, TaskMoves, HistoryStep DEF TaskStep
(* The version a task stores is one the plugin's repository gave, labelled  *)
(* as its content says or for a reason the row records, and no other has    *)
(* its commit.                                                              *)
LEMMA VersionsInductive ==
    ASSUME TypeOK, \A t \in Tasks : Founded(task[t]), \A k \in Keys : Rooted(k),
           \A x \in versions : Sound(x), Distinct(versions), [Next]_vars
    PROVE  /\ versions' \subseteq Version /\ versions \subseteq versions'
           /\ \A x \in versions' : Sound(x)'
           /\ Distinct(versions')
  <1>0. versions \subseteq Version
    BY DEF TypeOK
  <1>1. ASSUME NEW x, x.key \in Keys, Sound(x) PROVE Sound(x)'
    <2>1. FromPlugin(x.key, x.commit)' /\ Content(x.commit)' = Content(x.commit)
      BY <1>1, FromPluginStays DEF Sound
    <2> QED BY <1>1, <2>1 DEF Sound, Tells
  <1>2. \A x \in versions : Sound(x)'
    BY <1>0, <1>1 DEF Version
  <1>3. CASE versions' = versions
    BY <1>0, <1>2, <1>3
  <1>4. ASSUME NEW t \in Tasks, StoreVersion(t), ~Built(task[t].meta.key, task[t].commit)
        PROVE  /\ versions' \subseteq Version /\ versions \subseteq versions'
               /\ \A x \in versions' : Sound(x)'
               /\ Distinct(versions')
    <2> DEFINE q == task[t]
               x == [key |-> q.meta.key,
                     label |-> IF q.version = None THEN q.meta.version ELSE q.version,
                     commit |-> q.commit, ref |-> q.ref, given |-> q.version # None,
                     repo |-> q.repo, pushed |-> q.pushed, sub |-> q.sub, again |-> q.again]
    <2>1. q.pc = "store" /\ versions' = versions \cup {x}
      BY <1>4 DEF StoreVersion
    <2>2. /\ q.meta \in Metas /\ q.repo \in Repos
          /\ FromPlugin(q.meta.key, q.commit)
          /\ Tells(q.meta.version, q.commit, q.ref, q.pushed, q.repo)
          /\ q.ref # Tip => q.commit = q.ref
      BY <2>1 DEF Founded
    <2>3. /\ q \in Task /\ q.meta.key \in Keys /\ q.meta.version \in Labels
          /\ q.commit \in Commits
      BY <2>2 DEF TypeOK, Keys, Labels, FromPlugin
    <2>4. /\ x.key = q.meta.key /\ x.commit = q.commit /\ x.ref = q.ref
          /\ x.repo = q.repo /\ x.pushed = q.pushed
          /\ x.given \/ x.label = q.meta.version
      OBVIOUS
    <2>5. x \in Version
      BY <2>2, <2>3 DEF Version, Task
    <2> HIDE DEF x
    <2>6. Sound(x)
      BY <2>2, <2>4 DEF Sound, Tells
    <2>7. ASSUME NEW y, y = x PROVE Sound(y)'
      <3>1. y.key \in Keys /\ Sound(y)
        BY <2>3, <2>4, <2>6, <2>7
      <3> QED BY <1>1, <3>1
    <2>8. \A y \in versions : ~(y.key = x.key /\ y.commit = x.commit)
      BY <1>4, <2>4 DEF Built
    <2>9. Distinct(versions')
      BY <2>1, <2>8 DEF Distinct
    <2> QED BY <1>0, <1>2, <2>1, <2>5, <2>7, <2>9
  <1> QED BY <1>3, <1>4, VersionsStep

-----------------------------------------------------------------------------
(* Submissions, requests and previews.                                      *)

(* A submission that was made has a repository, and keeps it. *)
LEMMA SubsStep ==
    ASSUME TypeOK, \A s \in Submissions : Submitted(s), \A v \in Reviewers : Asked(request[v]),
           [Next]_vars
    PROVE  /\ subs' \in [Submissions -> Submission]
           /\ \A s \in Submissions : Submitted(s)'
           /\ \A s \in Submissions : subs[s].repo \in Repos => subs'[s].repo \in Repos
           /\ \A s \in Submissions : subs[s].status # "none" =>
                 subs'[s].status # "none" /\ subs'[s].ref = subs[s].ref
           /\ \A s \in Submissions : Decided(s) => Decided(s)'
           /\ \A s \in Submissions : subs[s].overlap => subs'[s].overlap
  <1> DEFINE Goal == /\ subs' \in [Submissions -> Submission]
                     /\ \A s \in Submissions : Submitted(s)'
                     /\ \A s \in Submissions : subs[s].repo \in Repos => subs'[s].repo \in Repos
                     /\ \A s \in Submissions : subs[s].status # "none" =>
                           subs'[s].status # "none" /\ subs'[s].ref = subs[s].ref
                     /\ \A s \in Submissions : Decided(s) => Decided(s)'
                     /\ \A s \in Submissions : subs[s].overlap => subs'[s].overlap
  <1>1. ASSUME subs' = subs PROVE Goal
    BY <1>1 DEF TypeOK, Submitted, Decided
  <1>2. ASSUME NEW s \in Submissions, OnlySub(s), subs'[s].repo \in Repos,
               subs'[s].status # "none",
               subs[s].status = "pending_review" \/ subs'[s].status # "pending_review",
               subs[s].overlap => subs'[s].overlap
        PROVE  Goal
    <2>1. Decided(s) => Decided(s)'
      BY <1>2 DEF Decided
    <2>2. \A u \in Submissions \ {s} : Decided(u) => Decided(u)'
      BY <1>2 DEF Decided, OnlySub
    <2> QED BY <1>2, <2>1, <2>2 DEF OnlySub, Submitted
  <1>3. ASSUME NEW s \in Submissions, NEW repo \in Repos, NEW ref \in Refs,
               CreateSubmission(s, repo, ref)
        PROVE  Goal
    <2>1. /\ OnlySub(s) /\ subs'[s].repo \in Repos /\ subs'[s].status # "none"
          /\ ~subs[s].overlap /\ subs[s].status = "none"
      BY <1>3, CreateEffect
    <2>2. \A u \in Submissions : Decided(u) => Decided(u)'
      BY <2>1 DEF OnlySub, Decided
    <2> QED BY <2>1, <2>2 DEF OnlySub, Submitted
  <1>4. ASSUME NEW v \in Reviewers, NEW s \in Submissions,
               NEW decision \in {"accepted", "rejected", "duplicate"}, LoadSubmission(v, s, decision)
        PROVE  Goal
    <2>1. /\ OnlySub(s) /\ subs'[s].repo = subs[s].repo /\ subs[s].status = "pending_review"
          /\ subs'[s].status = subs[s].status /\ (subs[s].overlap => subs'[s].overlap)
      BY <1>4, LoadEffect
    <2>2. subs'[s].repo \in Repos
      BY <2>1 DEF Submitted
    <2> HIDE DEF Goal
    <2> QED BY <1>2, <2>1, <2>2
  <1>5. ASSUME NEW v \in Reviewers, MarkSubmissionDecision(v) PROVE Goal
    <2>1. request[v].sub \in Submissions /\ subs[request[v].sub].repo \in Repos
      BY <1>5 DEF MarkSubmissionDecision, Asked
    <2>2. /\ OnlySub(request[v].sub) /\ subs'[request[v].sub].repo = subs[request[v].sub].repo
          /\ subs'[request[v].sub].status \notin {"none", "pending_review"}
          /\ subs'[request[v].sub].overlap = subs[request[v].sub].overlap
      BY <1>5, <2>1, MarkEffect
    <2> HIDE DEF Goal
    <2> QED BY <1>2, <2>1, <2>2
  <1>6. ASSUME NEW v \in Reviewers, StopRequest(v) PROVE Goal
    <2>1. request[v].pc = "enqueue" =>
             request[v].sub \in Submissions /\ subs[request[v].sub].repo \in Repos
      BY DEF Asked
    <2>2. \/ subs' = subs
          \/ /\ request[v].pc = "enqueue" /\ OnlySub(request[v].sub)
             /\ subs'[request[v].sub].repo = subs[request[v].sub].repo
             /\ subs'[request[v].sub].status = subs[request[v].sub].status
             /\ subs[request[v].sub].status # "none"
             /\ subs'[request[v].sub].overlap = subs[request[v].sub].overlap
      BY <1>6, <2>1, StopEffect DEF Asked
    <2> HIDE DEF Goal
    <2> QED BY <1>1, <1>2, <2>1, <2>2
  <1>7. ASSUME \/ \E repo \in Repos, m \in Metas : Push(repo, m)
               \/ \E t \in Imports, repo \in Repos, ref \in Refs, version \in Labels \cup {None} :
                     SubmitPlugin(t, repo, ref, version)
               \/ \E t \in Tasks : TaskStep(t) \/ Crash(t)
               \/ \E t \in Tasks, u \in Retries : RetryTask(t, u)
               \/ \E v \in Reviewers, repo \in Repos, ref \in Refs : ResolveRef(v, repo, ref)
               \/ \E v \in Reviewers : EnqueueAccepted(v) \/ FetchMetadata(v) \/ MatchRepoMetadata(v)
               \/ UNCHANGED vars
        PROVE  subs' = subs
    BY <1>7 DEF Push, SubmitPlugin, RetryTask, TaskStep, RunFails, FirstClone, FindPlugin, RecheckPlugin,
                InsertPlugin, BuildClone, PackFails, StoreVersion, EndImport, Crash, ResolveRef,
                EnqueueAccepted, FetchMetadata, MatchRepoMetadata, vars
  <1> HIDE DEF Goal
  <1>8. ASSUME NEW v \in Reviewers, Review(v) PROVE Goal
    BY <1>1, <1>4, <1>5, <1>6, <1>7, <1>8 DEF Review
  <1>9. Goal
    BY <1>1, <1>3, <1>7, <1>8, StepKinds
  <1> QED BY <1>9 DEF Goal

(* What a request has asked stays true until it answers. *)
LEMMA RequestsInductive ==
    ASSUME TypeOK, \A s \in Submissions : Submitted(s), \A v \in Reviewers : Asked(request[v]),
           [Next]_vars
    PROVE  request' \in [Reviewers -> Request] /\ \A v \in Reviewers : Asked(request[v])'
  <1> DEFINE Goal == request' \in [Reviewers -> Request] /\ \A v \in Reviewers : Asked(request[v])'
  <1>1. ASSUME NEW q, Asked(q) PROVE Asked(q)'
    BY <1>1, SubsStep, HistoryStep DEF Asked
  <1>2. ASSUME NEW v \in Reviewers, request'[v] = request[v] PROVE Asked(request[v])'
    <2>1. ASSUME NEW q, q = request[v] PROVE Asked(request[v])'
      <3>1. Asked(q)' /\ request'[v] = q
        BY <1>1, <1>2, <2>1
      <3> QED BY <3>1 DEF Asked
    <2> QED BY <2>1
  <1>3. ASSUME request' = request PROVE Goal
    BY <1>2, <1>3 DEF TypeOK
  <1>4. ASSUME NEW v \in Reviewers, OnlyRequest(v), Asked(request[v])' PROVE Goal
    BY <1>2, <1>4 DEF OnlyRequest
  <1>5. ASSUME NEW v \in Reviewers, OnlyRequest(v), request'[v].pc = "idle" PROVE Goal
    <2>1. Asked(request[v])'
      BY <1>5 DEF Asked
    <2> HIDE DEF Goal
    <2> QED BY <1>4, <1>5, <2>1
  <1>6. ASSUME NEW v \in Reviewers, Review(v) PROVE Goal
    <2> HIDE DEF Goal
    <2>1. ASSUME NEW s \in Submissions, NEW decision \in {"accepted", "rejected", "duplicate"},
                 LoadSubmission(v, s, decision)
          PROVE  Goal
      <3>1. /\ OnlyRequest(v) /\ request'[v].pc = "decide" /\ request'[v].sub = s
            /\ subs'[s].repo = subs[s].repo /\ subs[s].status = "pending_review"
            /\ subs'[s].status = subs[s].status
        BY <2>1, LoadEffect
      <3>2. Asked(request[v])'
        BY <3>1 DEF Asked, Submitted
      <3> QED BY <1>4, <3>1, <3>2
    <2>2. CASE MarkSubmissionDecision(v)
      <3>1. request[v].sub \in Submissions /\ subs[request[v].sub].repo \in Repos
        BY <2>2 DEF MarkSubmissionDecision, Asked
      <3>2. /\ OnlyRequest(v)
            /\ \/ request'[v].pc = "enqueue" /\ request'[v].sub = request[v].sub
               \/ request'[v].pc = "idle"
            /\ subs'[request[v].sub].repo = subs[request[v].sub].repo
            /\ subs'[request[v].sub].status # "none"
        BY <2>2, <3>1, MarkEffect
      <3>3. Asked(request[v])'
        BY <3>1, <3>2 DEF Asked
      <3> QED BY <1>4, <3>2, <3>3
    <2>3. CASE EnqueueAccepted(v)
      BY <1>5, <2>3, AcceptedEffect
    <2>4. CASE FetchMetadata(v)
      <3>1. request[v].pc = "metadata" /\ request[v].commit \in Commits /\ Known(request[v].commit)
        BY <2>4 DEF FetchMetadata, Asked
      <3>2. /\ OnlyRequest(v) /\ request'[v].pc = "match" /\ request'[v].commit = request[v].commit
            /\ request'[v].meta = Content(request[v].commit) /\ history' = history
        BY <2>4, <3>1, FetchEffect DEF FetchMetadata
      <3>3. Asked(request[v])'
        BY <3>1, <3>2 DEF Asked, Known, Content
      <3> QED BY <1>4, <3>2, <3>3
    <2>5. CASE MatchRepoMetadata(v)
      <3>1. request' = [request EXCEPT ![v] = Idle]
        BY <2>5 DEF MatchRepoMetadata
      <3>2. OnlyRequest(v) /\ request'[v].pc = "idle"
        BY <3>1, IdleRequest, ReplaceRequest
      <3> QED BY <1>5, <3>2
    <2>6. CASE StopRequest(v)
      BY <1>5, <2>6, StopEffect DEF Asked
    <2>7. ASSUME NEW repo \in Repos, NEW ref \in Refs, ResolveRef(v, repo, ref) PROVE Goal
      <3>1. /\ OnlyRequest(v) /\ request'[v].pc = "metadata" /\ history' = history
            /\ request'[v].commit \in Checkout(repo, ref)
        BY <2>7, ResolveEffect DEF ResolveRef
      <3>2. request'[v].commit \in Commits /\ Known(request'[v].commit)
        BY <3>1, CheckedOut
      <3>3. Asked(request[v])'
        BY <3>1, <3>2 DEF Asked, Known
      <3> QED BY <1>4, <3>1, <3>3
    <2> QED BY <1>6, <2>1, <2>2, <2>3, <2>4, <2>5, <2>6, <2>7 DEF Review
  <1>7. ASSUME \/ \E repo \in Repos, m \in Metas : Push(repo, m)
               \/ \E s \in Submissions, repo \in Repos, ref \in Refs : CreateSubmission(s, repo, ref)
               \/ \E t \in Imports, repo \in Repos, ref \in Refs, version \in Labels \cup {None} :
                     SubmitPlugin(t, repo, ref, version)
               \/ \E t \in Tasks : TaskStep(t) \/ Crash(t)
               \/ \E t \in Tasks, u \in Retries : RetryTask(t, u)
               \/ UNCHANGED vars
        PROVE  request' = request
    BY <1>7 DEF Push, CreateSubmission, SubmitPlugin, RetryTask, TaskStep, RunFails, FirstClone, FindPlugin,
                RecheckPlugin, InsertPlugin, BuildClone, PackFails, StoreVersion, EndImport, Crash, vars
  <1> HIDE DEF Goal
  <1>8. Goal
    BY <1>3, <1>6, <1>7, StepKinds
  <1> QED BY <1>8 DEF Goal

(* The answer of an inspection stays true: the commit keeps its content, and *)
(* a version that was built is not forgotten.                               *)
LEMMA PreviewInductive ==
    ASSUME BuildInv, [Next]_vars
    PROVE  /\ preview' \in Preview \cup {None}
           /\ preview' # None => Previewed(preview)'
  <1> USE DEF BuildInv
  <1>1. versions \subseteq versions'
    BY VersionsInductive
  <1>2. CASE preview' = preview
    <2>1. ASSUME NEW p, Previewed(p) PROVE Previewed(p)'
      BY <1>1, <2>1, HistoryStep DEF Previewed, Built
    <2>2. ASSUME NEW p, p = preview, p # None PROVE Previewed(preview)'
      <3>1. Previewed(p)' /\ preview' = p
        BY <1>2, <2>1, <2>2
      <3> QED BY <3>1 DEF Previewed
    <2> QED BY <1>2, <2>2 DEF TypeOK
  <1>3. ASSUME NEW v \in Reviewers, MatchRepoMetadata(v)
        PROVE  preview' \in Preview /\ Previewed(preview)'
    <2> DEFINE q == request[v]
    <2>1. /\ q.pc = "match" /\ preview'.commit = q.commit /\ preview'.meta = q.meta
          /\ preview'.status = "duplicate_commit" => Built(q.meta.key, q.commit)
          /\ UNCHANGED <<history, versions>>
      BY <1>3 DEF MatchRepoMetadata
    <2>2. q.commit \in Commits /\ Known(q.commit) /\ q.meta = Content(q.commit)
      BY <2>1 DEF Asked
    <2>3. q.meta \in Metas
      BY <2>2, KnownContent
    <2>4. preview' \in Preview
      BY <1>3, <2>2, <2>3 DEF MatchRepoMetadata, Preview
    <2> HIDE DEF q
    <2> QED BY <2>1, <2>2, <2>4 DEF Previewed, Known, Content, Built
  <1>4. ASSUME NEW v \in Reviewers, Review(v), ~MatchRepoMetadata(v) PROVE preview' = preview
    BY <1>4 DEF Review, LoadSubmission, MarkSubmissionDecision, EnqueueAccepted, FetchMetadata,
                StopRequest, ResolveRef
  <1>5. ASSUME \/ \E repo \in Repos, m \in Metas : Push(repo, m)
               \/ \E s \in Submissions, repo \in Repos, ref \in Refs : CreateSubmission(s, repo, ref)
               \/ \E t \in Imports, repo \in Repos, ref \in Refs, version \in Labels \cup {None} :
                     SubmitPlugin(t, repo, ref, version)
               \/ \E t \in Tasks : TaskStep(t) \/ Crash(t)
               \/ \E t \in Tasks, u \in Retries : RetryTask(t, u)
               \/ UNCHANGED vars
        PROVE  preview' = preview
    BY <1>5 DEF Push, CreateSubmission, SubmitPlugin, RetryTask, TaskStep, RunFails, FirstClone, FindPlugin,
                RecheckPlugin, InsertPlugin, BuildClone, PackFails, StoreVersion, EndImport, Crash, vars
  <1> QED BY <1>2, <1>3, <1>4, <1>5, StepKinds

(* Whether tasks are queued does not change, and faults are bounded. *)
LEMMA SettingsStep == ASSUME TypeOK, [Next]_vars PROVE redis' = redis /\ faults' \in 0..MaxFaults
  <1>1. ASSUME NEW t \in Tasks, TaskStep(t) \/ Crash(t)
        PROVE  redis' = redis /\ (faults' = faults \/ (faults < MaxFaults /\ faults' = faults + 1))
    BY <1>1 DEF TaskStep, RunFails, FirstClone, FindPlugin,
                RecheckPlugin, InsertPlugin, BuildClone, PackFails, StoreVersion, EndImport, Crash
  <1>2. ASSUME NEW v \in Reviewers, Review(v)
        PROVE  redis' = redis /\ (faults' = faults \/ (faults < MaxFaults /\ faults' = faults + 1))
    BY <1>2 DEF Review, LoadSubmission, MarkSubmissionDecision, EnqueueAccepted, FetchMetadata,
                MatchRepoMetadata, StopRequest, ResolveRef
  <1>3. ASSUME \/ \E repo \in Repos, m \in Metas : Push(repo, m)
               \/ \E s \in Submissions, repo \in Repos, ref \in Refs : CreateSubmission(s, repo, ref)
               \/ \E t \in Imports, repo \in Repos, ref \in Refs, version \in Labels \cup {None} :
                     SubmitPlugin(t, repo, ref, version)
               \/ \E t \in Tasks, u \in Retries : RetryTask(t, u)
               \/ UNCHANGED vars
        PROVE  redis' = redis /\ faults' = faults
    BY <1>3 DEF Push, CreateSubmission, SubmitPlugin, RetryTask, vars
  <1>4. redis' = redis /\ (faults' = faults \/ (faults < MaxFaults /\ faults' = faults + 1))
    BY <1>1, <1>2, <1>3, StepKinds
  <1> QED BY <1>4, RepoImportAssumption DEF TypeOK
-----------------------------------------------------------------------------
(* Reviews.                                                                 *)

(* A task that was made is never unmade, and the task of a submission is    *)
(* made by the reviewer who accepted it.                                    *)
LEMMA TasksStay ==
    ASSUME BuildInv, [Next]_vars, NEW t \in Tasks
    PROVE  /\ task[t] # NotTask => task'[t] # NotTask
           /\ task[t] = NotTask /\ task'[t] # NotTask =>
                 \/ t \in Imports \cup Retries
                 \/ \E v \in Reviewers : EnqueueAccepted(v) /\ t = <<request[v].sub, v>>
  <1> USE DEF BuildInv
  <1>1. ASSUME NEW repo \in Repos, NEW m \in Metas, Push(repo, m)
        PROVE  task[t] # NotTask <=> task'[t] # NotTask
    BY <1>1, PushEffect, NoTaskYet
  <1>2. ASSUME NEW u \in Tasks, TaskStep(u) \/ Crash(u)
        PROVE  task[t] # NotTask <=> task'[t] # NotTask
    <2>1. OnlyTask(u) /\ task[u].pc # "none" /\ task'[u].pc # "none"
      BY <1>2, OwnStep
    <2> QED BY <2>1, NoTaskYet DEF OnlyTask
  <1>3. ASSUME NEW v \in Reviewers, EnqueueAccepted(v), t # <<request[v].sub, v>>
        PROVE  task'[t] = task[t]
    BY <1>3, AcceptedEffect DEF OnlyTask
  <1>4. ASSUME NEW v \in Reviewers, EnqueueAccepted(v), t = <<request[v].sub, v>>
        PROVE  task'[t] # NotTask
    BY <1>4, AcceptedEffect, NoTaskYet
  <1>5. ASSUME NEW u \in Imports, NEW repo \in Repos, NEW ref \in Refs,
               NEW version \in Labels \cup {None}, SubmitPlugin(u, repo, ref, version)
        PROVE  task'[t] = task[t] \/ (t \in Imports /\ task[t] = NotTask)
    <2>1. u \in Tasks /\ EnqueueOrFallback(u, repo, ref, version, None) /\ task[u] = NotTask
      BY <1>5 DEF Tasks, SubmitPlugin
    <2>2. OnlyTask(u)
      BY <2>1, EnqueueEffect
    <2> QED BY <2>1, <2>2 DEF OnlyTask
  <1>6. ASSUME NEW v \in Reviewers, Review(v), ~EnqueueAccepted(v) PROVE task' = task
    BY <1>6 DEF Review, LoadSubmission, MarkSubmissionDecision, FetchMetadata,
                MatchRepoMetadata, StopRequest, ResolveRef
  <1>7. ASSUME \/ \E s \in Submissions, repo \in Repos, ref \in Refs : CreateSubmission(s, repo, ref)
               \/ UNCHANGED vars
        PROVE  task' = task
    BY <1>7 DEF CreateSubmission, vars
  <1>8. ASSUME NEW u \in Tasks, NEW w \in Retries, RetryTask(u, w)
        PROVE  task'[t] = task[t] \/ (t \in Retries /\ task[t] = NotTask)
    BY <1>8, RetryEffect DEF OnlyTask
  <1> QED BY <1>1, <1>2, <1>3, <1>4, <1>5, <1>6, <1>7, <1>8, StepKinds

(* A step that lets nobody decide on s or accept it anew, and leaves its    *)
(* row, leaves its review as it was.                                        *)
LEMMA ReviewStays ==
    ASSUME NEW s \in Submissions, Reviewed(s), Kept(s),
           subs'[s].status = subs[s].status, subs[s].overlap => subs'[s].overlap,
           subs'[s].cut \/ (/\ \A v \in Reviewers : Follows(v, s) => Follows(v, s)'
                            /\ subs[s].cut => subs'[s].cut),
           \A v \in Reviewers : Decides(v, s)' => Decides(v, s),
           \A v \in Reviewers : Follows(v, s)' => Follows(v, s)
    PROVE  Reviewed(s)' /\ Kept(s)'
  <1>1. Reviewed(s)'
    BY DEF Reviewed
  <1>2. Kept(s)'
    BY DEF Kept
  <1> QED BY <1>1, <1>2

(* A submission that one request at a time has loaded goes from pending to  *)
(* one decision, and an acceptance is followed by one task.                 *)
LEMMA ReviewInductive ==
    ASSUME BuildInv, ReviewInv, [Next]_vars
    PROVE  ReviewInv'
  <1> SUFFICES ASSUME NEW s \in Submissions PROVE Reviewed(s)' /\ Kept(s)'
    BY DEF ReviewInv
  <1> USE DEF BuildInv
  <1>a. Reviewed(s) /\ Kept(s)
    BY DEF ReviewInv
  <1>b. \A v \in Reviewers : <<s, v>> \in Tasks \ (Imports \cup Retries)
    BY RepoImportAssumption DEF Tasks, Accepting
  <1>c. \A v \in Reviewers : request[v].pc \in {"decide", "enqueue"} => request[v].sub \in Submissions
    BY DEF Asked
  <1>d. ASSUME NEW v \in Reviewers, task[<<s, v>>] # NotTask PROVE task'[<<s, v>>] # NotTask
    BY <1>b, <1>d, TasksStay
  <1>e. ASSUME NEW v \in Reviewers, task[<<s, v>>] = NotTask, task'[<<s, v>>] # NotTask
        PROVE  EnqueueAccepted(v) /\ request[v].sub = s
    BY <1>b, <1>e, TasksStay
  <1>f. ASSUME NEW v \in Reviewers, EnqueueAccepted(v) PROVE request[v].pc = "enqueue"
    BY <1>f DEF EnqueueAccepted
  <1>1. ASSUME request' = request, subs'[s] = subs[s], \A v \in Reviewers : ~EnqueueAccepted(v)
        PROVE  Reviewed(s)' /\ Kept(s)'
    BY <1>1, <1>a, <1>d, <1>e, ReviewStays DEF Decides, Follows
  <1>2. ASSUME NEW u \in Submissions, NEW repo \in Repos, NEW ref \in Refs,
               CreateSubmission(u, repo, ref)
        PROVE  Reviewed(s)' /\ Kept(s)'
    <2>1. UNCHANGED <<request, task>>
      BY <1>2 DEF CreateSubmission
    <2>2. CASE u # s
      <3>1. subs'[s] = subs[s]
        BY <1>2, <2>2, CreateEffect DEF OnlySub
      <3> QED BY <1>a, <2>1, <3>1, ReviewStays DEF Decides, Follows
    <2>3. CASE u = s
      <3>1. /\ subs[s].status = "none" /\ ~subs[s].overlap
            /\ subs'[s].status = "pending_review" /\ ~subs'[s].overlap
        BY <1>2, <2>3, CreateEffect
      <3>2. \A v \in Reviewers : ~Decides(v, s) /\ ~Follows(v, s)
        BY <1>a, <3>1 DEF Reviewed
      <3>3. \A v \in Reviewers : ~Decides(v, s)' /\ ~Follows(v, s)'
        BY <2>1, <3>2 DEF Decides, Follows
      <3> QED BY <3>1, <3>3 DEF Reviewed, Kept
    <2> QED BY <2>2, <2>3
  <1>3. ASSUME NEW v \in Reviewers, NEW u \in Submissions,
               NEW decision \in {"accepted", "rejected", "duplicate"}, LoadSubmission(v, u, decision)
        PROVE  Reviewed(s)' /\ Kept(s)'
    <2>1. /\ OnlyRequest(v) /\ request[v].pc = "idle"
          /\ request'[v].pc = "decide" /\ request'[v].sub = u
          /\ OnlySub(u) /\ subs[u].status = "pending_review"
          /\ subs'[u].status = subs[u].status
          /\ subs'[u].cut = subs[u].cut
          /\ ~subs'[u].overlap => ~subs[u].overlap /\ Deciding(u) = {}
      BY <1>3, LoadEffect
    <2>2. task' = task
      BY <1>3 DEF LoadSubmission
    <2>3. \A w \in Reviewers : Follows(w, s)' <=> Follows(w, s)
      BY <2>1, <2>2 DEF Follows, OnlyRequest
    <2>4. CASE u # s
      <3>1. subs'[s] = subs[s]
        BY <2>1, <2>4 DEF OnlySub
      <3>2. \A w \in Reviewers : Decides(w, s)' => Decides(w, s)
        BY <2>1, <2>4 DEF Decides, OnlyRequest
      <3> QED BY <1>a, <2>3, <3>1, <3>2, ReviewStays
    <2>5. CASE u = s
      <3>1. Kept(s)'
        BY <2>1, <2>5 DEF Kept
      <3>2. ASSUME ~subs'[s].overlap
            PROVE  /\ \A w \in Reviewers : Decides(w, s)' => w = v
                   /\ \A w \in Reviewers : ~Follows(w, s)'
        <4>1. \A w \in Reviewers : ~Decides(w, s)
          BY <2>1, <2>5, <3>2 DEF Deciding, Decides
        <4>2. \A w \in Reviewers : Decides(w, s)' => w = v
          BY <2>1, <4>1 DEF Decides, OnlyRequest
        <4>3. \A w \in Reviewers : ~Follows(w, s)
          BY <1>a, <2>1, <2>5, <3>2 DEF Reviewed
        <4> QED BY <2>3, <4>2, <4>3
      <3>3. Reviewed(s)'
        BY <2>1, <2>5, <3>2 DEF Reviewed
      <3> QED BY <3>1, <3>3
    <2> QED BY <2>4, <2>5
  <1>4. ASSUME NEW v \in Reviewers, MarkSubmissionDecision(v) PROVE Reviewed(s)' /\ Kept(s)'
    <2> DEFINE u == request[v].sub
    <2>1. request[v].pc = "decide" /\ u \in Submissions /\ task' = task
      BY <1>4, <1>c DEF MarkSubmissionDecision
    <2>2. /\ OnlyRequest(v)
          /\ \/ /\ request[v].decision = "accepted"
                /\ request'[v].pc = "enqueue" /\ request'[v].sub = u
             \/ request[v].decision # "accepted" /\ request'[v].pc = "idle"
          /\ OnlySub(u)
          /\ subs'[u].status = request[v].decision
          /\ subs'[u].overlap = subs[u].overlap
      BY <1>4, <2>1, MarkEffect
    <2>3. CASE u # s
      <3>1. subs'[s] = subs[s]
        BY <2>1, <2>2, <2>3 DEF OnlySub
      <3>2. \A w \in Reviewers : Decides(w, s)' => Decides(w, s)
        BY <2>1, <2>2 DEF Decides, OnlyRequest
      <3>3. \A w \in Reviewers : Follows(w, s)' <=> Follows(w, s)
        BY <2>1, <2>2, <2>3 DEF Follows, OnlyRequest
      <3> QED BY <1>a, <3>1, <3>2, <3>3, ReviewStays
    <2>4. CASE u = s
      <3>1. request[v].decision = "accepted" => Follows(v, s)'
        BY <2>2, <2>4 DEF Follows
      <3>2. Kept(s)'
        BY <2>2, <2>4, <3>1 DEF Kept
      <3>3. ASSUME ~subs[s].overlap PROVE Reviewed(s)'
        <4>1. Decides(v, s) /\ subs[s].status = "pending_review"
          BY <1>a, <2>1, <2>4, <3>3 DEF Decides, Reviewed
        <4>2. \A w \in Reviewers : ~Follows(w, s) /\ (Decides(w, s) => w = v)
          BY <1>a, <3>3, <4>1 DEF Reviewed
        <4>3. \A w \in Reviewers : ~Decides(w, s)'
          BY <2>2, <4>2 DEF Decides, OnlyRequest
        <4>4. \A w \in Reviewers : Follows(w, s)' => w = v /\ request[v].decision = "accepted"
          BY <2>1, <2>2, <4>2 DEF Follows, OnlyRequest
        <4> QED BY <2>2, <2>4, <4>3, <4>4 DEF Reviewed
      <3>4. subs[s].overlap => Reviewed(s)'
        BY <2>2, <2>4 DEF Reviewed
      <3> QED BY <3>2, <3>3, <3>4
    <2> QED BY <2>3, <2>4
  <1>5. ASSUME NEW v \in Reviewers, EnqueueAccepted(v) PROVE Reviewed(s)' /\ Kept(s)'
    <2> DEFINE u == request[v].sub
    <2>1. /\ OnlyRequest(v) /\ request'[v].pc = "idle" /\ request[v].pc = "enqueue"
          /\ <<u, v>> \in Tasks /\ OnlyTask(<<u, v>>) /\ task'[<<u, v>>].pc = "queued"
      BY <1>5, AcceptedEffect
    <2>2. subs' = subs
      BY <1>5 DEF EnqueueAccepted
    <2>3. \A w \in Reviewers : Decides(w, s)' => Decides(w, s)
      BY <2>1 DEF Decides, OnlyRequest
    <2>4. \A w \in Reviewers : w # v \/ u # s => task'[<<s, w>>] = task[<<s, w>>]
      BY <1>b, <2>1 DEF OnlyTask
    <2>5. u = s => Follows(v, s) /\ Follows(v, s)'
      BY <2>1, NoTaskYet DEF Follows
    <2>6. \A w \in Reviewers : Follows(w, s)' <=> Follows(w, s)
      BY <2>1, <2>4, <2>5 DEF Follows, OnlyRequest
    <2> QED BY <1>a, <2>2, <2>3, <2>6, ReviewStays
  <1>6. ASSUME NEW v \in Reviewers, StopRequest(v) PROVE Reviewed(s)' /\ Kept(s)'
    <2> DEFINE u == request[v].sub
    <2>1. request[v].pc = "enqueue" => u \in Submissions
      BY <1>c
    <2>2. /\ OnlyRequest(v) /\ request'[v].pc = "idle"
          /\ \/ subs' = subs /\ request[v].pc # "enqueue"
             \/ /\ request[v].pc = "enqueue" /\ OnlySub(u)
                /\ subs'[u].status = subs[u].status
                /\ subs'[u].overlap = subs[u].overlap
                /\ subs'[u].cut
      BY <1>6, <2>1, StopEffect
    <2>3. task' = task
      BY <1>6 DEF StopRequest
    <2>4. \A w \in Reviewers : /\ Decides(w, s)' => Decides(w, s)
                               /\ Follows(w, s)' => Follows(w, s)
      BY <2>2, <2>3 DEF Decides, Follows, OnlyRequest
    <2>5. CASE request[v].pc = "enqueue" /\ u = s
      BY <1>a, <2>2, <2>4, <2>5, ReviewStays
    <2>6. CASE ~(request[v].pc = "enqueue" /\ u = s)
      <3>1. subs'[s] = subs[s]
        BY <2>1, <2>2, <2>6 DEF OnlySub
      <3>2. \A w \in Reviewers : Follows(w, s) => Follows(w, s)'
        BY <2>2, <2>3, <2>6 DEF Follows, OnlyRequest
      <3> QED BY <1>a, <2>4, <3>1, <3>2, ReviewStays
    <2> QED BY <2>5, <2>6
  <1>7. ASSUME NEW v \in Reviewers, OnlyRequest(v), subs' = subs, task' = task,
               request[v].pc \in {"idle", "metadata", "match"},
               request'[v].pc \in {"idle", "metadata", "match"}
        PROVE  Reviewed(s)' /\ Kept(s)'
    <2>1. \A w \in Reviewers : /\ Decides(w, s)' <=> Decides(w, s)
                               /\ Follows(w, s)' <=> Follows(w, s)
      BY <1>7 DEF Decides, Follows, OnlyRequest
    <2> QED BY <1>7, <1>a, <2>1, ReviewStays
  <1>8. ASSUME NEW v \in Reviewers, Review(v) PROVE Reviewed(s)' /\ Kept(s)'
    <2>1. CASE FetchMetadata(v)
      <3>1. Known(request[v].commit)
        BY <2>1 DEF FetchMetadata, Asked
      <3>2. OnlyRequest(v) /\ request[v].pc = "metadata" /\ request'[v].pc = "match"
        BY <2>1, <3>1, FetchEffect
      <3> QED BY <1>7, <2>1, <3>2 DEF FetchMetadata
    <2>2. CASE MatchRepoMetadata(v)
      <3>1. request' = [request EXCEPT ![v] = Idle] /\ request[v].pc = "match"
        BY <2>2 DEF MatchRepoMetadata
      <3>2. OnlyRequest(v) /\ request'[v].pc = "idle"
        BY <3>1, IdleRequest, ReplaceRequest
      <3> QED BY <1>7, <2>2, <3>1, <3>2 DEF MatchRepoMetadata
    <2>3. ASSUME NEW repo \in Repos, NEW ref \in Refs, ResolveRef(v, repo, ref)
          PROVE  Reviewed(s)' /\ Kept(s)'
      <3>1. OnlyRequest(v) /\ request[v].pc = "idle" /\ request'[v].pc = "metadata"
        BY <2>3, ResolveEffect
      <3> QED BY <1>7, <2>3, <3>1 DEF ResolveRef
    <2> QED BY <1>3, <1>4, <1>5, <1>6, <1>8, <2>1, <2>2, <2>3 DEF Review
  <1>9. ASSUME ~\E v \in Reviewers : Review(v),
               \/ \E repo \in Repos, m \in Metas : Push(repo, m)
               \/ \E t \in Imports, repo \in Repos, ref \in Refs, version \in Labels \cup {None} :
                     SubmitPlugin(t, repo, ref, version)
               \/ \E t \in Tasks : TaskStep(t) \/ Crash(t)
               \/ \E t \in Tasks, u \in Retries : RetryTask(t, u)
               \/ UNCHANGED vars
        PROVE  Reviewed(s)' /\ Kept(s)'
    <2>1. UNCHANGED <<request, subs>>
      BY <1>9 DEF Push, SubmitPlugin, RetryTask, TaskStep, RunFails, FirstClone, FindPlugin, RecheckPlugin,
                  InsertPlugin, BuildClone, PackFails, StoreVersion, EndImport, Crash, vars
    <2>2. \A v \in Reviewers : ~EnqueueAccepted(v)
      BY <1>9 DEF Review
    <2> QED BY <1>1, <2>1, <2>2
  <1> QED BY <1>2, <1>8, <1>9, StepKinds
-----------------------------------------------------------------------------
(* Which acceptance a task and a version carry out.                         *)

(* A reviewer's request and the task it makes: one acceptance, one task. *)
LEMMA SingleInductive ==
    ASSUME BuildInv, TraceInv, [Next]_vars, NEW s \in Submissions, NEW v \in Reviewers
    PROVE  Single(v, s)'
  <1> USE DEF BuildInv
  <1> DEFINE t == <<s, v>>
  <1>a. Single(v, s)
    BY DEF TraceInv
  <1>b. t \in Tasks \ (Imports \cup Retries)
    BY RepoImportAssumption DEF Tasks, Accepting
  <1>c. Decided(s) => Decided(s)'
    BY SubsStep
  <1>d. task'[t] # NotTask => \/ task[t] # NotTask
                              \/ EnqueueAccepted(v) /\ request[v].sub = s
    BY <1>b, TasksStay
  <1>1. CASE ~EnqueueAccepted(v) /\ request'[v] = request[v]
    BY <1>1, <1>a, <1>c, <1>d DEF Single, Decides
  <1>2. ASSUME ~EnqueueAccepted(v), request'[v].pc \in {"idle", "metadata", "match"}
        PROVE  Single(v, s)'
    BY <1>2, <1>a, <1>c, <1>d DEF Single, Decides
  <1>3. CASE EnqueueAccepted(v)
    <2>1. request[v].pc = "enqueue" /\ request'[v].pc = "idle"
      BY <1>3, AcceptedEffect
    <2> QED BY <2>1, <1>a, <1>c, <1>d DEF Single, Decides
  <1>4. ASSUME NEW u \in Submissions, NEW decision \in {"accepted", "rejected", "duplicate"},
               LoadSubmission(v, u, decision), ~EnqueueAccepted(v)
        PROVE  Single(v, s)'
    <2>1. /\ request'[v].pc = "decide" /\ request'[v].sub = u
          /\ subs[u].status = "pending_review"
      BY <1>4, LoadEffect
    <2>2. u = s => task[t] = NotTask
      BY <1>a, <2>1 DEF Single, Decided
    <2> QED BY <1>4, <1>a, <1>c, <1>d, <2>1, <2>2 DEF Single, Decides
  <1>5. CASE MarkSubmissionDecision(v) /\ ~EnqueueAccepted(v)
    <2> DEFINE u == request[v].sub
    <2>1. request[v].pc = "decide" /\ u \in Submissions
      BY <1>5 DEF MarkSubmissionDecision, Asked
    <2>2. /\ \/ request'[v].pc = "enqueue" /\ request'[v].sub = u
             \/ request'[v].pc = "idle"
          /\ subs'[u].status \in {"accepted", "rejected", "duplicate"}
      BY <1>5, <2>1, MarkEffect
    <2>3. u = s => task[t] = NotTask /\ Decided(s)'
      BY <1>a, <2>1, <2>2 DEF Single, Decides, Decided
    <2> QED BY <1>5, <1>a, <1>c, <1>d, <2>2, <2>3 DEF Single, Decides
  <1>6. CASE Review(v)
    <2>1. ASSUME NEW repo \in Repos, NEW ref \in Refs, ResolveRef(v, repo, ref)
          PROVE  request'[v].pc = "metadata"
      BY <2>1, ResolveEffect
    <2>2. ASSUME FetchMetadata(v) PROVE request'[v].pc = "match"
      BY <2>2, FetchEffect DEF FetchMetadata, Asked
    <2>3. ASSUME MatchRepoMetadata(v) PROVE request'[v].pc = "idle"
      BY <2>3, IdleRequest DEF MatchRepoMetadata, TypeOK
    <2>4. ASSUME StopRequest(v) PROVE request'[v].pc = "idle"
      BY <2>4, StopEffect DEF Asked
    <2> QED BY <1>2, <1>3, <1>4, <1>5, <1>6, <2>1, <2>2, <2>3, <2>4 DEF Review
  <1>7. ASSUME NEW w \in Reviewers, Review(w), w # v PROVE request'[v] = request[v]
    BY <1>7 DEF Review, LoadSubmission, MarkSubmissionDecision, EnqueueAccepted, FetchMetadata,
                MatchRepoMetadata, StopRequest, ResolveRef, TypeOK
  <1>8. ASSUME \/ \E repo \in Repos, m \in Metas : Push(repo, m)
               \/ \E u \in Submissions, repo \in Repos, ref \in Refs : CreateSubmission(u, repo, ref)
               \/ \E u \in Imports, repo \in Repos, ref \in Refs, version \in Labels \cup {None} :
                     SubmitPlugin(u, repo, ref, version)
               \/ \E u \in Tasks : TaskStep(u) \/ Crash(u)
               \/ \E u \in Tasks, w \in Retries : RetryTask(u, w)
               \/ UNCHANGED vars
        PROVE  request' = request
    BY <1>8 DEF Push, CreateSubmission, SubmitPlugin, RetryTask, TaskStep, RunFails, FirstClone,
                FindPlugin, RecheckPlugin, InsertPlugin, BuildClone, PackFails, StoreVersion,
                EndImport, Crash, vars
  <1>9. ~Review(v) => ~EnqueueAccepted(v)
    BY DEF Review
  <1> QED BY <1>1, <1>6, <1>7, <1>8, <1>9, StepKinds

(* What carries out an acceptance does so for good. *)
LEMMA ForStays ==
    ASSUME BuildInv, [Next]_vars, NEW s, NEW p, NEW q, For(p, s), q.ref = p.ref
    PROVE  For(q, s)'
  <1>1. s \in Submissions /\ subs[s].status # "none" /\ p.ref = subs[s].ref
    BY DEF For
  <1>2. subs'[s].status # "none" /\ subs'[s].ref = subs[s].ref
    BY <1>1, SubsStep DEF BuildInv
  <1>3. PICK v \in Reviewers : task[<<s, v>>] # NotTask
    BY DEF For
  <1>4. <<s, v>> \in Tasks
    BY <1>1 DEF Tasks, Accepting
  <1>5. task'[<<s, v>>] # NotTask
    BY <1>3, <1>4, TasksStay
  <1> QED BY <1>1, <1>2, <1>5 DEF For

(* What a step does to a task that exists: it keeps its submission and its  *)
(* ref, and is past its first try once it was.  A task that is made is      *)
(* accepted, started directly, or a copy.                                   *)
SameTask(t) == /\ task[t] = NotTask => task'[t] = NotTask
               /\ task'[t].sub = task[t].sub /\ task'[t].ref = task[t].ref
               /\ task[t].again => task'[t].again
               /\ Past(task[t]) => Past(task'[t])

LEMMA TaskTrace ==
    ASSUME BuildInv, TraceInv, [Next]_vars, NEW t \in Tasks
    PROVE  \/ SameTask(t)
           \/ /\ task[t] = NotTask
              /\ \/ \E v \in Reviewers : EnqueueAccepted(v) /\ t = <<request[v].sub, v>>
                 \/ t \in Imports /\ task'[t].sub = None
                 \/ /\ t \in Retries /\ task'[t].again
                    /\ \E u \in Tasks : /\ task[u] # NotTask /\ task'[t].ref = task[u].ref
                                        /\ task'[t].sub = task[u].sub
  <1> USE DEF BuildInv
  <1>1. ASSUME NEW repo \in Repos, NEW m \in Metas, Push(repo, m) PROVE SameTask(t)
    BY <1>1, PushEffect, NoTaskYet DEF SameTask, Past
  <1>2. ASSUME task'[t] = task[t] PROVE SameTask(t)
    BY <1>2 DEF SameTask
  <1>3. ASSUME NEW u \in Tasks, TaskStep(u) \/ Crash(u) PROVE SameTask(t)
    <2>1. CASE u = t
      BY <1>3, <2>1, OwnStep, NoTaskYet DEF SameTask
    <2>2. CASE u # t
      BY <1>2, <1>3, <2>2, OwnStep DEF OnlyTask
    <2> QED BY <2>1, <2>2
  <1>4. ASSUME NEW v \in Reviewers, EnqueueAccepted(v)
        PROVE  SameTask(t) \/ (task[t] = NotTask /\ t = <<request[v].sub, v>>)
    <2>1. /\ request[v].pc = "enqueue" /\ request[v].sub \in Submissions
          /\ OnlyTask(<<request[v].sub, v>>)
      BY <1>4, AcceptedEffect
    <2>2. CASE t = <<request[v].sub, v>>
      BY <2>1, <2>2 DEF TraceInv, Single
    <2>3. CASE t # <<request[v].sub, v>>
      BY <1>2, <2>1, <2>3 DEF OnlyTask
    <2> QED BY <2>2, <2>3
  <1>5. ASSUME NEW u \in Imports, NEW repo \in Repos, NEW ref \in Refs,
               NEW version \in Labels \cup {None}, SubmitPlugin(u, repo, ref, version)
        PROVE  SameTask(t) \/ (task[t] = NotTask /\ t \in Imports /\ task'[t].sub = None)
    <2>1. u \in Tasks /\ EnqueueOrFallback(u, repo, ref, version, None) /\ task[u] = NotTask
      BY <1>5 DEF Tasks, SubmitPlugin
    <2>2. OnlyTask(u) /\ task'[u].sub = None
      BY <2>1, EnqueueEffect
    <2> QED BY <1>2, <2>1, <2>2 DEF OnlyTask
  <1>6. ASSUME NEW u \in Tasks, NEW w \in Retries, RetryTask(u, w)
        PROVE  \/ SameTask(t)
               \/ /\ task[t] = NotTask /\ t \in Retries /\ task'[t].again
                  /\ task[u] # NotTask /\ task'[t].ref = task[u].ref /\ task'[t].sub = task[u].sub
    <2>1. /\ OnlyTask(w) /\ task[w] = NotTask /\ task[u].pc # "none" /\ task'[w].again
          /\ task'[w].ref = task[u].ref /\ task'[w].sub = task[u].sub
      BY <1>6, RetryEffect
    <2> QED BY <1>2, <2>1, NoTaskYet DEF OnlyTask
  <1>7. ASSUME NEW v \in Reviewers, Review(v), ~EnqueueAccepted(v) PROVE SameTask(t)
    BY <1>2, <1>7 DEF Review, LoadSubmission, MarkSubmissionDecision, FetchMetadata,
                MatchRepoMetadata, StopRequest, ResolveRef
  <1>8. ASSUME \/ \E s \in Submissions, repo \in Repos, ref \in Refs : CreateSubmission(s, repo, ref)
               \/ UNCHANGED vars
        PROVE  SameTask(t)
    BY <1>2, <1>8 DEF CreateSubmission, vars
  <1> QED BY <1>1, <1>3, <1>4, <1>5, <1>6, <1>7, <1>8, StepKinds

(* Every task can be traced to the acceptance it carries out, if any. *)
LEMMA TracedInductive ==
    ASSUME BuildInv, TraceInv, [Next]_vars, NEW t \in Tasks
    PROVE  Traced(t)'
  <1> SUFFICES ASSUME task'[t] # NotTask PROVE Traced(t)'
    BY DEF Traced
  <1>0. Traced(t)
    BY DEF TraceInv
  <1>a. ASSUME NEW s, NEW p, For(p, s), task'[t].ref = p.ref PROVE For(task[t], s)'
    <2>1. ASSUME NEW q, q = task'[t] PROVE For(task[t], s)'
      <3>1. For(q, s)'
        BY <1>a, <2>1, ForStays
      <3> QED BY <2>1, <3>1 DEF For
    <2> QED BY <2>1
  <1>1. CASE SameTask(t) /\ task[t] # NotTask
    <2>1. task'[t].sub # None => For(task[t], task[t].sub)'
      <3>1. ASSUME task'[t].sub # None PROVE For(task[t], task[t].sub)
        BY <1>0, <1>1, <3>1 DEF Traced, SameTask
      <3>2. ASSUME NEW s, s = task[t].sub, task'[t].sub # None PROVE For(task[t], s)'
        <4>1. ASSUME NEW p, p = task[t] PROVE For(task[t], s)'
          BY <1>1, <1>a, <3>1, <3>2, <4>1 DEF SameTask
        <4> QED BY <4>1
      <3>3. task'[t].sub = task[t].sub
        BY <1>1 DEF SameTask
      <3> QED BY <3>2, <3>3
    <2> QED BY <1>0, <1>1, <2>1 DEF Traced, SameTask
  <1>2. ASSUME NEW v \in Reviewers, EnqueueAccepted(v), t = <<request[v].sub, v>>
        PROVE  Traced(t)'
    <2>1. /\ request[v].pc = "enqueue" /\ request[v].sub \in Submissions
          /\ task'[t].ref = subs[request[v].sub].ref /\ task'[t].sub = request[v].sub
      BY <1>2, AcceptedEffect DEF BuildInv
    <2>2. subs[request[v].sub].status # "none" /\ subs' = subs
      BY <1>2, <2>1 DEF BuildInv, Asked, EnqueueAccepted
    <2>3. t \in Accepting /\ t[1] = request[v].sub
      BY <1>2, <2>1 DEF Accepting
    <2>4. For(task[t], task[t].sub)'
      BY <1>2, <2>1, <2>2 DEF For
    <2> QED BY <2>1, <2>3, <2>4 DEF Traced
  <1>3. CASE t \in Imports /\ task'[t].sub = None
    BY <1>3, RepoImportAssumption DEF Traced
  <1>4. ASSUME t \in Retries, task'[t].again, NEW u \in Tasks, task[u] # NotTask,
               task'[t].ref = task[u].ref, task'[t].sub = task[u].sub
        PROVE  Traced(t)'
    <2>1. t \notin Accepting
      BY <1>4, RepoImportAssumption
    <2>2. ASSUME task'[t].sub # None PROVE For(task[u], task[u].sub)
      BY <1>4, <2>2 DEF TraceInv, Traced
    <2>3. ASSUME NEW s, s = task[u].sub, task'[t].sub # None PROVE For(task[t], s)'
      <3>1. ASSUME NEW p, p = task[u] PROVE For(task[t], s)'
        BY <1>4, <1>a, <2>2, <2>3, <3>1
      <3> QED BY <3>1
    <2>4. task'[t].sub # None => For(task[t], task[t].sub)'
      BY <1>4, <2>3
    <2> QED BY <1>4, <2>1, <2>4 DEF Traced
  <1>5. SameTask(t) => task[t] # NotTask
    BY DEF SameTask
  <1> QED BY <1>1, <1>2, <1>3, <1>4, <1>5, TaskTrace

(* A version that was stored can be traced likewise, and of a submission    *)
(* that was decided once only one was stored at a first try.                *)
LEMMA TracedVersions ==
    ASSUME BuildInv, ReviewInv, TraceInv, [Next]_vars
    PROVE  (\A x \in versions' : TracedVersion(x)') /\ (\A s \in Submissions : Once(s)')
  <1> DEFINE Goal == /\ \A x \in versions' : TracedVersion(x)'
                     /\ \A s \in Submissions : Once(s)'
  <1>0. \A s \in Submissions : subs[s].overlap => subs'[s].overlap
    BY SubsStep DEF BuildInv
  <1>1. ASSUME NEW s \in Submissions, NEW v \in Reviewers, task[<<s, v>>] # NotTask
        PROVE  /\ task'[<<s, v>>] # NotTask
               /\ Past(task[<<s, v>>]) => Past(task'[<<s, v>>])
    <2>1. <<s, v>> \in Tasks
      BY DEF Tasks, Accepting
    <2>2. task'[<<s, v>>] # NotTask
      BY <1>1, <2>1, TasksStay
    <2>3. SameTask(<<s, v>>)
      BY <1>1, <2>1, TaskTrace
    <2> QED BY <2>2, <2>3 DEF SameTask
  <1>2. ASSUME NEW x, TracedVersion(x) PROVE TracedVersion(x)'
    <2> SUFFICES ASSUME x.sub # None PROVE TracedVersion(x)'
      BY DEF TracedVersion
    <2>1. For(x, x.sub) /\ x.sub \in Submissions
      BY <1>2 DEF TracedVersion, For
    <2>2. For(x, x.sub)'
      BY <2>1, ForStays
    <2>3. ASSUME ~x.again
          PROVE  \E v \in Reviewers : task'[<<x.sub, v>>] # NotTask /\ Past(task'[<<x.sub, v>>])
      BY <1>1, <1>2, <2>1, <2>3 DEF TracedVersion
    <2> QED BY <2>2, <2>3 DEF TracedVersion, Past
  <1>3. CASE versions' = versions
    BY <1>0, <1>2, <1>3 DEF TraceInv, Once, VersionsFor
  <1>4. ASSUME NEW t \in Tasks, StoreVersion(t), ~Built(task[t].meta.key, task[t].commit)
        PROVE  Goal
    <2> DEFINE q == task[t]
               x == [key |-> q.meta.key,
                     label |-> IF q.version = None THEN q.meta.version ELSE q.version,
                     commit |-> q.commit, ref |-> q.ref, given |-> q.version # None,
                     repo |-> q.repo, pushed |-> q.pushed, sub |-> q.sub, again |-> q.again]
    <2>1. q.pc = "store" /\ q # NotTask /\ versions' = versions \cup {x}
      BY <1>4, NoTaskYet DEF StoreVersion
    <2>2. x.sub = q.sub /\ x.ref = q.ref /\ x.again = q.again
      OBVIOUS
    <2>3. Past(task'[t])
      BY <1>4, OwnStep DEF TaskStep, BuildInv
    <2>4. /\ q.sub # None => For(q, q.sub)
          /\ q.sub # None /\ ~q.again => t \in Accepting /\ t[1] = q.sub
      BY <2>1 DEF TraceInv, Traced
    <2>5. ASSUME q.sub # None, ~q.again
          PROVE  /\ t[2] \in Reviewers /\ q.sub \in Submissions /\ t = <<q.sub, t[2]>>
                 /\ Follows(t[2], q.sub) /\ ~Past(task[<<q.sub, t[2]>>])
      <3>1. t[2] \in Reviewers /\ q.sub \in Submissions /\ t = <<q.sub, t[2]>>
        BY <2>4, <2>5 DEF Accepting
      <3>2. task[<<q.sub, t[2]>>] # NotTask /\ ~Past(task[<<q.sub, t[2]>>])
        BY <2>1, <2>5, <3>1 DEF Past
      <3> QED BY <3>1, <3>2 DEF Follows
    <2> HIDE DEF q, x
    <2>6. ASSUME NEW y, y = x PROVE TracedVersion(y)'
      <3> SUFFICES ASSUME y.sub # None PROVE TracedVersion(y)'
        BY DEF TracedVersion
      <3>1. For(y, y.sub)'
        BY <2>2, <2>4, <2>6, ForStays DEF q
      <3>2. ASSUME ~y.again
            PROVE  \E v \in Reviewers : task'[<<y.sub, v>>] # NotTask /\ Past(task'[<<y.sub, v>>])
        <4>1. /\ t[2] \in Reviewers /\ t = <<y.sub, t[2]>> /\ task[t] # NotTask
              /\ y.sub \in Submissions
          BY <2>1, <2>2, <2>5, <2>6, <3>2 DEF q
        <4>2. task'[t] # NotTask
          BY <1>1, <4>1
        <4> QED BY <2>3, <4>1, <4>2
      <3> QED BY <3>1, <3>2 DEF TracedVersion, Past
    <2>7. ASSUME NEW y \in versions, y.sub = x.sub, ~y.again, x.sub \in Submissions, ~x.again
          PROVE  subs[x.sub].overlap
      <3>1. x.sub # None
        BY <2>7, RepoImportAssumption
      <3>2. PICK w \in Reviewers : Follows(w, x.sub) /\ Past(task[<<x.sub, w>>])
        BY <2>7, <3>1 DEF TraceInv, TracedVersion, Follows
      <3>3. t[2] \in Reviewers /\ Follows(t[2], x.sub) /\ ~Past(task[<<x.sub, t[2]>>])
        BY <2>2, <2>5, <2>7, <3>1
      <3> QED BY <2>7, <3>2, <3>3 DEF ReviewInv, Reviewed
    <2>8. ASSUME NEW s \in Submissions PROVE Once(s)'
      <3> SUFFICES ASSUME ~subs'[s].overlap,
                          NEW y \in versions', NEW z \in versions', y.sub = s, z.sub = s,
                          ~y.again, ~z.again
                   PROVE  y = z
        BY DEF Once, VersionsFor
      <3>1. ~subs[s].overlap
        BY <1>0
      <3>2. CASE y \in versions /\ z \in versions
        BY <3>1, <3>2 DEF TraceInv, Once, VersionsFor
      <3> QED BY <2>1, <2>7, <3>1, <3>2
    <2>9. \A y \in versions : TracedVersion(y)'
      BY <1>2 DEF TraceInv
    <2> QED BY <2>1, <2>6, <2>8, <2>9
  <1> HIDE DEF Goal
  <1>5. Goal
    BY <1>3, <1>4, VersionsStep DEF Goal
  <1> QED BY <1>5 DEF Goal

LEMMA TraceInductive ==
    ASSUME BuildInv, ReviewInv, TraceInv, [Next]_vars
    PROVE  TraceInv'
  BY TracedInductive, TracedVersions, SingleInductive DEF TraceInv
-----------------------------------------------------------------------------
(* The theorems.                                                            *)

(* The invariant holds before anything was submitted. *)
LEMMA InitInv == Init => BuildInv /\ ReviewInv /\ TraceInv
  <1> SUFFICES ASSUME Init PROVE BuildInv /\ ReviewInv /\ TraceInv
    OBVIOUS
  <1> USE DEF Init
  <1>1. history \in [Repos -> UNION {[1..n -> Metas] : n \in 1..MaxCommits}]
    <2>1. \A r \in Repos : history[r] \in [1..1 -> Metas]
      BY DEF Init
    <2>2. 1 \in 1..MaxCommits
      BY RepoImportAssumption
    <2>3. \A r \in Repos : history[r] \in UNION {[1..n -> Metas] : n \in 1..MaxCommits}
      BY <2>1, <2>2
    <2> QED BY <2>3
  <1>2. NotMade \in Submission /\ NotMade.status = "none" /\ ~NotMade.overlap
    BY DEF NotMade, Submission, Refs
  <1>3. NoPlugin \in Plugin
    BY DEF NoPlugin, Plugin
  <1>4. TypeOK
    BY <1>1, <1>2, <1>3, NoTaskYet, IdleRequest, RepoImportAssumption DEF TypeOK
  <1>5. BuildInv
    BY <1>2, <1>4, NoTaskYet, IdleRequest
       DEF BuildInv, Submitted, Asked, Rooted, Founded, ReadFrom, Distinct
  <1>6. \A s \in Submissions, v \in Reviewers : ~Decides(v, s) /\ ~Follows(v, s)
    BY IdleRequest DEF Decides, Follows, Tasks, Accepting
  <1>7. ReviewInv
    BY <1>2, <1>6 DEF ReviewInv, Reviewed, Kept
  <1>8. \A s \in Submissions, v \in Reviewers : Single(v, s)
    BY <1>6, IdleRequest DEF Single, Tasks, Accepting
  <1>9. TraceInv
    BY <1>8 DEF TraceInv, Traced, TracedVersion, Once, VersionsFor
  <1> QED BY <1>5, <1>7, <1>9

(* Every step keeps it. *)
LEMMA NextInv ==
    BuildInv /\ ReviewInv /\ TraceInv /\ [Next]_vars => BuildInv' /\ ReviewInv' /\ TraceInv'
  <1> SUFFICES ASSUME BuildInv, ReviewInv, TraceInv, [Next]_vars
               PROVE  BuildInv' /\ ReviewInv' /\ TraceInv'
    OBVIOUS
  <1>1. ReviewInv' /\ TraceInv'
    BY ReviewInductive, TraceInductive
  <1>2. preview' \in Preview \cup {None} /\ (preview' # None => Previewed(preview)')
    BY PreviewInductive
  <1> USE DEF BuildInv
  <1>3. TypeOK'
    BY <1>2, SettingsStep, HistoryStep, SubsStep, RequestsInductive, TaskMoves, PluginsStep,
       VersionsInductive
       DEF TypeOK
  <1>4. (\A s \in Submissions : Submitted(s))' /\ (\A v \in Reviewers : Asked(request[v]))'
    BY SubsStep, RequestsInductive
  <1>5. (\A k \in Keys : Rooted(k))' /\ (\A t \in Tasks : Founded(task[t]) /\ ReadFrom(task[t]))'
    BY PluginsStep, TasksInductive
  <1>6. (\A x \in versions : Sound(x))' /\ Distinct(versions)'
    BY VersionsInductive DEF Distinct
  <1>7. BuildInv'
    BY <1>2, <1>3, <1>4, <1>5, <1>6
  <1> QED BY <1>1, <1>7

(* So it holds in every reachable state. *)
LEMMA ImportInvariant == Spec => [](BuildInv /\ ReviewInv /\ TraceInv)
  BY InitInv, NextInv, PTL DEF Spec

(* Rows, requests, tasks and histories are well formed.                     *)
THEOREM TypeCorrect == Spec => []TypeOK
  <1>1. BuildInv => TypeOK
    BY DEF BuildInv
  <1> QED BY <1>1, ImportInvariant, PTL

(* Whatever repository is submitted under the key of a plugin, and however  *)
(* many imports of it run at a time, versions are built from the plugin's   *)
(* own repository, out of content with its key and author, and no commit    *)
(* twice.                                                                   *)
THEOREM BuildsComeFromThePlugin == Spec => []BuiltFromPluginsRepository
  <1>1. BuildInv => BuiltFromPluginsRepository
    BY DEF BuildInv, Sound, FromPlugin, Distinct, BuiltFromPluginsRepository
  <1> QED BY <1>1, ImportInvariant, PTL

(* A label differs from the metadata that was built only when it was given, *)
(* or when the two clones read a moving ref with a push between them, or    *)
(* two different repositories.                                              *)
THEOREM LabelsTellTheContent == Spec => []LabelTellsContent
  <1>1. BuildInv => LabelTellsContent
    BY DEF BuildInv, Sound, Tells, LabelTellsContent
  <1> QED BY <1>1, ImportInvariant, PTL

(* The commit a reviewer was shown becomes a version of the key that was    *)
(* shown, and with the label that was shown when the import was pinned.     *)
THEOREM ReviewersSeeWhatIsBuilt == Spec => []ImportedAsPreviewed
  <1>1. BuildInv => ImportedAsPreviewed
    <2> SUFFICES ASSUME BuildInv, preview # None
                 PROVE  /\ \A x \in versions : x.commit = preview.commit =>
                              /\ x.key = preview.meta.key
                              /\ x.ref # Tip /\ ~x.given => x.label = preview.meta.version
                        /\ preview.status = "duplicate_commit" =>
                              Built(preview.meta.key, preview.commit)
      BY DEF ImportedAsPreviewed
    <2>1. Previewed(preview) /\ \A x \in versions : Sound(x)
      BY DEF BuildInv
    <2> QED BY <2>1 DEF Previewed, Sound, FromPlugin, Matches, Tells
  <1> QED BY <1>1, ImportInvariant, PTL

(* A submission becomes a version only when it was accepted, and one        *)
(* version unless its ref moves and either a task started again or two      *)
(* reviewers had loaded it at the same time.                                *)
THEOREM ImportsFollowAcceptance == Spec => []ImportedOnAcceptance
  <1>1. BuildInv /\ ReviewInv /\ TraceInv => ImportedOnAcceptance
    <2> SUFFICES ASSUME BuildInv, ReviewInv, TraceInv, NEW s \in Submissions
                 PROVE  /\ VersionsFor(s) # {} => subs[s].status = "accepted" \/ subs[s].overlap
                        /\ \A x, y \in VersionsFor(s) :
                              x # y => /\ subs[s].ref = Tip
                                       /\ subs[s].overlap \/ x.again \/ y.again
      BY DEF ImportedOnAcceptance
    <2>1. ASSUME NEW x \in VersionsFor(s)
          PROVE  x \in versions /\ Sound(x) /\ For(x, s)
      <3>1. x \in versions /\ x.sub = s /\ s # None
        BY RepoImportAssumption DEF VersionsFor
      <3> QED BY <3>1 DEF BuildInv, TraceInv, TracedVersion
    <2>2. ASSUME NEW x \in VersionsFor(s), ~subs[s].overlap PROVE subs[s].status = "accepted"
      <3>1. PICK v \in Reviewers : Follows(v, s)
        BY <2>1, <2>2 DEF For, Follows
      <3> QED BY <2>2, <3>1 DEF ReviewInv, Reviewed
    <2>3. ASSUME NEW x \in VersionsFor(s), NEW y \in VersionsFor(s), subs[s].ref # Tip
          PROVE  x = y
      <3>1. x.commit = y.commit
        BY <2>1, <2>3 DEF For, Sound
      <3>2. x.key = Content(x.commit).key /\ y.key = Content(y.commit).key
        BY <2>1 DEF Sound, FromPlugin, Matches
      <3> QED BY <2>1, <3>1, <3>2 DEF BuildInv, Distinct
    <2>4. ASSUME NEW x \in VersionsFor(s), NEW y \in VersionsFor(s),
                 ~subs[s].overlap, ~x.again, ~y.again
          PROVE  x = y
      BY <2>4 DEF TraceInv, Once
    <2> QED BY <2>2, <2>3, <2>4
  <1> QED BY <1>1, ImportInvariant, PTL

(* No acceptance is forgotten, unless a fault cut its request short between *)
(* the decision and the task.                                               *)
THEOREM AcceptancesAreImported == Spec => []AcceptedIsImported
  <1>1. ReviewInv => AcceptedIsImported
    BY DEF ReviewInv, Kept, Follows, AcceptedIsImported
  <1> QED BY <1>1, ImportInvariant, PTL
=============================================================================
