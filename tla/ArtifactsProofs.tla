-------------------------- MODULE ArtifactsProofs ---------------------------
(* Proofs about Artifacts: an object that is served is one that passed, a   *)
(* version that is built has its object, and no object is left that no row  *)
(* names, for any number of versions, of processes and of faults.           *)
EXTENDS Artifacts, TLAPS

Making   == {"put upload", "insert", "put build", "update"}
Storing  == {"insert", "update"}
Scans    == {"scan", "build scan"}
Deleting == {"delete object", "delete row"}

IsMaking(p, v) == proc[p].pc \in Making /\ proc[p].version = v

(* A row is under the key its object gets or, before, under a placeholder.  *)
RowKnown(v) == /\ Made(v) => v \in begun /\ rows[v].key \in {FinalKey(v), Placeholder(v)}
               /\ ~Made(v) => rows[v] = NoRow

(* What the object under a key can contain: what some version that was      *)
(* begun puts there.                                                        *)
Puts(key, c) == c = None \/ \E w \in begun : FinalKey(w) = key /\ c = Content(w)

(* What a process has established by the point it has reached. *)
ProcKnown(q) ==
    /\ q.pc \notin {"idle", "delete objects"} => q.version \in begun
    /\ q.pc \in Storing => q.key = FinalKey(q.version)
    /\ q.pc \in Deleting => q.key \in {FinalKey(q.version), Placeholder(q.version)}
    /\ q.pc \in Scans => Puts(FinalKey(q.version), q.content)
    /\ q.pc = "delete objects" =>
          \A key \in q.keys : \E w \in begun : key \in {FinalKey(w), Placeholder(w)}

(* A version is made by one process only; until it has its row under its    *)
(* final key, nobody deletes by that key on its account, so the object is   *)
(* there when the row is written.                                           *)
Unmade(v) ==
    \A p \in Procs : IsMaking(p, v) =>
        /\ rows[v].key # FinalKey(v)
        /\ \A q \in Procs : proc[q].pc \in Deleting /\ proc[q].version = v =>
                               proc[q].key # FinalKey(v)
        /\ \A q \in Procs : IsMaking(q, v) => q = p
        /\ \A q \in Procs : proc[q].pc = "delete objects" /\ FinalKey(v) \in proc[q].keys =>
                               Sharing(v) # {}
        /\ proc[p].pc \in Storing => bucket[FinalKey(v)] # None \/ Sharing(v) # {}

(* Whoever is about to delete the object of a version with the objects of   *)
(* a plugin deletes the version's own plugin.                               *)
Swept(v) ==
    \A p \in Procs :
        proc[p].pc = "delete objects" /\ FinalKey(v) \in proc[p].keys
            /\ rows[v].key = FinalKey(v) =>
        Sharing(v) # {} \/ rows[v].plugin = proc[p].plugin

(* BuiltHasObject, for whatever status the row has by now. *)
HasObject(v) ==
    rows[v].key = FinalKey(v) /\ bucket[FinalKey(v)] = None =>
        \/ Sharing(v) # {}
        \/ v \in undone
        \/ \E p \in Procs : \/ proc[p].pc = "delete row" /\ proc[p].version = v
                            \/ proc[p].pc = "delete objects" /\ proc[p].plugin = rows[v].plugin

(* A row that is about to be deleted with its object names the key no more. *)
Dying(v, key) == \E p \in Procs : /\ proc[p].pc = "delete row"
                                  /\ proc[p].version = v /\ proc[p].key = key

Names(v, key) == Made(v) /\ rows[v].key = key /\ ~Dying(v, key)

Named(key) ==
    bucket[key] # None =>
        \/ key \in leaked
        \/ \E v \in Versions : Names(v, key)
        \/ \E p \in Procs : proc[p].pc \in Storing /\ proc[p].key = key

KnownInv == /\ TypeOK
            /\ \A v \in Versions : RowKnown(v)
            /\ \A v \in Versions : /\ Puts(FinalKey(v), rows[v].passed)
                                   /\ Puts(FinalKey(v), rows[v].served)
            /\ \A key \in Keys : Puts(key, bucket[key])
            /\ \A p \in Procs : ProcKnown(proc[p])

ArtifactsInv == /\ KnownInv
                /\ \A v \in Versions : Unmade(v) /\ Swept(v) /\ HasObject(v)
                /\ \A key \in Keys : Named(key)
-----------------------------------------------------------------------------
(* Keys and contents.                                                       *)

(* Two versions of one number that come from the same place. *)
Alike(w, v) == source[w].number = source[v].number /\ Origin(w) = Origin(v)

(* Keys and contents are well formed; what is stored is something; the      *)
(* final keys of two versions are the same when number and origin are; and  *)
(* no final key is a placeholder.                                           *)
LEMMA KeysOf ==
    ASSUME TypeOK, NEW v \in Versions
    PROVE  /\ FinalKey(v) \in Keys /\ Placeholder(v) \in Keys
           /\ FinalKey(v) # None /\ Placeholder(v) # None
           /\ Content(v) \in Contents /\ Content(v) # None
           /\ \A w \in Versions : FinalKey(w) # Placeholder(v)
           /\ \A w \in Versions : FinalKey(w) = FinalKey(v) => Alike(w, v)
  <1>1. /\ source[v] \in Sources /\ source[v].number \in Numbers
        /\ source[v].commit \in Commits \cup {None}
    BY DEF TypeOK, Sources
  <1>0. \A c \in Commits : Short[c] \in Digits
    BY DEF Digits
  <1>2. FinalKey(v) \in Keys /\ Placeholder(v) \in Keys
    BY <1>0, <1>1 DEF FinalKey, Placeholder, Manual, Keys
  <1>3. Content(v) \in Contents /\ Content(v) # None
    BY <1>1, ArtifactsAssumption DEF Content, Contents
  <1>4. ASSUME NEW w \in Versions
        PROVE  /\ FinalKey(w) # Placeholder(v)
               /\ FinalKey(w) = FinalKey(v) => Alike(w, v)
    <2>1. /\ source[w] \in Sources /\ source[w].number \in Numbers
          /\ source[w].commit \in Commits \cup {None}
      BY DEF TypeOK, Sources
    <2>2. FinalKey(w) # Placeholder(v)
      BY <1>0, <1>1, <2>1, ArtifactsAssumption DEF FinalKey, Placeholder, Manual
    <2>3. FinalKey(w) = FinalKey(v) => Alike(w, v)
      BY <1>0, <1>1, <2>1, ArtifactsAssumption DEF FinalKey, Manual, Alike, Origin
    <2> QED BY <2>2, <2>3
  <1> QED BY <1>2, <1>3, <1>4, ArtifactsAssumption

(* The steps of one process, and those of nobody's. *)
Step(p) ==
    \/ \E v \in Versions : \/ UploadPlugin(p, v) \/ UploadVersion(p, v) \/ StartBuild(p, v)
                           \/ StartScan(p, v) \/ DeleteVersion(p, v)
    \/ PutUpload(p) \/ InsertUpload(p)
    \/ PutBuild(p) \/ UpdateBuild(p) \/ BuildFails(p)
    \/ \E passed \in BOOLEAN : FinishScan(p, passed)
    \/ DeleteObject(p) \/ DeleteRow(p)
    \/ DeletePlugin(p) \/ DeletePluginRows(p)
    \/ \E key \in Keys : DeletePluginObject(p, key)
    \/ Stop(p)

(* What a version is made of never changes, and what is remembered of the   *)
(* past is not forgotten.                                                   *)
LEMMA NothingForgotten ==
    ASSUME [Next]_vars
    PROVE  source' = source /\ begun \subseteq begun' /\ leaked \subseteq leaked'
           /\ undone \subseteq undone'
  <1>1. ASSUME NEW p \in Procs, Step(p)
        PROVE  /\ source' = source /\ begun \subseteq begun' /\ leaked \subseteq leaked'
               /\ undone \subseteq undone'
    BY <1>1 DEF Step, UploadPlugin, UploadVersion, StartBuild, StartScan, DeleteVersion,
                PutUpload, InsertUpload, PutBuild, UpdateBuild, BuildFails, FinishScan,
                DeleteObject, DeleteRow, DeletePlugin, DeletePluginRows, DeletePluginObject,
                Stop, Begins
  <1>2. ASSUME NEW v \in Versions, SkipScan(v) \/ Publish(v)
        PROVE  UNCHANGED <<source, begun, leaked, undone>>
    BY <1>2 DEF SkipScan, Publish
  <1>3. CASE UNCHANGED vars
    BY <1>3 DEF vars
  <1> QED BY <1>1, <1>2, <1>3 DEF Next, Step

(* So keys and contents are the same after a step, and whoever shares a key *)
(* goes on sharing it.                                                      *)
LEMMA KeysStay ==
    ASSUME [Next]_vars
    PROVE  /\ \A v \in Versions : /\ FinalKey(v)' = FinalKey(v) /\ Placeholder(v)' = Placeholder(v)
                                  /\ Content(v)' = Content(v)
                                  /\ Sharing(v) # {} => Sharing(v)' # {}
           /\ \A key, c : Puts(key, c) => Puts(key, c)'
  <1>1. source' = source /\ begun \subseteq begun'
    BY NothingForgotten
  <1>2. ASSUME NEW v
        PROVE  /\ FinalKey(v)' = FinalKey(v) /\ Placeholder(v)' = Placeholder(v)
               /\ Content(v)' = Content(v)
               /\ Sharing(v) # {} => Sharing(v)' # {}
    BY <1>1 DEF FinalKey, Placeholder, Content, Manual, Sharing, Origin
  <1> QED BY <1>1, <1>2 DEF Puts

(* A version that was begun and gets the key of another is one it shares    *)
(* the key with.                                                            *)
LEMMA SharedKey ==
    ASSUME TypeOK, NEW v \in Versions, NEW w \in begun, w # v, FinalKey(w) = FinalKey(v)
    PROVE  w \in Sharing(v) /\ Sharing(v) # {}
  BY KeysOf DEF Sharing, Alike, TypeOK

-----------------------------------------------------------------------------
(* What the steps do.                                                       *)

OnlyProc(p) == proc' \in [Procs -> Proc] /\ \A q \in Procs \ {p} : proc'[q] = proc[q]

OneRow(v) == rows' \in [Versions -> Row] /\ \A w \in Versions \ {v} : rows'[w] = rows[w]

(* The steps that leave every row with its key: they may mark it as built   *)
(* or failed, or write down what passed and what is served.                 *)
SameRows ==
    /\ rows' \in [Versions -> Row]
    /\ \A v \in Versions :
          /\ rows'[v].key = rows[v].key /\ rows'[v].plugin = rows[v].plugin
          /\ Made(v)' <=> Made(v)
          /\ ~Made(v) => rows'[v] = rows[v]
          /\ Puts(FinalKey(v), rows'[v].passed) /\ Puts(FinalKey(v), rows'[v].served)

(* A process at rest is well formed, and so is a row that is not there. *)
LEMMA AtRest == /\ Idle \in Proc /\ Idle.pc = "idle" /\ Idle.plugin = 0
                /\ NoRow \in Row /\ NoRow.status = "none" /\ NoRow.key = None
                /\ NoRow.passed = None /\ NoRow.served = None
  BY ArtifactsAssumption DEF Idle, Proc, NoRow, Row, Contents

(* One assignment moves one process. *)
LEMMA GoesTo ==
    ASSUME TypeOK, NEW p \in Procs, NEW q \in Proc, Goes(p, q)
    PROVE  OnlyProc(p) /\ proc'[p] = q
  BY DEF TypeOK, Goes, OnlyProc

(* One that ends is at rest. *)
LEMMA EndsAtRest ==
    ASSUME TypeOK, NEW p \in Procs, Ends(p)
    PROVE  OnlyProc(p) /\ proc'[p].pc = "idle"
  BY AtRest, GoesTo DEF Ends

(* One assignment replaces one row. *)
LEMMA ReplaceRow ==
    ASSUME TypeOK, NEW v \in Versions, NEW r \in Row, rows' = [rows EXCEPT ![v] = r]
    PROVE  OneRow(v) /\ rows'[v] = r
  BY DEF TypeOK, OneRow

(* A row that changes only its mark, what passed and what is served. *)
LEMMA MarkedRow ==
    ASSUME KnownInv, NEW v \in Versions, NEW r \in Row, rows' = [rows EXCEPT ![v] = r],
           Made(v), r.status # "none", r.key = rows[v].key, r.plugin = rows[v].plugin,
           Puts(FinalKey(v), r.passed), Puts(FinalKey(v), r.served)
    PROVE  SameRows
  <1>1. OneRow(v) /\ rows'[v] = r
    BY ReplaceRow DEF KnownInv
  <1>2. \A w \in Versions : Puts(FinalKey(w), rows[w].passed) /\ Puts(FinalKey(w), rows[w].served)
    BY DEF KnownInv
  <1> QED BY <1>1, <1>2 DEF SameRows, OneRow, Made

(* Nothing happens to the rows. *)
LEMMA UnchangedRows == ASSUME KnownInv, rows' = rows PROVE SameRows
  BY DEF SameRows, KnownInv, TypeOK, Made

(* The marks that scans, skips, publishing and failing builds leave. *)
LEMMA MarkEffect ==
    ASSUME KnownInv
    PROVE  /\ \A v \in Versions : SkipScan(v) \/ Publish(v) \/ Failed(v) => SameRows
           /\ \A p \in Procs : \A passed \in BOOLEAN : FinishScan(p, passed) => SameRows
  <1>1. ASSUME NEW v \in Versions, NEW status \in {"failed", "success"},
               NEW c, Puts(FinalKey(v), c), c \in Contents, Made(v),
               rows' = [rows EXCEPT ![v].status = status, ![v].passed = c]
        PROVE  SameRows
    <2> DEFINE r == [rows[v] EXCEPT !.status = status, !.passed = c]
    <2>1. rows' = [rows EXCEPT ![v] = r]
      BY <1>1
    <2>2. rows[v] \in Row /\ Puts(FinalKey(v), rows[v].served)
      BY DEF KnownInv, TypeOK
    <2>3. /\ r \in Row /\ r.status = status /\ r.key = rows[v].key /\ r.plugin = rows[v].plugin
          /\ r.passed = c /\ r.served = rows[v].served
      BY <1>1, <2>2 DEF Row
    <2> HIDE DEF r
    <2> QED BY <1>1, <2>1, <2>2, <2>3, MarkedRow
  <1>2. \A key : Puts(key, None) /\ None \in Contents
    BY DEF Puts, Contents
  <1>3. ASSUME NEW v \in Versions, SkipScan(v) PROVE SameRows
    BY <1>1, <1>2, <1>3 DEF SkipScan
  <1>4. ASSUME NEW v \in Versions, Publish(v) PROVE SameRows
    <2> DEFINE r == [rows[v] EXCEPT !.served = rows[v].passed]
    <2>1. rows' = [rows EXCEPT ![v] = r] /\ Made(v)
      BY <1>4 DEF Publish, Made
    <2>2. rows[v] \in Row /\ Puts(FinalKey(v), rows[v].passed)
      BY DEF KnownInv, TypeOK
    <2>3. /\ r \in Row /\ r.status = rows[v].status /\ r.key = rows[v].key
          /\ r.plugin = rows[v].plugin /\ r.passed = rows[v].passed /\ r.served = rows[v].passed
      BY <2>2 DEF Row
    <2> HIDE DEF r
    <2> QED BY <2>1, <2>2, <2>3, MarkedRow DEF Made
  <1>5. ASSUME NEW v \in Versions, Failed(v) PROVE SameRows
    <2>1. CASE ~Made(v)
      BY <1>5, <2>1, UnchangedRows DEF Failed
    <2>2. CASE Made(v)
      <3> DEFINE r == [rows[v] EXCEPT !.status = "failed"]
      <3>1. rows' = [rows EXCEPT ![v] = r]
        BY <1>5, <2>2 DEF Failed
      <3>2. /\ rows[v] \in Row /\ Puts(FinalKey(v), rows[v].passed)
            /\ Puts(FinalKey(v), rows[v].served)
        BY DEF KnownInv, TypeOK
      <3>3. /\ r \in Row /\ r.status = "failed" /\ r.key = rows[v].key
            /\ r.plugin = rows[v].plugin /\ r.passed = rows[v].passed /\ r.served = rows[v].served
        BY <3>2 DEF Row
      <3> HIDE DEF r
      <3> QED BY <2>2, <3>1, <3>2, <3>3, MarkedRow
    <2> QED BY <2>1, <2>2
  <1>6. ASSUME NEW p \in Procs, NEW passed \in BOOLEAN, FinishScan(p, passed) PROVE SameRows
    <2> DEFINE v == proc[p].version
               c == IF passed THEN proc[p].content ELSE None
    <2>1. proc[p].pc \in Scans /\ proc[p] \in Proc
      BY <1>6 DEF FinishScan, KnownInv, TypeOK, Scans
    <2>2. ProcKnown(proc[p])
      BY DEF KnownInv
    <2>3. v \in Versions /\ Puts(FinalKey(v), proc[p].content) /\ proc[p].content \in Contents
      BY <2>1, <2>2 DEF ProcKnown, KnownInv, TypeOK, Proc, Scans
    <2>4. Puts(FinalKey(v), c) /\ c \in Contents
      BY <1>2, <2>3
    <2>5. CASE ~Made(v)
      BY <1>6, <2>5, UnchangedRows DEF FinishScan
    <2>6. CASE Made(v)
      <3>1. rows' = [rows EXCEPT ![v].status = "success", ![v].passed = c]
        BY <1>6, <2>6 DEF FinishScan
      <3> HIDE DEF v, c
      <3> QED BY <1>1, <2>3, <2>4, <2>6, <3>1
    <2> QED BY <2>5, <2>6
  <1> QED BY <1>3, <1>4, <1>5, <1>6
(* A process that is not at rest works for a version that was begun. *)
LEMMA WorksFor ==
    ASSUME KnownInv, NEW p \in Procs
    PROVE  /\ proc[p] \in Proc
           /\ proc[p].pc \notin {"idle", "delete objects"} =>
                 proc[p].version \in begun /\ proc[p].version \in Versions
           /\ proc[p].pc \in Storing => proc[p].key = FinalKey(proc[p].version)
           /\ proc[p].pc \in Deleting =>
                 proc[p].key \in {FinalKey(proc[p].version), Placeholder(proc[p].version)}
  BY DEF KnownInv, TypeOK, ProcKnown

(* An upload is begun for a version that nobody has begun. *)
LEMMA BeginUpload ==
    ASSUME KnownInv, NEW p \in Procs, NEW v \in Versions, UploadPlugin(p, v) \/ UploadVersion(p, v)
    PROVE  /\ OnlyProc(p) /\ proc[p].pc = "idle"
           /\ proc'[p].pc = "put upload" /\ proc'[p].version = v
           /\ v \notin begun /\ begun' = begun \cup {v}
           /\ plugin' \in 0..MaxPlugins /\ created' \in 0..MaxPlugins
           /\ UNCHANGED <<rows, bucket, leaked, undone, faults>>
  <1>1. ASSUME NEW g \in 0..MaxPlugins,
               Goes(p, [Idle EXCEPT !.pc = "put upload", !.version = v, !.plugin = g])
        PROVE  OnlyProc(p) /\ proc'[p].pc = "put upload" /\ proc'[p].version = v
    <2> DEFINE q == [Idle EXCEPT !.pc = "put upload", !.version = v, !.plugin = g]
    <2>1. q \in Proc /\ q.pc = "put upload" /\ q.version = v
      BY AtRest DEF Proc
    <2> HIDE DEF q
    <2>2. Goes(p, q)
      BY <1>1 DEF q
    <2> QED BY <2>1, <2>2, GoesTo DEF KnownInv
  <1>2. CASE UploadPlugin(p, v)
    <2>1. created + 1 \in 0..MaxPlugins
      BY <1>2, ArtifactsAssumption DEF UploadPlugin, KnownInv, TypeOK
    <2> QED BY <1>1, <1>2, <2>1, AtRest DEF UploadPlugin, Begins
  <1>3. CASE UploadVersion(p, v)
    <2>1. plugin \in 0..MaxPlugins /\ created \in 0..MaxPlugins
      BY DEF KnownInv, TypeOK
    <2> QED BY <1>1, <1>3, <2>1, AtRest DEF UploadVersion, Begins
  <1> QED BY <1>2, <1>3

(* A build is begun for a version that nobody has begun: it gets its row.   *)
LEMMA BeginBuild ==
    ASSUME KnownInv, NEW p \in Procs, NEW v \in Versions, StartBuild(p, v)
    PROVE  /\ OnlyProc(p) /\ proc[p].pc = "idle"
           /\ proc'[p].pc = "put build" /\ proc'[p].version = v
           /\ v \notin begun /\ begun' = begun \cup {v}
           /\ OneRow(v) /\ rows'[v].status = "building" /\ rows'[v].key = Placeholder(v)
           /\ rows'[v].passed = None /\ rows'[v].served = None
           /\ UNCHANGED <<plugin, created, bucket, leaked, undone, faults>>
  <1> DEFINE q == [Idle EXCEPT !.pc = "put build", !.version = v, !.plugin = plugin]
             r == [NoRow EXCEPT !.status = "building", !.plugin = plugin, !.key = Placeholder(v)]
  <1>1. plugin \in 0..MaxPlugins /\ Placeholder(v) \in Keys
    BY KeysOf DEF KnownInv, TypeOK
  <1>2. q \in Proc /\ q.pc = "put build" /\ q.version = v
    BY <1>1, AtRest DEF Proc
  <1>3. /\ r \in Row /\ r.status = "building" /\ r.key = Placeholder(v)
        /\ r.passed = None /\ r.served = None
    BY <1>1, AtRest DEF Row
  <1>4. rows' = [rows EXCEPT ![v] = r] /\ Goes(p, q) /\ proc[p].pc = "idle"
    BY AtRest DEF StartBuild
  <1> HIDE DEF q, r
  <1>5. OnlyProc(p) /\ proc'[p] = q /\ OneRow(v) /\ rows'[v] = r
    BY <1>2, <1>3, <1>4, GoesTo, ReplaceRow DEF KnownInv
  <1> QED BY <1>2, <1>3, <1>4, <1>5 DEF StartBuild, Begins

(* The object is stored, under the key the row will get. *)
LEMMA PutEffect ==
    ASSUME KnownInv, NEW p \in Procs, PutUpload(p) \/ PutBuild(p)
    PROVE  /\ OnlyProc(p) /\ proc[p].pc \in {"put upload", "put build"}
           /\ proc'[p].pc \in Storing
           /\ proc'[p].version = proc[p].version
           /\ proc'[p].key = FinalKey(proc[p].version)
           /\ bucket' \in [Keys -> Contents]
           /\ bucket'[FinalKey(proc[p].version)] = Content(proc[p].version)
           /\ \A key \in Keys : key # FinalKey(proc[p].version) => bucket'[key] = bucket[key]
           /\ UNCHANGED <<plugin, created, rows, begun, leaked, undone, faults>>
  <1> DEFINE v == proc[p].version
  <1>1. proc[p].pc \in {"put upload", "put build"}
    BY DEF PutUpload, PutBuild
  <1>2. v \in Versions /\ proc[p] \in Proc
    BY <1>1, WorksFor
  <1>3. FinalKey(v) \in Keys /\ Content(v) \in Contents
    BY <1>2, KeysOf DEF KnownInv
  <1>4. bucket' = [bucket EXCEPT ![FinalKey(v)] = Content(v)]
    BY DEF PutUpload, PutBuild
  <1>5. ASSUME NEW pc \in Storing, Goes(p, [proc[p] EXCEPT !.pc = pc, !.key = FinalKey(v)])
        PROVE  /\ OnlyProc(p) /\ proc'[p].pc \in Storing
               /\ proc'[p].version = v /\ proc'[p].key = FinalKey(v)
    <2> DEFINE k == FinalKey(v)
               q == [proc[p] EXCEPT !.pc = pc, !.key = k]
    <2>1. q \in Proc /\ q.pc = pc /\ q.version = v /\ q.key = k
      <3> HIDE DEF k
      <3> QED BY <1>2, <1>3 DEF Proc, Storing, k
    <2>2. Goes(p, q)
      BY <1>5
    <2> HIDE DEF q, k
    <2>3. OnlyProc(p) /\ proc'[p] = q
      BY <2>1, <2>2, GoesTo DEF KnownInv
    <2> QED BY <2>1, <2>3 DEF k
  <1>6. /\ OnlyProc(p) /\ proc'[p].pc \in Storing
        /\ proc'[p].version = v /\ proc'[p].key = FinalKey(v)
    BY <1>5 DEF PutUpload, PutBuild, Storing
  <1>7. /\ bucket' \in [Keys -> Contents] /\ bucket'[FinalKey(v)] = Content(v)
        /\ \A key \in Keys : key # FinalKey(v) => bucket'[key] = bucket[key]
    <2> HIDE DEF v
    <2> QED BY <1>3, <1>4 DEF KnownInv, TypeOK
  <1> QED BY <1>1, <1>6, <1>7 DEF PutUpload, PutBuild

(* The row of an upload is written, or the object is left behind. *)
LEMMA InsertEffect ==
    ASSUME KnownInv, NEW p \in Procs, InsertUpload(p)
    PROVE  /\ OnlyProc(p) /\ proc[p].pc = "insert" /\ proc'[p].pc = "idle"
           /\ \/ /\ OneRow(proc[p].version) /\ rows'[proc[p].version].status = "success"
                 /\ rows'[proc[p].version].key = FinalKey(proc[p].version)
                 /\ rows'[proc[p].version].passed = None /\ rows'[proc[p].version].served = None
                 /\ leaked' = leaked
              \/ rows' = rows /\ leaked' = leaked \cup {proc[p].key}
           /\ UNCHANGED <<plugin, created, bucket, begun, undone, faults>>
  <1> DEFINE v == proc[p].version
             r == [NoRow EXCEPT !.status = "success", !.plugin = proc[p].plugin, !.key = proc[p].key]
  <1>1. proc[p].pc = "insert" /\ Ends(p)
    BY DEF InsertUpload
  <1>2. v \in Versions /\ proc[p] \in Proc /\ proc[p].key = FinalKey(v)
    BY <1>1, WorksFor DEF Storing
  <1>3. FinalKey(v) \in Keys /\ proc[p].plugin \in 0..MaxPlugins
    BY <1>2, KeysOf DEF KnownInv, Proc
  <1>4. /\ r \in Row /\ r.status = "success" /\ r.key = proc[p].key
        /\ r.passed = None /\ r.served = None
    BY <1>2, <1>3, AtRest DEF Row
  <1>5. OnlyProc(p) /\ proc'[p].pc = "idle"
    BY <1>1, EndsAtRest DEF KnownInv
  <1>6. \/ rows' = [rows EXCEPT ![v] = r] /\ leaked' = leaked
        \/ rows' = rows /\ leaked' = leaked \cup {proc[p].key}
    BY DEF InsertUpload
  <1>7. UNCHANGED <<plugin, created, bucket, begun, undone, faults>>
    BY DEF InsertUpload
  <1>8. CASE rows' = [rows EXCEPT ![v] = r] /\ leaked' = leaked
    <2>1. OneRow(v) /\ rows'[v] = r
      <3> HIDE DEF v, r
      <3> QED BY <1>2, <1>4, <1>8, ReplaceRow DEF KnownInv
    <2> HIDE DEF r
    <2> QED BY <1>1, <1>2, <1>4, <1>5, <1>7, <1>8, <2>1
  <1> HIDE DEF r
  <1> QED BY <1>1, <1>5, <1>6, <1>7, <1>8

(* The row of a build gets its final key, or keeps what it has and the      *)
(* object is left behind.                                                   *)
LEMMA UpdateEffect ==
    ASSUME KnownInv, NEW p \in Procs, UpdateBuild(p)
    PROVE  /\ OnlyProc(p) /\ proc[p].pc = "update"
           /\ \/ /\ proc'[p].pc = "build scan" /\ proc'[p].version = proc[p].version
                 /\ proc'[p].content = Content(proc[p].version)
                 /\ Made(proc[p].version)
                 /\ OneRow(proc[p].version) /\ rows'[proc[p].version].status = "success"
                 /\ rows'[proc[p].version].key = FinalKey(proc[p].version)
                 /\ rows'[proc[p].version].passed = rows[proc[p].version].passed
                 /\ rows'[proc[p].version].served = rows[proc[p].version].served
                 /\ leaked' = leaked
              \/ /\ proc'[p].pc = "idle" /\ SameRows
                 /\ leaked' = leaked \cup {proc[p].key}
           /\ UNCHANGED <<plugin, created, bucket, begun, undone, faults>>
  <1> DEFINE v == proc[p].version
             c == Content(v)
             q == [proc[p] EXCEPT !.pc = "build scan", !.content = c]
             r == [rows[v] EXCEPT !.status = "success", !.key = proc[p].key]
  <1>1. proc[p].pc = "update" /\ UNCHANGED <<plugin, created, bucket, begun, undone, faults>>
    BY DEF UpdateBuild
  <1>2. v \in Versions /\ proc[p] \in Proc /\ proc[p].key = FinalKey(v)
    BY <1>1, WorksFor DEF Storing
  <1>3. FinalKey(v) \in Keys /\ c \in Contents /\ rows[v] \in Row
    BY <1>2, KeysOf DEF KnownInv, TypeOK
  <1>4. CASE Made(v) /\ ~BuiltCommit(v)
    <2>1. /\ rows' = [rows EXCEPT ![v] = r] /\ Goes(p, q) /\ leaked' = leaked
      BY <1>4 DEF UpdateBuild
    <2>2. q \in Proc /\ q.pc = "build scan" /\ q.version = v /\ q.content = c
      <3> HIDE DEF c
      <3> QED BY <1>2, <1>3 DEF Proc
    <2>3. /\ r \in Row /\ r.status = "success" /\ r.key = proc[p].key
          /\ r.passed = rows[v].passed /\ r.served = rows[v].served
      <3> HIDE DEF v
      <3> QED BY <1>2, <1>3 DEF Row
    <2>4. OneRow(v) /\ rows'[v] = r
      <3> HIDE DEF v, r
      <3> QED BY <1>2, <2>1, <2>3, ReplaceRow DEF KnownInv
    <2>5. OnlyProc(p) /\ proc'[p] = q
      <3> HIDE DEF q
      <3> QED BY <2>1, <2>2, GoesTo DEF KnownInv
    <2> HIDE DEF q, r
    <2> QED BY <1>1, <1>2, <1>4, <2>1, <2>2, <2>3, <2>4, <2>5
  <1>5. CASE ~(Made(v) /\ ~BuiltCommit(v))
    <2>1. rows' = rows /\ leaked' = leaked \cup {proc[p].key} /\ Ends(p)
      BY <1>5 DEF UpdateBuild
    <2>2. SameRows
      BY <2>1, UnchangedRows
    <2> QED BY <1>1, <2>1, <2>2, EndsAtRest DEF KnownInv
  <1> QED BY <1>4, <1>5

(* A build fails, and what it had stored is left behind. *)
LEMMA FailEffect ==
    ASSUME KnownInv, NEW p \in Procs, BuildFails(p)
    PROVE  /\ OnlyProc(p) /\ proc[p].pc \in {"put build", "update", "build scan"}
           /\ proc'[p].pc = "idle"
           /\ SameRows
           /\ leaked' = IF proc[p].pc = "update" THEN leaked \cup {proc[p].key} ELSE leaked
           /\ UNCHANGED <<plugin, created, bucket, begun, undone, faults>>
  <1>1. proc[p].version \in Versions /\ (Failed(proc[p].version) \/ rows' = rows) /\ Ends(p)
    BY WorksFor DEF BuildFails
  <1>2. SameRows
    BY <1>1, MarkEffect, UnchangedRows
  <1> QED BY <1>1, <1>2, EndsAtRest DEF KnownInv, BuildFails

(* A scan starts on what the row names, and a deletion of a version knows   *)
(* the key the row has.                                                     *)
LEMMA PickEffect ==
    ASSUME KnownInv, NEW p \in Procs, NEW v \in Versions, StartScan(p, v) \/ DeleteVersion(p, v)
    PROVE  /\ OnlyProc(p) /\ proc[p].pc = "idle" /\ proc'[p].version = v /\ Made(v)
           /\ rows[v].key \in Keys
           /\ \/ proc'[p].pc = "scan" /\ proc'[p].content = bucket[rows[v].key]
              \/ proc'[p].pc = "delete object" /\ proc'[p].key = rows[v].key
           /\ UNCHANGED <<plugin, created, rows, bucket, begun, leaked, undone, faults>>
  <1>1. Made(v) /\ proc[p].pc = "idle"
    BY AtRest DEF StartScan, DeleteVersion
  <1>2. rows[v].key \in Keys
    BY <1>1, KeysOf DEF KnownInv, RowKnown
  <1> DEFINE c == bucket[rows[v].key]
             k == rows[v].key
             q == [Idle EXCEPT !.pc = "scan", !.version = v, !.content = c]
             d == [Idle EXCEPT !.pc = "delete object", !.version = v, !.key = k]
  <1>3. c \in Contents
    BY <1>2 DEF KnownInv, TypeOK
  <1>4. /\ q \in Proc /\ q.pc = "scan" /\ q.version = v /\ q.content = c
        /\ d \in Proc /\ d.pc = "delete object" /\ d.version = v /\ d.key = k
    <2> HIDE DEF c, k
    <2> QED BY <1>2, <1>3, AtRest DEF Proc, k
  <1>5. \/ Goes(p, q)
        \/ Goes(p, d)
    BY DEF StartScan, DeleteVersion
  <1>6. UNCHANGED <<plugin, created, rows, bucket, begun, leaked, undone, faults>>
    BY DEF StartScan, DeleteVersion
  <1> HIDE DEF q, d
  <1>7. OnlyProc(p) /\ proc'[p] \in {q, d}
    BY <1>4, <1>5, GoesTo DEF KnownInv
  <1> QED BY <1>1, <1>2, <1>4, <1>6, <1>7
(* A scan ends: the row is marked, whatever has become of it. *)
LEMMA FinishEffect ==
    ASSUME KnownInv, NEW p \in Procs, NEW passed \in BOOLEAN, FinishScan(p, passed)
    PROVE  /\ OnlyProc(p) /\ proc[p].pc \in Scans /\ proc'[p].pc = "idle" /\ SameRows
           /\ UNCHANGED <<plugin, created, bucket, begun, leaked, undone, faults>>
  <1>1. SameRows
    BY MarkEffect
  <1>2. Ends(p)
    BY DEF FinishScan
  <1> QED BY <1>1, <1>2, EndsAtRest DEF KnownInv, FinishScan, Scans

(* What the deletion of one object leaves of the bucket. *)
Emptied(key) == /\ bucket' \in [Keys -> Contents] /\ bucket'[key] = None
                /\ \A k \in Keys : k # key => bucket'[k] = bucket[k]

(* The object of a version is deleted, and its row is next. *)
LEMMA DeleteObjectEffect ==
    ASSUME KnownInv, NEW p \in Procs, DeleteObject(p)
    PROVE  /\ OnlyProc(p) /\ proc[p].pc = "delete object" /\ proc'[p].pc = "delete row"
           /\ proc'[p].version = proc[p].version /\ proc'[p].key = proc[p].key
           /\ proc[p].key \in Keys /\ Emptied(proc[p].key)
           /\ UNCHANGED <<plugin, created, rows, begun, leaked, undone, faults>>
  <1> DEFINE q == [proc[p] EXCEPT !.pc = "delete row"]
  <1>1. proc[p].pc = "delete object" /\ Goes(p, q)
    BY DEF DeleteObject
  <1>2. proc[p] \in Proc /\ proc[p].key \in Keys
    <2>1. /\ proc[p] \in Proc /\ proc[p].version \in Versions
          /\ proc[p].key \in {FinalKey(proc[p].version), Placeholder(proc[p].version)}
      BY <1>1, WorksFor DEF Deleting
    <2> QED BY <2>1, KeysOf DEF KnownInv
  <1>3. q \in Proc /\ q.pc = "delete row" /\ q.version = proc[p].version /\ q.key = proc[p].key
    BY <1>2 DEF Proc
  <1> HIDE DEF q
  <1>4. OnlyProc(p) /\ proc'[p] = q
    BY <1>1, <1>3, GoesTo DEF KnownInv
  <1>5. Emptied(proc[p].key)
    BY <1>2 DEF DeleteObject, Emptied, KnownInv, TypeOK, Contents
  <1> QED BY <1>1, <1>2, <1>3, <1>4, <1>5 DEF DeleteObject

(* A row is deleted; its object is left behind if that is another one. *)
LEMMA DeleteRowEffect ==
    ASSUME KnownInv, NEW p \in Procs, DeleteRow(p)
    PROVE  /\ OnlyProc(p) /\ proc[p].pc = "delete row" /\ proc'[p].pc = "idle"
           /\ OneRow(proc[p].version) /\ rows'[proc[p].version] = NoRow
           /\ proc[p].version \in Versions
           /\ leaked \subseteq leaked' /\ leaked' \subseteq Keys
           /\ Made(proc[p].version) =>
                 rows[proc[p].version].key = proc[p].key \/ rows[proc[p].version].key \in leaked'
           /\ UNCHANGED <<plugin, created, bucket, begun, undone, faults>>
  <1> DEFINE v == proc[p].version
  <1>1. proc[p].pc = "delete row" /\ Ends(p) /\ rows' = [rows EXCEPT ![v] = NoRow]
    BY DEF DeleteRow
  <1>2. v \in Versions
    BY <1>1, WorksFor
  <1>3. OneRow(v) /\ rows'[v] = NoRow
    <2> HIDE DEF v
    <2> QED BY <1>1, <1>2, AtRest, ReplaceRow DEF KnownInv
  <1>4. rows[v].key \in Keys \cup {None} /\ (Made(v) => rows[v].key # None)
    BY <1>2, KeysOf DEF KnownInv, TypeOK, Row, RowKnown
  <1>5. /\ leaked \subseteq leaked' /\ leaked' \subseteq Keys
        /\ Made(v) => rows[v].key = proc[p].key \/ rows[v].key \in leaked'
    BY <1>4 DEF DeleteRow, KnownInv, TypeOK
  <1> QED BY <1>1, <1>2, <1>3, <1>5, EndsAtRest DEF KnownInv, DeleteRow

(* A deletion of the plugin knows the keys its rows have. *)
LEMMA DeletePluginEffect ==
    ASSUME KnownInv, NEW p \in Procs, DeletePlugin(p)
    PROVE  /\ OnlyProc(p) /\ proc[p].pc = "idle" /\ proc'[p].pc = "delete objects"
           /\ proc'[p].plugin = plugin
           /\ proc'[p].keys = {rows[v].key : v \in OfPlugin(plugin)}
           /\ UNCHANGED <<plugin, created, rows, bucket, begun, leaked, undone, faults>>
  <1> DEFINE ks == {rows[v].key : v \in OfPlugin(plugin)}
             q == [Idle EXCEPT !.pc = "delete objects", !.plugin = plugin, !.keys = ks]
  <1>1. ks \subseteq Keys
    BY KeysOf DEF KnownInv, RowKnown, OfPlugin
  <1>2. plugin \in 0..MaxPlugins
    BY DEF KnownInv, TypeOK
  <1>3. Goes(p, q) /\ proc[p].pc = "idle"
    BY AtRest DEF DeletePlugin
  <1>4. q \in Proc /\ q.pc = "delete objects" /\ q.plugin = plugin /\ q.keys = ks
    <2> HIDE DEF ks
    <2> QED BY <1>1, <1>2, AtRest DEF Proc
  <1> HIDE DEF q
  <1>5. OnlyProc(p) /\ proc'[p] = q
    BY <1>3, <1>4, GoesTo DEF KnownInv
  <1> QED BY <1>3, <1>4, <1>5 DEF DeletePlugin

(* One of its objects is deleted. *)
LEMMA DeletePluginObjectEffect ==
    ASSUME KnownInv, NEW p \in Procs, NEW key \in Keys, DeletePluginObject(p, key)
    PROVE  /\ OnlyProc(p) /\ proc[p].pc = "delete objects" /\ proc'[p].pc = "delete objects"
           /\ proc'[p].plugin = proc[p].plugin /\ proc'[p].keys = proc[p].keys \ {key}
           /\ key \in proc[p].keys /\ Emptied(key)
           /\ UNCHANGED <<plugin, created, rows, begun, leaked, undone, faults>>
  <1> DEFINE ks == proc[p].keys \ {key}
             q == [proc[p] EXCEPT !.keys = ks]
  <1>1. proc[p].pc = "delete objects" /\ key \in proc[p].keys /\ Goes(p, q)
    BY DEF DeletePluginObject
  <1>2. proc[p] \in Proc /\ ks \subseteq Keys
    BY WorksFor DEF Proc
  <1>3. q \in Proc /\ q.pc = "delete objects" /\ q.plugin = proc[p].plugin /\ q.keys = ks
    <2> HIDE DEF ks
    <2> QED BY <1>1, <1>2 DEF Proc
  <1> HIDE DEF q
  <1>4. OnlyProc(p) /\ proc'[p] = q
    BY <1>1, <1>3, GoesTo DEF KnownInv
  <1>5. Emptied(key)
    BY DEF DeletePluginObject, Emptied, KnownInv, TypeOK, Contents
  <1> QED BY <1>1, <1>3, <1>4, <1>5 DEF DeletePluginObject

(* The plugin goes with the rows there are by then; objects that are there  *)
(* again are left behind.                                                   *)
LEMMA DeletePluginRowsEffect ==
    ASSUME KnownInv, NEW p \in Procs, DeletePluginRows(p)
    PROVE  /\ OnlyProc(p) /\ proc[p].pc = "delete objects" /\ proc'[p].pc = "idle"
           /\ rows' \in [Versions -> Row]
           /\ \A v \in Versions : \/ rows'[v] = rows[v] /\ ~(Made(v) /\ rows[v].plugin = proc[p].plugin)
                                  \/ rows'[v] = NoRow
           /\ plugin' \in 0..MaxPlugins
           /\ leaked \subseteq leaked' /\ leaked' \subseteq Keys
           /\ \A v \in Versions :
                 Made(v) /\ rows'[v] # rows[v] /\ bucket[rows[v].key] # None => rows[v].key \in leaked'
           /\ UNCHANGED <<created, bucket, begun, undone, faults>>
  <1>1. proc[p].pc = "delete objects" /\ Ends(p)
    BY DEF DeletePluginRows
  <1> DEFINE g == proc[p].plugin
  <1>2. rows' = [v \in Versions |-> IF v \in OfPlugin(g) THEN NoRow ELSE rows[v]]
    BY DEF DeletePluginRows
  <1>3. leaked' = leaked \cup {rows[v].key : v \in {w \in OfPlugin(g) : bucket[rows[w].key] # None}}
    BY DEF DeletePluginRows
  <1>4. plugin' \in 0..MaxPlugins
    <2>1. plugin' \in {0, plugin}
      BY DEF DeletePluginRows
    <2> QED BY <2>1, ArtifactsAssumption DEF KnownInv, TypeOK
  <1>5. \A v \in OfPlugin(g) : rows[v].key \in Keys
    BY KeysOf DEF KnownInv, RowKnown, OfPlugin
  <1>6. leaked' \subseteq Keys
    BY <1>3, <1>5 DEF KnownInv, TypeOK
  <1>7. rows' \in [Versions -> Row]
    BY <1>2, AtRest DEF KnownInv, TypeOK
  <1>8. ASSUME NEW v \in Versions
        PROVE  /\ \/ rows'[v] = rows[v] /\ ~(Made(v) /\ rows[v].plugin = g)
                  \/ rows'[v] = NoRow
               /\ Made(v) /\ rows'[v] # rows[v] /\ bucket[rows[v].key] # None =>
                     rows[v].key \in leaked'
    BY <1>2, <1>3 DEF OfPlugin
  <1> QED BY <1>1, <1>3, <1>4, <1>6, <1>7, <1>8, EndsAtRest DEF KnownInv, DeletePluginRows

(* A process that stops leaves its object behind, or a deletion undone. *)
LEMMA StopEffect ==
    ASSUME KnownInv, NEW p \in Procs, Stop(p)
    PROVE  /\ OnlyProc(p) /\ proc'[p].pc = "idle" /\ faults' \in 0..MaxFaults
           /\ leaked' = IF proc[p].pc \in Storing THEN leaked \cup {proc[p].key} ELSE leaked
           /\ proc[p].pc = "delete row" => proc[p].version \in undone'
           /\ proc[p].pc = "delete objects" => begun \subseteq undone'
           /\ undone' \subseteq Versions
           /\ UNCHANGED <<plugin, created, rows, bucket, begun>>
  <1>1. OnlyProc(p) /\ proc'[p].pc = "idle"
    BY EndsAtRest DEF KnownInv, Stop
  <1>2. faults' \in 0..MaxFaults
    <2>1. faults < MaxFaults /\ faults' = faults + 1 /\ faults \in 0..MaxFaults
      BY DEF Stop, KnownInv, TypeOK
    <2> QED BY <2>1, ArtifactsAssumption
  <1>3. /\ proc[p].pc = "delete row" => proc[p].version \in undone'
        /\ proc[p].pc = "delete objects" => begun \subseteq undone'
        /\ undone' \subseteq Versions
    BY WorksFor DEF Stop, KnownInv, TypeOK
  <1> QED BY <1>1, <1>2, <1>3 DEF Stop, Storing

-----------------------------------------------------------------------------
(* What is known.                                                           *)

(* No step takes the state out of its types. *)
LEMMA TypeInductive == ASSUME KnownInv, [Next]_vars PROVE TypeOK'
  <1>0. source' = source /\ TypeOK
    BY NothingForgotten DEF KnownInv
  <1> DEFINE Tame == /\ plugin' \in 0..MaxPlugins /\ created' \in 0..MaxPlugins
                     /\ rows' \in [Versions -> Row] /\ bucket' \in [Keys -> Contents]
                     /\ proc' \in [Procs -> Proc] /\ begun' \subseteq Versions
                     /\ leaked' \subseteq Keys /\ undone' \subseteq Versions
                     /\ faults' \in 0..MaxFaults
  <1>1. ASSUME NEW p \in Procs, proc[p].pc \in Storing PROVE proc[p].key \in Keys
    BY <1>1, WorksFor, KeysOf DEF KnownInv, Storing
  <1>2. ASSUME NEW p \in Procs, Step(p) PROVE Tame
    <2>1. ASSUME NEW v \in Versions, UploadPlugin(p, v) \/ UploadVersion(p, v) PROVE Tame
      <3>1. /\ OnlyProc(p) /\ begun' = begun \cup {v}
            /\ plugin' \in 0..MaxPlugins /\ created' \in 0..MaxPlugins
            /\ UNCHANGED <<rows, bucket, leaked, undone, faults>>
        BY <2>1, BeginUpload
      <3> QED BY <1>0, <3>1 DEF OnlyProc, TypeOK
    <2>2. ASSUME NEW v \in Versions, StartBuild(p, v) PROVE Tame
      <3>1. /\ OnlyProc(p) /\ begun' = begun \cup {v} /\ OneRow(v)
            /\ UNCHANGED <<plugin, created, bucket, leaked, undone, faults>>
        BY <2>2, BeginBuild
      <3> QED BY <1>0, <3>1 DEF OnlyProc, OneRow, TypeOK
    <2>3. ASSUME NEW v \in Versions, StartScan(p, v) \/ DeleteVersion(p, v) PROVE Tame
      BY <1>0, <2>3, PickEffect DEF OnlyProc, TypeOK
    <2>4. CASE PutUpload(p) \/ PutBuild(p)
      BY <1>0, <2>4, PutEffect DEF OnlyProc, TypeOK
    <2>5. CASE InsertUpload(p)
      BY <1>0, <1>1, <2>5, InsertEffect DEF OnlyProc, OneRow, TypeOK, Storing
    <2>6. CASE UpdateBuild(p)
      BY <1>0, <1>1, <2>6, UpdateEffect DEF OnlyProc, OneRow, SameRows, TypeOK, Storing
    <2>7. CASE BuildFails(p)
      BY <1>0, <1>1, <2>7, FailEffect DEF OnlyProc, SameRows, TypeOK, Storing
    <2>8. ASSUME NEW passed \in BOOLEAN, FinishScan(p, passed) PROVE Tame
      BY <1>0, <2>8, FinishEffect DEF OnlyProc, SameRows, TypeOK
    <2>9. CASE DeleteObject(p)
      BY <1>0, <2>9, DeleteObjectEffect DEF OnlyProc, Emptied, TypeOK
    <2>10. CASE DeleteRow(p)
      BY <1>0, <2>10, DeleteRowEffect DEF OnlyProc, OneRow, TypeOK
    <2>11. CASE DeletePlugin(p)
      BY <1>0, <2>11, DeletePluginEffect DEF OnlyProc, TypeOK
    <2>12. ASSUME NEW key \in Keys, DeletePluginObject(p, key) PROVE Tame
      BY <1>0, <2>12, DeletePluginObjectEffect DEF OnlyProc, Emptied, TypeOK
    <2>13. CASE DeletePluginRows(p)
      BY <1>0, <2>13, DeletePluginRowsEffect DEF OnlyProc, TypeOK
    <2>14. CASE Stop(p)
      BY <1>0, <1>1, <2>14, StopEffect DEF OnlyProc, TypeOK
    <2> HIDE DEF Tame
    <2> QED BY <1>2, <2>1, <2>2, <2>3, <2>4, <2>5, <2>6, <2>7, <2>8, <2>9, <2>10, <2>11,
               <2>12, <2>13, <2>14 DEF Step
  <1>3. ASSUME NEW v \in Versions, SkipScan(v) \/ Publish(v) PROVE Tame
    <2>1. SameRows /\ UNCHANGED <<plugin, created, bucket, proc, begun, leaked, undone, faults>>
      BY <1>3, MarkEffect DEF SkipScan, Publish
    <2> QED BY <1>0, <2>1 DEF SameRows, TypeOK
  <1>4. ASSUME UNCHANGED vars PROVE Tame
    BY <1>0, <1>4 DEF vars, TypeOK
  <1>5. Tame
    <2> HIDE DEF Tame
    <2> QED BY <1>2, <1>3, <1>4 DEF Next, Step
  <1> QED BY <1>0, <1>5 DEF TypeOK
(* Rows are changed by steps of a process, or keep their keys. *)
LEMMA RowsInductive ==
    ASSUME KnownInv, [Next]_vars, NEW v \in Versions
    PROVE  /\ RowKnown(v)'
           /\ Puts(FinalKey(v), rows[v].passed)' /\ Puts(FinalKey(v), rows[v].served)'
  <1>0. /\ begun \subseteq begun' /\ begun \subseteq Versions
        /\ FinalKey(v)' = FinalKey(v) /\ Placeholder(v)' = Placeholder(v)
        /\ RowKnown(v) /\ rows[v] \in Row
        /\ Puts(FinalKey(v), rows[v].passed) /\ Puts(FinalKey(v), rows[v].served)
    BY NothingForgotten, KeysStay DEF KnownInv, TypeOK
  <1> DEFINE Good == /\ Made(v)' => v \in begun' /\ rows'[v].key \in {FinalKey(v), Placeholder(v)}
                     /\ ~Made(v)' => rows'[v] = NoRow
                     /\ Puts(FinalKey(v), rows'[v].passed) /\ Puts(FinalKey(v), rows'[v].served)
  <1>1. ASSUME SameRows PROVE Good
    BY <1>0, <1>1 DEF SameRows, RowKnown
  <1>2. ASSUME rows'[v] = rows[v] PROVE Good
    BY <1>0, <1>2 DEF RowKnown, Made
  <1>3. ASSUME rows'[v] = NoRow PROVE Good
    BY <1>3, AtRest DEF Made, Puts
  <1>4. ASSUME v \in begun', rows'[v].status \in {"building", "success"},
               rows'[v].key \in {FinalKey(v), Placeholder(v)},
               Puts(FinalKey(v), rows'[v].passed), Puts(FinalKey(v), rows'[v].served)
        PROVE  Good
    BY <1>4 DEF Made
  <1>5. Puts(FinalKey(v), None)
    BY DEF Puts
  <1>6. ASSUME NEW p \in Procs, Step(p) PROVE Good
    <2> HIDE DEF Good
    <2>1. ASSUME NEW w \in Versions, StartBuild(p, w) PROVE Good
      <3>1. CASE w = v
        BY <1>4, <1>5, <2>1, <3>1, BeginBuild
      <3>2. CASE w # v
        <4>1. OneRow(w)
          BY <2>1, BeginBuild
        <4> QED BY <1>2, <3>2, <4>1 DEF OneRow
      <3> QED BY <3>1, <3>2
    <2>2. CASE InsertUpload(p)
      <3>1. CASE rows' = rows
        BY <1>2, <3>1
      <3>2. CASE rows' # rows
        <4>1. /\ OneRow(proc[p].version) /\ rows'[proc[p].version].status = "success"
              /\ rows'[proc[p].version].key = FinalKey(proc[p].version)
              /\ rows'[proc[p].version].passed = None /\ rows'[proc[p].version].served = None
              /\ proc[p].version \in begun
          BY <2>2, <3>2, InsertEffect, WorksFor
        <4> QED BY <1>0, <1>2, <1>4, <1>5, <4>1 DEF OneRow
      <3> QED BY <3>1, <3>2
    <2>3. CASE UpdateBuild(p)
      <3>1. CASE SameRows
        BY <1>1, <3>1
      <3>2. CASE ~SameRows
        <4>1. /\ OneRow(proc[p].version) /\ rows'[proc[p].version].status = "success"
              /\ rows'[proc[p].version].key = FinalKey(proc[p].version)
              /\ rows'[proc[p].version].passed = rows[proc[p].version].passed
              /\ rows'[proc[p].version].served = rows[proc[p].version].served
              /\ proc[p].version \in begun
          BY <2>3, <3>2, UpdateEffect, WorksFor
        <4> QED BY <1>0, <1>2, <1>4, <4>1 DEF OneRow
      <3> QED BY <3>1, <3>2
    <2>4. CASE BuildFails(p) \/ \E passed \in BOOLEAN : FinishScan(p, passed)
      BY <1>1, <2>4, FailEffect, FinishEffect
    <2>5. CASE DeleteRow(p)
      BY <1>2, <1>3, <2>5, DeleteRowEffect DEF OneRow
    <2>6. CASE DeletePluginRows(p)
      BY <1>2, <1>3, <2>6, DeletePluginRowsEffect
    <2>7. CASE \/ \E w \in Versions : \/ UploadPlugin(p, w) \/ UploadVersion(p, w)
                                      \/ StartScan(p, w) \/ DeleteVersion(p, w)
               \/ PutUpload(p) \/ PutBuild(p) \/ DeleteObject(p) \/ DeletePlugin(p)
               \/ \E key \in Keys : DeletePluginObject(p, key)
               \/ Stop(p)
      <3>1. rows' = rows
        BY <2>7 DEF UploadPlugin, UploadVersion, StartScan, DeleteVersion, PutUpload, PutBuild,
                    DeleteObject, DeletePlugin, DeletePluginObject, Stop
      <3> QED BY <1>2, <3>1
    <2> QED BY <1>6, <2>1, <2>2, <2>3, <2>4, <2>5, <2>6, <2>7 DEF Step
  <1>7. ASSUME NEW w \in Versions, SkipScan(w) \/ Publish(w) PROVE Good
    BY <1>1, <1>7, MarkEffect
  <1>8. ASSUME UNCHANGED vars PROVE Good
    BY <1>2, <1>8 DEF vars
  <1>9. Good
    <2> HIDE DEF Good
    <2> QED BY <1>6, <1>7, <1>8 DEF Next, Step
  <1> QED BY <1>0, <1>9, KeysStay DEF RowKnown, Puts

(* Objects are stored under the key of the version they are made of. *)
LEMMA BucketInductive ==
    ASSUME KnownInv, [Next]_vars, NEW key \in Keys
    PROVE  Puts(key, bucket[key])'
  <1>0. /\ begun \subseteq begun' /\ begun \subseteq Versions /\ Puts(key, bucket[key])
    BY NothingForgotten DEF KnownInv, TypeOK
  <1> DEFINE Good == Puts(key, bucket'[key])
  <1>1. ASSUME bucket' = bucket PROVE Good
    BY <1>0, <1>1
  <1>2. ASSUME NEW k \in Keys, Emptied(k) PROVE Good
    BY <1>0, <1>2 DEF Emptied, Puts
  <1>3. ASSUME NEW p \in Procs, PutUpload(p) \/ PutBuild(p) PROVE Good
    <2>1. proc[p].pc \in {"put upload", "put build"}
      BY <1>3 DEF PutUpload, PutBuild
    <2>2. proc[p].version \in begun
      BY <2>1, WorksFor
    <2> QED BY <1>0, <1>3, <2>2, PutEffect DEF Puts
  <1>4. ASSUME NEW p \in Procs, Step(p) PROVE Good
    <2> HIDE DEF Good
    <2>1. CASE DeleteObject(p) \/ \E k \in Keys : DeletePluginObject(p, k)
      BY <1>2, <2>1, DeleteObjectEffect, DeletePluginObjectEffect
    <2>2. CASE \/ \E w \in Versions : \/ UploadPlugin(p, w) \/ UploadVersion(p, w) \/ StartBuild(p, w)
                                      \/ StartScan(p, w) \/ DeleteVersion(p, w)
               \/ InsertUpload(p) \/ UpdateBuild(p) \/ BuildFails(p)
               \/ \E passed \in BOOLEAN : FinishScan(p, passed)
               \/ DeleteRow(p) \/ DeletePlugin(p) \/ DeletePluginRows(p) \/ Stop(p)
      <3>1. bucket' = bucket
        BY <2>2 DEF UploadPlugin, UploadVersion, StartBuild, StartScan, DeleteVersion, InsertUpload,
                    UpdateBuild, BuildFails, FinishScan, DeleteRow, DeletePlugin,
                    DeletePluginRows, Stop
      <3> QED BY <1>1, <3>1
    <2> QED BY <1>3, <1>4, <2>1, <2>2 DEF Step
  <1>5. ASSUME NEW w \in Versions, SkipScan(w) \/ Publish(w) PROVE Good
    BY <1>1, <1>5 DEF SkipScan, Publish
  <1>6. ASSUME UNCHANGED vars PROVE Good
    BY <1>1, <1>6 DEF vars
  <1>7. Good
    <2> HIDE DEF Good
    <2> QED BY <1>4, <1>5, <1>6 DEF Next, Step
  <1> QED BY <1>0, <1>7, KeysStay DEF Puts

(* A process that does not move has lost nothing of what it knew. *)
LEMMA ProcKnownStays ==
    ASSUME KnownInv, [Next]_vars, NEW q, ProcKnown(q)
    PROVE  ProcKnown(q)'
  <1>0. begun \subseteq begun' /\ begun \subseteq Versions
    BY NothingForgotten DEF KnownInv, TypeOK
  <1>1. /\ q.pc \notin {"idle", "delete objects"} => q.version \in begun'
        /\ q.pc \in Storing => q.key = FinalKey(q.version)'
        /\ q.pc \in Deleting => q.key \in {FinalKey(q.version)', Placeholder(q.version)'}
    BY <1>0, KeysStay DEF ProcKnown, Storing, Deleting
  <1>2. q.pc \in Scans => Puts(FinalKey(q.version), q.content)'
    BY <1>0, KeysStay DEF Scans, ProcKnown, Puts
  <1>3. q.pc = "delete objects" =>
            \A key \in q.keys : \E w \in begun' : key \in {FinalKey(w)', Placeholder(w)'}
    BY <1>0, KeysStay DEF ProcKnown
  <1> QED BY <1>1, <1>2, <1>3 DEF ProcKnown, Storing, Deleting

(* What a process has established stays established. *)
LEMMA ProcsInductive ==
    ASSUME KnownInv, [Next]_vars, NEW p \in Procs
    PROVE  ProcKnown(proc[p])'
  <1>0. /\ begun \subseteq begun' /\ begun \subseteq Versions /\ ProcKnown(proc[p])
    BY NothingForgotten DEF KnownInv, TypeOK
  <1> DEFINE q == proc'[p]
             Good == /\ q.pc \notin {"idle", "delete objects"} => q.version \in begun'
                     /\ q.pc \in Storing => q.key = FinalKey(q.version)
                     /\ q.pc \in Deleting => q.key \in {FinalKey(q.version), Placeholder(q.version)}
                     /\ q.pc \in Scans => Puts(FinalKey(q.version), q.content)
                     /\ q.pc = "delete objects" =>
                          \A key \in q.keys : \E w \in begun : key \in {FinalKey(w), Placeholder(w)}
  <1>1. ASSUME q = proc[p] PROVE Good
    BY <1>0, <1>1 DEF ProcKnown
  <1>2. ASSUME q.pc = "idle" PROVE Good
    BY <1>2 DEF Scans, Storing, Deleting
  <1>3. ASSUME NEW r \in Procs, OnlyProc(r), r # p PROVE Good
    BY <1>1, <1>3 DEF OnlyProc
  <1>4. ASSUME Step(p) PROVE Good
    <2>1. ASSUME NEW v \in Versions,
                 UploadPlugin(p, v) \/ UploadVersion(p, v) \/ StartBuild(p, v)
          PROVE  Good
      BY <2>1, BeginUpload, BeginBuild DEF Scans, Storing, Deleting
    <2>2. ASSUME NEW v \in Versions, StartScan(p, v) \/ DeleteVersion(p, v) PROVE Good
      <3>1. /\ q.version = v /\ Made(v) /\ rows[v].key \in Keys
            /\ \/ q.pc = "scan" /\ q.content = bucket[rows[v].key]
               \/ q.pc = "delete object" /\ q.key = rows[v].key
        BY <2>2, PickEffect
      <3>2. v \in begun /\ rows[v].key \in {FinalKey(v), Placeholder(v)}
        BY <3>1 DEF KnownInv, RowKnown
      <3>3. Puts(FinalKey(v), bucket[rows[v].key])
        <4>1. Puts(rows[v].key, bucket[rows[v].key])
          BY <3>1 DEF KnownInv
        <4>2. CASE rows[v].key = FinalKey(v)
          BY <4>1, <4>2
        <4>3. CASE rows[v].key = Placeholder(v)
          <5>1. \A w \in begun : FinalKey(w) # Placeholder(v)
            BY <1>0, KeysOf DEF KnownInv
          <5> QED BY <4>1, <4>3, <5>1 DEF Puts
        <4> QED BY <3>2, <4>2, <4>3
      <3> QED BY <1>0, <3>1, <3>2, <3>3 DEF Scans, Storing, Deleting
    <2>3. CASE PutUpload(p) \/ PutBuild(p)
      <3>1. proc[p].pc \in {"put upload", "put build"}
        BY <2>3 DEF PutUpload, PutBuild
      <3> QED BY <1>0, <2>3, <3>1, PutEffect, WorksFor DEF Scans, Storing, Deleting
    <2>4. CASE UpdateBuild(p)
      <3>1. proc[p].version \in begun
        BY <2>4, WorksFor DEF UpdateBuild
      <3>2. Puts(FinalKey(proc[p].version), Content(proc[p].version))
        BY <3>1 DEF Puts
      <3> QED BY <1>0, <2>4, <3>1, <3>2, UpdateEffect DEF Scans, Storing, Deleting
    <2>5. CASE DeleteObject(p)
      BY <1>0, <2>5, DeleteObjectEffect, WorksFor DEF Scans, Storing, Deleting
    <2>6. CASE DeletePlugin(p)
      <3>1. q.pc = "delete objects" /\ q.keys = {rows[v].key : v \in OfPlugin(plugin)}
        BY <2>6, DeletePluginEffect
      <3>2. \A v \in OfPlugin(plugin) : v \in begun /\ rows[v].key \in {FinalKey(v), Placeholder(v)}
        BY DEF OfPlugin, KnownInv, RowKnown
      <3> QED BY <3>1, <3>2 DEF Scans, Storing, Deleting
    <2>7. ASSUME NEW key \in Keys, DeletePluginObject(p, key) PROVE Good
      <3>1. /\ proc[p].pc = "delete objects" /\ q.pc = "delete objects"
            /\ q.keys = proc[p].keys \ {key}
        BY <2>7, DeletePluginObjectEffect
      <3> QED BY <1>0, <3>1 DEF Scans, ProcKnown, Storing, Deleting
    <2>8. CASE \/ InsertUpload(p) \/ BuildFails(p) \/ \E passed \in BOOLEAN : FinishScan(p, passed)
               \/ DeleteRow(p) \/ DeletePluginRows(p) \/ Stop(p)
      <3>1. q.pc = "idle"
        BY <2>8, InsertEffect, FailEffect, FinishEffect, DeleteRowEffect, DeletePluginRowsEffect,
           StopEffect
      <3> HIDE DEF Good
      <3> QED BY <1>2, <3>1
    <2> HIDE DEF Good
    <2> QED BY <1>4, <2>1, <2>2, <2>3, <2>4, <2>5, <2>6, <2>7, <2>8 DEF Step
  <1>5. ASSUME NEW r \in Procs, r # p, Step(r) PROVE OnlyProc(r)
    BY <1>5, BeginUpload, BeginBuild, PickEffect, PutEffect, InsertEffect, UpdateEffect, FailEffect,
       FinishEffect, DeleteObjectEffect, DeleteRowEffect, DeletePluginEffect,
       DeletePluginObjectEffect, DeletePluginRowsEffect, StopEffect
       DEF Step
  <1>6. ASSUME NEW w \in Versions, SkipScan(w) \/ Publish(w) PROVE q = proc[p]
    BY <1>6 DEF SkipScan, Publish
  <1>7. ASSUME UNCHANGED vars PROVE q = proc[p]
    BY <1>7 DEF vars
  <1>8. Good
    <2> HIDE DEF Good, q
    <2> QED BY <1>1, <1>3, <1>4, <1>5, <1>6, <1>7 DEF Next, Step
  <1>9. ASSUME NEW r, r = proc'[p] PROVE ProcKnown(r)'
    <2>1. /\ r.pc \notin {"idle", "delete objects"} => r.version \in begun'
          /\ r.pc \in Storing => r.key = FinalKey(r.version)
          /\ r.pc \in Deleting => r.key \in {FinalKey(r.version), Placeholder(r.version)}
          /\ r.pc \in Scans => Puts(FinalKey(r.version), r.content)
          /\ r.pc = "delete objects" =>
               \A key \in r.keys : \E w \in begun : key \in {FinalKey(w), Placeholder(w)}
      BY <1>8, <1>9
    <2>2. begun' \subseteq Versions
      BY TypeInductive DEF TypeOK
    <2>3. /\ r.pc \in Storing => r.key = FinalKey(r.version)'
          /\ r.pc \in Deleting => r.key \in {FinalKey(r.version)', Placeholder(r.version)'}
      BY <2>1, <2>2, KeysStay DEF Storing, Deleting
    <2>4. r.pc \in Scans => Puts(FinalKey(r.version), r.content)'
      BY <1>0, <2>1, <2>2, KeysStay DEF Scans, Puts
    <2>5. r.pc = "delete objects" =>
              \A key \in r.keys : \E w \in begun' : key \in {FinalKey(w)', Placeholder(w)'}
      BY <1>0, <2>1, KeysStay
    <2> QED BY <2>1, <2>3, <2>4, <2>5 DEF ProcKnown, Storing, Deleting
  <1>10. ASSUME NEW r, r = proc'[p] PROVE ProcKnown(proc[p])'
    <2>1. ProcKnown(r)'
      BY <1>9, <1>10
    <2> QED BY <1>10, <2>1 DEF ProcKnown
  <1> QED BY <1>10

(* So everything that is known stays known. *)
LEMMA KnownInductive == KnownInv /\ [Next]_vars => KnownInv'
  <1> SUFFICES ASSUME KnownInv, [Next]_vars PROVE KnownInv'
    OBVIOUS
  <1> QED BY TypeInductive, RowsInductive, BucketInductive, ProcsInductive DEF KnownInv
-----------------------------------------------------------------------------
(* How processes, rows and objects move.                                    *)

(* A process moves by a step of its own, and no other does at the time. *)
LEMMA MovesAlone ==
    ASSUME KnownInv, [Next]_vars, NEW q \in Procs
    PROVE  \/ proc'[q] = proc[q]
           \/ Step(q) /\ \A r \in Procs \ {q} : proc'[r] = proc[r]
  <1>1. ASSUME NEW r \in Procs, Step(r) PROVE OnlyProc(r)
    BY <1>1, BeginUpload, BeginBuild, PickEffect, PutEffect, InsertEffect, UpdateEffect, FailEffect,
       FinishEffect, DeleteObjectEffect, DeleteRowEffect, DeletePluginEffect,
       DeletePluginObjectEffect, DeletePluginRowsEffect, StopEffect
       DEF Step
  <1>2. ASSUME \/ \E w \in Versions : SkipScan(w) \/ Publish(w)
               \/ UNCHANGED vars
        PROVE proc'[q] = proc[q]
    BY <1>2 DEF SkipScan, Publish, vars
  <1>3. ASSUME NEW r \in Procs, Step(r)
        PROVE  \/ proc'[q] = proc[q]
               \/ Step(q) /\ \A s \in Procs \ {q} : proc'[s] = proc[s]
    BY <1>1, <1>3 DEF OnlyProc
  <1> QED BY <1>2, <1>3 DEF Next, Step

(* Where a process can go. *)
LEMMA WhereTo ==
    ASSUME KnownInv, NEW q \in Procs, Step(q)
    PROVE  \/ proc'[q].pc \in {"idle", "scan", "build scan"}
           \/ /\ proc[q].pc = "idle" /\ proc'[q].pc \in {"put upload", "put build"}
              /\ proc'[q].version \notin begun /\ proc'[q].version \in begun'
           \/ /\ proc[q].pc \in {"put upload", "put build"} /\ proc'[q].pc \in Storing
              /\ proc'[q].version = proc[q].version /\ proc'[q].key = FinalKey(proc[q].version)
              /\ bucket'[FinalKey(proc[q].version)] # None
           \/ /\ proc'[q].pc = "delete object" /\ proc'[q].version \in Versions
              /\ proc'[q].key = rows[proc'[q].version].key
           \/ /\ proc[q].pc = "delete object" /\ proc'[q].pc = "delete row"
              /\ proc'[q].version = proc[q].version /\ proc'[q].key = proc[q].key
              /\ proc[q].key \in Keys /\ Emptied(proc[q].key)
           \/ /\ proc[q].pc = "idle" /\ proc'[q].pc = "delete objects" /\ proc'[q].plugin = plugin
              /\ proc'[q].keys = {rows[v].key : v \in OfPlugin(plugin)}
           \/ /\ proc[q].pc = "delete objects" /\ proc'[q].pc = "delete objects"
              /\ proc'[q].plugin = proc[q].plugin /\ proc'[q].keys \subseteq proc[q].keys
  <1>1. ASSUME NEW v \in Versions, UploadPlugin(q, v) \/ UploadVersion(q, v) \/ StartBuild(q, v)
        PROVE  /\ proc[q].pc = "idle" /\ proc'[q].pc \in {"put upload", "put build"}
               /\ proc'[q].version \notin begun /\ proc'[q].version \in begun'
    <2>1. /\ proc[q].pc = "idle" /\ proc'[q].pc \in {"put upload", "put build"}
          /\ proc'[q].version = v /\ v \notin begun /\ begun' = begun \cup {v}
      <3>1. CASE UploadPlugin(q, v) \/ UploadVersion(q, v)
        BY <3>1, BeginUpload
      <3>2. CASE StartBuild(q, v)
        BY <3>2, BeginBuild
      <3> QED BY <1>1, <3>1, <3>2
    <2> QED BY <2>1
  <1>2. ASSUME NEW v \in Versions, StartScan(q, v) \/ DeleteVersion(q, v)
        PROVE  \/ proc'[q].pc = "scan"
               \/ /\ proc'[q].pc = "delete object" /\ proc'[q].version \in Versions
                  /\ proc'[q].key = rows[proc'[q].version].key
    <2>1. /\ proc'[q].version = v
          /\ \/ proc'[q].pc = "scan"
             \/ proc'[q].pc = "delete object" /\ proc'[q].key = rows[v].key
      BY <1>2, PickEffect
    <2> QED BY <2>1
  <1>3. ASSUME PutUpload(q) \/ PutBuild(q)
        PROVE  /\ proc[q].pc \in {"put upload", "put build"} /\ proc'[q].pc \in Storing
               /\ proc'[q].version = proc[q].version /\ proc'[q].key = FinalKey(proc[q].version)
               /\ bucket'[FinalKey(proc[q].version)] # None
    <2>1. proc[q].pc \in {"put upload", "put build"}
      BY <1>3 DEF PutUpload, PutBuild
    <2>2. proc[q].version \in Versions /\ Content(proc[q].version) # None
      BY <2>1, WorksFor, KeysOf DEF KnownInv
    <2> QED BY <1>3, <2>1, <2>2, PutEffect
  <1>4. ASSUME \/ InsertUpload(q) \/ BuildFails(q) \/ \E passed \in BOOLEAN : FinishScan(q, passed)
               \/ DeleteRow(q) \/ DeletePluginRows(q) \/ Stop(q) \/ UpdateBuild(q)
        PROVE  proc'[q].pc \in {"idle", "scan", "build scan"}
    BY <1>4, InsertEffect, FailEffect, FinishEffect, DeleteRowEffect, DeletePluginRowsEffect,
       StopEffect, UpdateEffect
  <1>5. ASSUME DeleteObject(q)
        PROVE  /\ proc[q].pc = "delete object" /\ proc'[q].pc = "delete row"
               /\ proc'[q].version = proc[q].version /\ proc'[q].key = proc[q].key
               /\ proc[q].key \in Keys /\ Emptied(proc[q].key)
    BY <1>5, DeleteObjectEffect
  <1>6. ASSUME DeletePlugin(q)
        PROVE  /\ proc[q].pc = "idle" /\ proc'[q].pc = "delete objects" /\ proc'[q].plugin = plugin
               /\ proc'[q].keys = {rows[v].key : v \in OfPlugin(plugin)}
    BY <1>6, DeletePluginEffect
  <1>7. ASSUME NEW key \in Keys, DeletePluginObject(q, key)
        PROVE  /\ proc[q].pc = "delete objects" /\ proc'[q].pc = "delete objects"
               /\ proc'[q].plugin = proc[q].plugin /\ proc'[q].keys \subseteq proc[q].keys
    BY <1>7, DeletePluginObjectEffect
  <1> QED BY <1>1, <1>2, <1>3, <1>4, <1>5, <1>6, <1>7 DEF Step

(* How a row can get and lose its final key. *)
LEMMA RowMoves ==
    ASSUME KnownInv, [Next]_vars, NEW v \in Versions
    PROVE  \/ /\ rows'[v].key = rows[v].key /\ rows'[v].plugin = rows[v].plugin
              /\ Made(v)' <=> Made(v)
              /\ \A p \in Procs : /\ proc[p].pc = "delete objects" /\ proc[p].plugin = rows[v].plugin
                                  /\ Made(v)
                                  => \/ /\ proc'[p].pc = "delete objects"
                                        /\ proc'[p].plugin = proc[p].plugin
                                     \/ begun \subseteq undone'
              /\ \A p \in Procs : proc[p].pc = "delete row" /\ proc[p].version = v /\ Made(v) =>
                                  \/ proc'[p] = proc[p]
                                  \/ v \in undone'
           \/ /\ rows'[v] = NoRow
              /\ Made(v) =>
                    \/ rows[v].key \in leaked' \/ bucket[rows[v].key] = None
                    \/ Dying(v, rows[v].key)
           \/ v \notin begun /\ rows'[v].key = Placeholder(v)
           \/ \E p \in Procs : /\ proc[p].pc \in Storing /\ proc[p].version = v
                               /\ proc'[p].pc \notin Making
                               /\ rows'[v].key = FinalKey(v) /\ Made(v)'
  <1> DEFINE Sweeper(p) == /\ proc[p].pc = "delete objects" /\ proc[p].plugin = rows[v].plugin
                           /\ Made(v)
                           => \/ /\ proc'[p].pc = "delete objects"
                                 /\ proc'[p].plugin = proc[p].plugin
                              \/ begun \subseteq undone'
             Deleter(p) == proc[p].pc = "delete row" /\ proc[p].version = v /\ Made(v) =>
                           \/ proc'[p] = proc[p]
                           \/ v \in undone'
             Same == /\ rows'[v].key = rows[v].key /\ rows'[v].plugin = rows[v].plugin
                     /\ Made(v)' <=> Made(v)
             Goal == \/ /\ Same
                        /\ \A p \in Procs : Sweeper(p)
                        /\ \A p \in Procs : Deleter(p)
                     \/ /\ rows'[v] = NoRow
                        /\ Made(v) =>
                              \/ rows[v].key \in leaked' \/ bucket[rows[v].key] = None
                              \/ Dying(v, rows[v].key)
                     \/ v \notin begun /\ rows'[v].key = Placeholder(v)
                     \/ \E p \in Procs : /\ proc[p].pc \in Storing /\ proc[p].version = v
                                         /\ proc'[p].pc \notin Making
                                         /\ rows'[v].key = FinalKey(v) /\ Made(v)'
  <1>1. ASSUME SameRows \/ rows'[v] = rows[v] PROVE Same
    BY <1>1 DEF SameRows, Made
  <1>2. ASSUME NEW p \in Procs, OnlyProc(p), Same, Sweeper(p), Deleter(p) PROVE Goal
    BY <1>2 DEF OnlyProc
  <1>3. ASSUME NEW p \in Procs, proc[p].pc \notin {"delete objects", "delete row"}
        PROVE  Sweeper(p) /\ Deleter(p)
    BY <1>3
  <1>4. ASSUME NEW p \in Procs, Step(p) PROVE Goal
    <2>1. OnlyProc(p)
      BY <1>4, BeginUpload, BeginBuild, PickEffect, PutEffect, InsertEffect, UpdateEffect, FailEffect,
         FinishEffect, DeleteObjectEffect, DeleteRowEffect, DeletePluginEffect,
         DeletePluginObjectEffect, DeletePluginRowsEffect, StopEffect
         DEF Step
    <2>2. ASSUME NEW w \in Versions, UploadPlugin(p, w) \/ UploadVersion(p, w) \/ StartScan(p, w)
                                     \/ DeleteVersion(p, w)
          PROVE  Goal
      <3>1. proc[p].pc = "idle" /\ rows' = rows
        BY <2>2, BeginUpload, PickEffect
      <3> HIDE DEF Goal, Same, Sweeper, Deleter
      <3> QED BY <1>1, <1>2, <1>3, <2>1, <3>1
    <2>3. ASSUME NEW w \in Versions, StartBuild(p, w) PROVE Goal
      <3>1. /\ proc[p].pc = "idle" /\ OneRow(w) /\ rows'[w].key = Placeholder(w) /\ w \notin begun
        BY <2>3, BeginBuild
      <3>2. CASE w = v
        BY <3>1, <3>2
      <3>3. CASE w # v
        <4>1. rows'[v] = rows[v]
          BY <3>1, <3>3 DEF OneRow
        <4> HIDE DEF Goal, Same, Sweeper, Deleter
        <4> QED BY <1>1, <1>2, <1>3, <2>1, <3>1, <4>1
      <3> QED BY <3>2, <3>3
    <2>4. CASE PutUpload(p) \/ PutBuild(p)
      <3>1. proc[p].pc \in {"put upload", "put build"} /\ rows' = rows
        BY <2>4, PutEffect
      <3>2. Sweeper(p) /\ Deleter(p) /\ Same
        BY <1>1, <3>1
      <3> HIDE DEF Goal, Same, Sweeper, Deleter
      <3> QED BY <1>2, <2>1, <3>2
    <2>5. ASSUME NEW w \in Versions, proc[p].pc \in Storing, proc[p].version = w,
                 proc'[p].pc \notin Making, OneRow(w),
                 rows'[w].status = "success", rows'[w].key = FinalKey(w)
          PROVE  Goal
      <3>1. CASE w = v
        BY <2>5, <3>1 DEF Made
      <3>2. CASE w # v
        <4>1. rows'[v] = rows[v] /\ proc[p].pc \notin {"delete objects", "delete row"}
          BY <2>5, <3>2 DEF OneRow, Storing
        <4> HIDE DEF Goal, Same, Sweeper, Deleter
        <4> QED BY <1>1, <1>2, <1>3, <2>1, <4>1
      <3> QED BY <3>1, <3>2
    <2>6. CASE InsertUpload(p) \/ UpdateBuild(p)
      <3>1. proc[p].pc \in {"insert", "update"}
        BY <2>6 DEF InsertUpload, UpdateBuild
      <3>2. proc[p].version \in Versions /\ proc[p].pc \in Storing
        BY <3>1, WorksFor DEF Storing
      <3>3. CASE SameRows \/ rows' = rows
        <4>1. proc[p].pc \notin {"delete objects", "delete row"}
          BY <3>1
        <4> HIDE DEF Goal, Same, Sweeper, Deleter
        <4> QED BY <1>1, <1>2, <1>3, <2>1, <3>3, <4>1
      <3>4. CASE ~SameRows /\ rows' # rows
        <4>1. /\ OneRow(proc[p].version) /\ rows'[proc[p].version].status = "success"
              /\ rows'[proc[p].version].key = FinalKey(proc[p].version)
              /\ proc'[p].pc \notin Making
          BY <2>6, <3>4, InsertEffect, UpdateEffect DEF Making
        <4> HIDE DEF Goal
        <4> QED BY <2>5, <3>2, <4>1
      <3> QED BY <3>3, <3>4
    <2>7. CASE BuildFails(p) \/ \E passed \in BOOLEAN : FinishScan(p, passed)
      <3>1. SameRows /\ proc[p].pc \in {"put build", "update", "scan", "build scan"}
        BY <2>7, FailEffect, FinishEffect DEF Scans
      <3>2. Sweeper(p) /\ Deleter(p) /\ Same
        BY <1>1, <3>1
      <3> HIDE DEF Goal, Same, Sweeper, Deleter
      <3> QED BY <1>2, <2>1, <3>2
    <2>8. CASE DeleteObject(p) \/ DeletePlugin(p)
      <3>1. rows' = rows /\ proc[p].pc \in {"delete object", "idle"}
        BY <2>8, DeleteObjectEffect, DeletePluginEffect
      <3>2. Sweeper(p) /\ Deleter(p) /\ Same
        BY <1>1, <3>1
      <3> HIDE DEF Goal, Same, Sweeper, Deleter
      <3> QED BY <1>2, <2>1, <3>2
    <2>9. ASSUME NEW key \in Keys, DeletePluginObject(p, key) PROVE Goal
      <3>1. /\ rows' = rows /\ proc[p].pc = "delete objects" /\ proc'[p].pc = "delete objects"
            /\ proc'[p].plugin = proc[p].plugin
        BY <2>9, DeletePluginObjectEffect
      <3>2. Sweeper(p) /\ Deleter(p) /\ Same
        BY <1>1, <3>1
      <3> HIDE DEF Goal, Same, Sweeper, Deleter
      <3> QED BY <1>2, <2>1, <3>2
    <2>10. CASE DeleteRow(p)
      <3>1. /\ proc[p].pc = "delete row" /\ proc[p].version \in Versions
            /\ OneRow(proc[p].version) /\ rows'[proc[p].version] = NoRow
            /\ Made(proc[p].version) =>
                 rows[proc[p].version].key = proc[p].key \/ rows[proc[p].version].key \in leaked'
        BY <2>10, DeleteRowEffect
      <3>2. CASE proc[p].version = v
        BY <3>1, <3>2 DEF Dying
      <3>3. CASE proc[p].version # v
        <4>1. rows'[v] = rows[v]
          BY <3>1, <3>3 DEF OneRow
        <4>2. Sweeper(p) /\ Deleter(p) /\ Same
          BY <1>1, <3>1, <3>3, <4>1
        <4> HIDE DEF Goal, Same, Sweeper, Deleter
        <4> QED BY <1>2, <2>1, <4>2
      <3> QED BY <3>2, <3>3
    <2>11. CASE DeletePluginRows(p)
      <3>1. /\ proc[p].pc = "delete objects"
            /\ \/ rows'[v] = rows[v] /\ ~(Made(v) /\ rows[v].plugin = proc[p].plugin)
               \/ rows'[v] = NoRow
            /\ Made(v) /\ rows'[v] # rows[v] /\ bucket[rows[v].key] # None => rows[v].key \in leaked'
        BY <2>11, DeletePluginRowsEffect
      <3>2. CASE rows'[v] = rows[v] /\ ~(Made(v) /\ rows[v].plugin = proc[p].plugin)
        <4>1. Sweeper(p) /\ Deleter(p) /\ Same
          BY <1>1, <3>1, <3>2
        <4> HIDE DEF Goal, Same, Sweeper, Deleter
        <4> QED BY <1>2, <2>1, <4>1
      <3>3. CASE rows'[v] = NoRow
        <4>1. Made(v) => rows'[v] # rows[v]
          BY <3>3, AtRest DEF Made
        <4> QED BY <3>1, <3>3, <4>1
      <3> QED BY <3>1, <3>2, <3>3
    <2>12. CASE Stop(p)
      <3>1. /\ rows' = rows
            /\ proc[p].pc = "delete row" => proc[p].version \in undone'
            /\ proc[p].pc = "delete objects" => begun \subseteq undone'
        BY <2>12, StopEffect
      <3>2. Sweeper(p) /\ Deleter(p) /\ Same
        BY <1>1, <3>1
      <3> HIDE DEF Goal, Same, Sweeper, Deleter
      <3> QED BY <1>2, <2>1, <3>2
    <2> HIDE DEF Goal
    <2> QED BY <1>4, <2>2, <2>3, <2>4, <2>6, <2>7, <2>8, <2>9, <2>10, <2>11, <2>12 DEF Step
  <1>5. ASSUME proc' = proc, Same PROVE Goal
    BY <1>5
  <1>6. ASSUME NEW w \in Versions, SkipScan(w) \/ Publish(w) PROVE Goal
    <2>1. SameRows /\ proc' = proc
      BY <1>6, MarkEffect DEF SkipScan, Publish
    <2> HIDE DEF Goal, Same
    <2> QED BY <1>1, <1>5, <2>1
  <1>7. ASSUME UNCHANGED vars PROVE Goal
    <2>1. rows' = rows /\ proc' = proc
      BY <1>7 DEF vars
    <2> HIDE DEF Goal, Same
    <2> QED BY <1>1, <1>5, <2>1
  <1>8. Goal
    <2> HIDE DEF Goal
    <2> QED BY <1>4, <1>6, <1>7 DEF Next, Step
  <1> QED BY <1>8
(* How an object can come, and how it can go. *)
LEMMA BucketMoves ==
    ASSUME KnownInv, [Next]_vars, NEW key \in Keys
    PROVE  \/ bucket'[key] = bucket[key]
           \/ /\ bucket'[key] # None
              /\ \E p \in Procs : proc'[p].pc \in Storing /\ proc'[p].key = key
           \/ /\ bucket'[key] = None
              /\ \E p \in Procs : /\ proc[p].pc = "delete object" /\ proc[p].key = key
                                  /\ proc'[p].pc = "delete row"
                                  /\ proc'[p].version = proc[p].version
           \/ /\ bucket'[key] = None
              /\ \E p \in Procs : /\ proc[p].pc = "delete objects" /\ key \in proc[p].keys
                                  /\ proc'[p].pc = "delete objects"
                                  /\ proc'[p].plugin = proc[p].plugin
  <1> DEFINE Goal ==
           \/ bucket'[key] = bucket[key]
           \/ /\ bucket'[key] # None
              /\ \E p \in Procs : proc'[p].pc \in Storing /\ proc'[p].key = key
           \/ /\ bucket'[key] = None
              /\ \E p \in Procs : /\ proc[p].pc = "delete object" /\ proc[p].key = key
                                  /\ proc'[p].pc = "delete row"
                                  /\ proc'[p].version = proc[p].version
           \/ /\ bucket'[key] = None
              /\ \E p \in Procs : /\ proc[p].pc = "delete objects" /\ key \in proc[p].keys
                                  /\ proc'[p].pc = "delete objects"
                                  /\ proc'[p].plugin = proc[p].plugin
  <1>1. ASSUME NEW p \in Procs, PutUpload(p) \/ PutBuild(p) PROVE Goal
    <2>1. /\ proc'[p].pc \in Storing /\ proc'[p].key = FinalKey(proc[p].version)
          /\ \A k \in Keys : k # FinalKey(proc[p].version) => bucket'[k] = bucket[k]
          /\ bucket'[FinalKey(proc[p].version)] = Content(proc[p].version)
          /\ proc[p].pc \in {"put upload", "put build"}
      BY <1>1, PutEffect
    <2>2. Content(proc[p].version) # None
      BY <2>1, WorksFor, KeysOf DEF KnownInv
    <2> QED BY <2>1, <2>2
  <1>2. ASSUME NEW p \in Procs, DeleteObject(p) PROVE Goal
    <2>1. /\ proc[p].pc = "delete object" /\ proc'[p].pc = "delete row"
          /\ proc'[p].version = proc[p].version /\ Emptied(proc[p].key)
      BY <1>2, DeleteObjectEffect
    <2> QED BY <2>1 DEF Emptied
  <1>3. ASSUME NEW p \in Procs, NEW k \in Keys, DeletePluginObject(p, k) PROVE Goal
    <2>1. /\ proc[p].pc = "delete objects" /\ proc'[p].pc = "delete objects"
          /\ proc'[p].plugin = proc[p].plugin /\ k \in proc[p].keys /\ Emptied(k)
      BY <1>3, DeletePluginObjectEffect
    <2> QED BY <2>1 DEF Emptied
  <1>4. ASSUME NEW p \in Procs,
               \/ \E v \in Versions : \/ UploadPlugin(p, v) \/ UploadVersion(p, v)
                                      \/ StartBuild(p, v) \/ StartScan(p, v) \/ DeleteVersion(p, v)
               \/ InsertUpload(p) \/ UpdateBuild(p) \/ BuildFails(p)
               \/ \E passed \in BOOLEAN : FinishScan(p, passed)
               \/ DeleteRow(p) \/ DeletePlugin(p) \/ DeletePluginRows(p) \/ Stop(p)
        PROVE  bucket' = bucket
    BY <1>4 DEF UploadPlugin, UploadVersion, StartBuild, StartScan, DeleteVersion, InsertUpload,
                UpdateBuild, BuildFails, FinishScan, DeleteRow, DeletePlugin, DeletePluginRows, Stop
  <1>5. ASSUME NEW p \in Procs, Step(p) PROVE Goal
    <2>1. ASSUME bucket' = bucket PROVE Goal
      BY <2>1
    <2> HIDE DEF Goal
    <2> QED BY <1>1, <1>2, <1>3, <1>4, <1>5, <2>1 DEF Step
  <1>6. ASSUME \/ \E w \in Versions : SkipScan(w) \/ Publish(w)
               \/ UNCHANGED vars
        PROVE  Goal
    <2>1. bucket' = bucket
      BY <1>6 DEF SkipScan, Publish, vars
    <2> QED BY <2>1
  <1>7. Goal
    <2> HIDE DEF Goal
    <2> QED BY <1>5, <1>6 DEF Next, Step
  <1> QED BY <1>7

(* Whoever has stored an object leaves it to a row or leaves it behind. *)
LEMMA StoringEnds ==
    ASSUME KnownInv, NEW p \in Procs, Step(p), proc[p].pc \in Storing,
           NEW v, v = proc[p].version
    PROVE  /\ proc'[p].pc \in {"idle", "scan", "build scan"}
           /\ \/ proc[p].key \in leaked'
              \/ Made(v)' /\ rows'[v].key = FinalKey(v)
  <1>1. CASE InsertUpload(p) \/ UpdateBuild(p)
    <2>1. \/ proc[p].key \in leaked'
          \/ rows'[v].status = "success" /\ rows'[v].key = FinalKey(v)
      BY <1>1, InsertEffect, UpdateEffect
    <2>2. proc'[p].pc \in {"idle", "scan", "build scan"}
      BY <1>1, InsertEffect, UpdateEffect
    <2>3. rows'[v].status = "success" => Made(v)'
      BY DEF Made
    <2> QED BY <2>1, <2>2, <2>3
  <1>2. CASE BuildFails(p) \/ Stop(p)
    BY <1>2, FailEffect, StopEffect DEF Storing
  <1>3. CASE ~(InsertUpload(p) \/ UpdateBuild(p) \/ BuildFails(p) \/ Stop(p))
    <2>1. \/ \E w \in Versions : \/ UploadPlugin(p, w) \/ UploadVersion(p, w) \/ StartBuild(p, w)
                                 \/ StartScan(p, w) \/ DeleteVersion(p, w)
          \/ PutUpload(p) \/ PutBuild(p)
          \/ \E passed \in BOOLEAN : FinishScan(p, passed)
          \/ DeleteObject(p) \/ DeleteRow(p)
          \/ DeletePlugin(p) \/ DeletePluginRows(p)
          \/ \E key \in Keys : DeletePluginObject(p, key)
      BY <1>3 DEF Step
    <2>2. proc[p].pc \in {"idle", "put upload", "put build", "scan", "build scan",
                          "delete object", "delete row", "delete objects"}
      BY <2>1, BeginUpload, BeginBuild, PickEffect, PutEffect, FinishEffect, DeleteObjectEffect,
         DeleteRowEffect, DeletePluginEffect, DeletePluginRowsEffect, DeletePluginObjectEffect
         DEF Scans
    <2> QED BY <2>2 DEF Storing
  <1> QED BY <1>1, <1>2, <1>3
(* A process is making a version because it was before, or because nobody   *)
(* had begun it; it has stored the object only by putting it there.         *)
LEMMA Makes ==
    ASSUME KnownInv, [Next]_vars, NEW v \in Versions, NEW p \in Procs, IsMaking(p, v)'
    PROVE  \/ /\ IsMaking(p, v)
              /\ proc'[p].pc \in Storing => \/ proc[p].pc \in Storing
                                            \/ bucket'[FinalKey(v)] # None
           \/ /\ v \notin begun /\ v \in begun' /\ proc'[p].pc \notin Storing
              /\ \A q \in Procs \ {p} : proc'[q] = proc[q]
  <1>1. proc'[p].pc \in Making /\ proc'[p].version = v
    BY DEF IsMaking
  <1>2. CASE proc'[p] = proc[p]
    BY <1>1, <1>2 DEF IsMaking
  <1>3. CASE Step(p) /\ \A q \in Procs \ {p} : proc'[q] = proc[q]
    <2>1. \/ /\ proc'[p].pc \in {"put upload", "put build"}
             /\ proc'[p].version \notin begun /\ proc'[p].version \in begun'
          \/ /\ proc[p].pc \in {"put upload", "put build"} /\ proc'[p].pc \in Storing
             /\ proc'[p].version = proc[p].version
             /\ bucket'[FinalKey(proc[p].version)] # None
      BY <1>1, <1>3, WhereTo DEF Making
    <2> QED BY <1>1, <1>3, <2>1 DEF IsMaking, Making, Storing
  <1> QED BY <1>2, <1>3, MovesAlone

(* A process deletes a version by its final key because it did so before,   *)
(* or because the row has that key.                                         *)
LEMMA Aims ==
    ASSUME KnownInv, [Next]_vars, NEW v \in Versions, NEW q \in Procs,
           proc'[q].pc \in Deleting, proc'[q].version = v, proc'[q].key = FinalKey(v)
    PROVE  \/ proc[q].pc \in Deleting /\ proc[q].version = v /\ proc[q].key = FinalKey(v)
           \/ rows[v].key = FinalKey(v)
  <1>1. CASE proc'[q] = proc[q]
    BY <1>1
  <1>2. CASE Step(q)
    <2>1. \/ /\ proc'[q].pc = "delete object" /\ proc'[q].version \in Versions
             /\ proc'[q].key = rows[proc'[q].version].key
          \/ /\ proc[q].pc = "delete object" /\ proc'[q].pc = "delete row"
             /\ proc'[q].version = proc[q].version /\ proc'[q].key = proc[q].key
      BY <1>2, WhereTo DEF Deleting, Storing
    <2> QED BY <2>1 DEF Deleting
  <1> QED BY <1>1, <1>2, MovesAlone

(* The deletion of a plugin is about to delete the object of a version      *)
(* because it was before, because another version has the same key, or      *)
(* because the row has that key and is one of the plugin's.                 *)
LEMMA Sweeps ==
    ASSUME KnownInv, [Next]_vars, NEW v \in Versions, NEW q \in Procs,
           proc'[q].pc = "delete objects", FinalKey(v) \in proc'[q].keys
    PROVE  \/ /\ proc[q].pc = "delete objects" /\ proc'[q].plugin = proc[q].plugin
              /\ FinalKey(v) \in proc[q].keys
           \/ Sharing(v) # {}
           \/ rows[v].key = FinalKey(v) /\ rows[v].plugin = proc'[q].plugin
  <1>1. CASE proc'[q] = proc[q]
    BY <1>1
  <1>2. CASE Step(q)
    <2>1. \/ /\ proc'[q].plugin = plugin
             /\ proc'[q].keys = {rows[w].key : w \in OfPlugin(plugin)}
          \/ /\ proc[q].pc = "delete objects"
             /\ proc'[q].plugin = proc[q].plugin /\ proc'[q].keys \subseteq proc[q].keys
      BY <1>2, WhereTo DEF Storing
    <2>2. CASE /\ proc'[q].plugin = plugin
               /\ proc'[q].keys = {rows[w].key : w \in OfPlugin(plugin)}
      <3>1. PICK w \in Versions : Made(w) /\ rows[w].plugin = plugin /\ rows[w].key = FinalKey(v)
        BY <2>2 DEF OfPlugin
      <3>2. w \in begun /\ FinalKey(v) \in {FinalKey(w), Placeholder(w)} /\ TypeOK
        BY <3>1 DEF KnownInv, RowKnown
      <3>3. FinalKey(w) = FinalKey(v)
        BY <3>2, KeysOf
      <3> QED BY <2>2, <3>1, <3>2, <3>3, SharedKey
    <2> QED BY <2>1, <2>2
  <1> QED BY <1>1, <1>2, MovesAlone

(* The object of a version goes with the version, with the plugin, or with  *)
(* another version of the same key.                                         *)
LEMMA ObjectGoes ==
    ASSUME KnownInv, [Next]_vars, NEW v \in begun,
           bucket[FinalKey(v)] # None, bucket'[FinalKey(v)] = None
    PROVE  \/ Sharing(v) # {}
           \/ \E q \in Procs : /\ proc[q].pc = "delete object" /\ proc[q].version = v
                               /\ proc[q].key = FinalKey(v)
                               /\ proc'[q].pc = "delete row" /\ proc'[q].version = v
           \/ \E q \in Procs : /\ proc[q].pc = "delete objects" /\ FinalKey(v) \in proc[q].keys
                               /\ proc'[q].pc = "delete objects"
                               /\ proc'[q].plugin = proc[q].plugin
  <1>1. v \in Versions /\ FinalKey(v) \in Keys /\ TypeOK
    BY KeysOf DEF KnownInv, TypeOK
  <1>2. \/ \E q \in Procs : /\ proc[q].pc = "delete object" /\ proc[q].key = FinalKey(v)
                            /\ proc'[q].pc = "delete row" /\ proc'[q].version = proc[q].version
        \/ \E q \in Procs : /\ proc[q].pc = "delete objects" /\ FinalKey(v) \in proc[q].keys
                            /\ proc'[q].pc = "delete objects"
                            /\ proc'[q].plugin = proc[q].plugin
    BY <1>1, BucketMoves
  <1>3. ASSUME NEW q \in Procs, proc[q].pc = "delete object", proc[q].key = FinalKey(v),
               proc[q].version # v
        PROVE  Sharing(v) # {}
    <2>1. /\ proc[q].version \in begun /\ proc[q].version \in Versions
          /\ FinalKey(v) \in {FinalKey(proc[q].version), Placeholder(proc[q].version)}
      BY <1>3, WorksFor DEF Deleting
    <2>2. FinalKey(proc[q].version) = FinalKey(v)
      BY <1>1, <2>1, KeysOf
    <2> QED BY <1>1, <1>3, <2>1, <2>2, SharedKey
  <1> QED BY <1>2, <1>3
-----------------------------------------------------------------------------
(* Objects and the rows that name them.                                     *)

(* RowMoves, for the final key: a row that has it had it before, or is      *)
(* given it by the process that makes the version.                          *)
LEMMA GetsFinalKey ==
    ASSUME KnownInv, [Next]_vars, NEW v \in Versions, rows'[v].key = FinalKey(v)
    PROVE  /\ v \in begun
           /\ \/ /\ rows[v].key = FinalKey(v) /\ Made(v) /\ rows'[v].plugin = rows[v].plugin
                 /\ \A p \in Procs :
                       proc[p].pc = "delete objects" /\ proc[p].plugin = rows[v].plugin =>
                          \/ proc'[p].pc = "delete objects" /\ proc'[p].plugin = proc[p].plugin
                          \/ v \in undone'
                 /\ \A p \in Procs : proc[p].pc = "delete row" /\ proc[p].version = v =>
                                        proc'[p] = proc[p] \/ v \in undone'
              \/ \E p \in Procs : /\ IsMaking(p, v) /\ proc[p].pc \in Storing
                                  /\ ~IsMaking(p, v)'
  <1>1. /\ FinalKey(v) # None /\ FinalKey(v) # Placeholder(v) /\ RowKnown(v)
        /\ NoRow.key = None
    BY KeysOf, AtRest DEF KnownInv
  <1>2. rows[v].key = FinalKey(v) => Made(v) /\ v \in begun
    BY <1>1 DEF RowKnown
  <1>3. ASSUME NEW p \in Procs, proc[p].pc \in Storing, proc[p].version = v,
               proc'[p].pc \notin Making
        PROVE  v \in begun /\ IsMaking(p, v) /\ ~IsMaking(p, v)'
    BY <1>3, WorksFor DEF IsMaking, Storing, Making
  <1> QED BY <1>1, <1>2, <1>3, RowMoves

(* Unmade is kept: a version that is being made was begun by this process,  *)
(* and what could delete its object on its account needs the row.           *)
LEMMA UnmadeInductive ==
    ASSUME ArtifactsInv, [Next]_vars, NEW v \in Versions
    PROVE  Unmade(v)'
  <1> DEFINE key == FinalKey(v)
  <1>1. /\ KnownInv /\ TypeOK /\ RowKnown(v) /\ Unmade(v)
        /\ key \in Keys /\ key # None /\ Placeholder(v) # key
    BY KeysOf DEF ArtifactsInv, KnownInv
  <1>2. FinalKey(v)' = key /\ (Sharing(v) # {} => Sharing(v)' # {})
    BY KeysStay
  <1>3. SUFFICES ASSUME NEW p \in Procs, IsMaking(p, v)'
                 PROVE  /\ rows'[v].key # key
                        /\ \A q \in Procs : proc'[q].pc \in Deleting /\ proc'[q].version = v =>
                                               proc'[q].key # key
                        /\ \A q \in Procs : IsMaking(q, v)' => q = p
                        /\ \A q \in Procs : proc'[q].pc = "delete objects" /\ key \in proc'[q].keys =>
                                               Sharing(v)' # {}
                        /\ proc'[p].pc \in Storing => bucket'[key] # None \/ Sharing(v)' # {}
    BY <1>2 DEF Unmade
  <1>4. CASE IsMaking(p, v)
    <2>1. /\ rows[v].key # key /\ v \in begun
          /\ \A q \in Procs : proc[q].pc \in Deleting /\ proc[q].version = v => proc[q].key # key
          /\ \A q \in Procs : IsMaking(q, v) => q = p
          /\ \A q \in Procs : proc[q].pc = "delete objects" /\ key \in proc[q].keys =>
                                 Sharing(v) # {}
          /\ proc[p].pc \in Storing => bucket[key] # None \/ Sharing(v) # {}
      BY <1>1, <1>4, WorksFor DEF Unmade, IsMaking, Making
    <2>2. rows'[v].key # key
      BY <1>1, <1>3, <2>1, GetsFinalKey
    <2>3. ASSUME NEW q \in Procs, proc'[q].pc \in Deleting, proc'[q].version = v
          PROVE  proc'[q].key # key
      BY <1>1, <2>1, <2>3, Aims
    <2>4. ASSUME NEW q \in Procs, IsMaking(q, v)' PROVE q = p
      BY <1>1, <2>1, <2>4, Makes
    <2>5. ASSUME NEW q \in Procs, proc'[q].pc = "delete objects", key \in proc'[q].keys
          PROVE  Sharing(v)' # {}
      BY <1>1, <1>2, <2>1, <2>5, Sweeps
    <2>6. ASSUME proc'[p].pc \in Storing PROVE bucket'[key] # None \/ Sharing(v)' # {}
      <3>1. CASE bucket'[key] # None
        BY <3>1
      <3>2. CASE bucket'[key] = None
        <4>1. proc[p].pc \in Storing
          BY <1>1, <1>3, <2>1, <2>6, <3>2, Makes
        <4>2. bucket[key] # None \/ Sharing(v) # {}
          BY <2>1, <4>1
        <4>3. bucket[key] # None => Sharing(v) # {}
          BY <1>1, <2>1, <3>2, ObjectGoes DEF Deleting
        <4> QED BY <1>2, <4>2, <4>3
      <3> QED BY <3>1, <3>2
    <2> HIDE DEF key
    <2> QED BY <2>2, <2>3, <2>4, <2>5, <2>6
  <1>5. CASE ~IsMaking(p, v)
    <2>1. /\ v \notin begun /\ proc'[p].pc \notin Storing /\ proc'[p].pc \in Making
          /\ \A q \in Procs \ {p} : proc'[q] = proc[q]
      BY <1>1, <1>3, <1>5, Makes DEF IsMaking
    <2>2. rows'[v].key # key
      BY <1>1, <2>1, GetsFinalKey
    <2>3. ASSUME NEW q \in Procs, proc'[q].version = v, q # p
          PROVE  proc'[q].pc \in {"idle", "delete objects"}
      BY <1>1, <2>1, <2>3, WorksFor
    <2>4. ASSUME NEW q \in Procs, proc'[q].pc = "delete objects", key \in proc'[q].keys
          PROVE  Sharing(v)' # {}
      <3>1. proc'[q] = proc[q]
        BY <2>1, <2>4 DEF Making
      <3>2. ProcKnown(proc[q])
        BY <1>1 DEF KnownInv
      <3>3. PICK w \in begun : key \in {FinalKey(w), Placeholder(w)}
        BY <2>4, <3>1, <3>2 DEF ProcKnown
      <3>4. w \in Versions /\ FinalKey(w) = key /\ w # v
        BY <1>1, <2>1, <3>3, KeysOf DEF TypeOK
      <3> QED BY <1>1, <1>2, <3>3, <3>4, SharedKey
    <2> HIDE DEF key
    <2> QED BY <2>1, <2>2, <2>3, <2>4 DEF IsMaking, Making, Deleting
  <1> QED BY <1>4, <1>5

(* Swept is kept: a row gets its final key while its plugin is deleted only *)
(* if that deletion does not have the key, or another version has it too.   *)
LEMMA SweptInductive ==
    ASSUME ArtifactsInv, [Next]_vars, NEW v \in Versions
    PROVE  Swept(v)'
  <1>1. KnownInv /\ Unmade(v) /\ Swept(v)
    BY DEF ArtifactsInv
  <1>2. FinalKey(v)' = FinalKey(v) /\ (Sharing(v) # {} => Sharing(v)' # {})
    BY KeysStay
  <1>3. SUFFICES ASSUME NEW p \in Procs, proc'[p].pc = "delete objects",
                        FinalKey(v) \in proc'[p].keys, rows'[v].key = FinalKey(v)
                 PROVE  Sharing(v) # {} \/ rows'[v].plugin = proc'[p].plugin
    BY <1>2 DEF Swept
  <1>4. \/ rows[v].key = FinalKey(v) /\ rows'[v].plugin = rows[v].plugin
        \/ \E q \in Procs : IsMaking(q, v)
    BY <1>1, <1>3, GetsFinalKey
  <1>5. \/ /\ proc[p].pc = "delete objects" /\ proc'[p].plugin = proc[p].plugin
           /\ FinalKey(v) \in proc[p].keys
        \/ Sharing(v) # {}
        \/ rows[v].key = FinalKey(v) /\ rows[v].plugin = proc'[p].plugin
    BY <1>1, <1>3, Sweeps
  <1> QED BY <1>1, <1>4, <1>5 DEF Swept, Unmade

(* HasObject is kept: the object of a row goes with the row, and is there   *)
(* when the row gets its key.                                               *)
LEMMA HasObjectInductive ==
    ASSUME ArtifactsInv, [Next]_vars, NEW v \in Versions
    PROVE  HasObject(v)'
  <1> DEFINE key == FinalKey(v)
             Leaving(p) == \/ proc'[p].pc = "delete row" /\ proc'[p].version = v
                           \/ proc'[p].pc = "delete objects" /\ proc'[p].plugin = rows'[v].plugin
  <1>1. KnownInv /\ Unmade(v) /\ Swept(v) /\ HasObject(v) /\ undone \subseteq undone'
    BY NothingForgotten DEF ArtifactsInv
  <1>2. FinalKey(v)' = key /\ (Sharing(v) # {} => Sharing(v)' # {})
    BY KeysStay
  <1>3. SUFFICES ASSUME rows'[v].key = key, bucket'[key] = None, Sharing(v) = {}, v \notin undone'
                 PROVE  \E p \in Procs : Leaving(p)
    BY <1>2 DEF HasObject
  <1>4. v \in begun
    BY <1>1, <1>3, GetsFinalKey
  <1>5. bucket[key] # None =>
           \/ \E q \in Procs : /\ proc[q].pc = "delete object" /\ proc[q].version = v
                               /\ proc[q].key = key
                               /\ proc'[q].pc = "delete row" /\ proc'[q].version = v
           \/ \E q \in Procs : /\ proc[q].pc = "delete objects" /\ key \in proc[q].keys
                               /\ proc'[q].pc = "delete objects"
                               /\ proc'[q].plugin = proc[q].plugin
    BY <1>1, <1>3, <1>4, ObjectGoes
  <1>6. ASSUME NEW p \in Procs, IsMaking(p, v), proc[p].pc \in Storing PROVE FALSE
    <2>1. /\ bucket[key] # None
          /\ \A q \in Procs : proc[q].pc \in Deleting /\ proc[q].version = v => proc[q].key # key
          /\ \A q \in Procs : ~(proc[q].pc = "delete objects" /\ key \in proc[q].keys)
      BY <1>1, <1>3, <1>6 DEF Unmade
    <2> QED BY <1>5, <2>1 DEF Deleting
  <1>7. /\ rows[v].key = key /\ rows'[v].plugin = rows[v].plugin
        /\ \A p \in Procs :
              proc[p].pc = "delete objects" /\ proc[p].plugin = rows[v].plugin => Leaving(p)
        /\ \A p \in Procs : proc[p].pc = "delete row" /\ proc[p].version = v => Leaving(p)
    BY <1>1, <1>3, <1>6, GetsFinalKey
  <1>8. CASE bucket[key] = None
    <2>1. \E p \in Procs : \/ proc[p].pc = "delete row" /\ proc[p].version = v
                           \/ proc[p].pc = "delete objects" /\ proc[p].plugin = rows[v].plugin
      BY <1>1, <1>3, <1>7, <1>8 DEF HasObject
    <2> QED BY <1>7, <2>1
  <1>9. CASE bucket[key] # None
    <2>1. \A q \in Procs : proc[q].pc = "delete objects" /\ key \in proc[q].keys =>
                              rows[v].plugin = proc[q].plugin
      BY <1>1, <1>3, <1>7 DEF Swept
    <2> QED BY <1>5, <1>7, <1>9, <2>1
  <1> QED BY <1>8, <1>9
(* Named is kept: the process that stored an object gives it to a row or    *)
(* leaves it behind, and so does whatever takes the row away.               *)
LEMMA NamedInductive ==
    ASSUME ArtifactsInv, [Next]_vars, NEW key \in Keys
    PROVE  Named(key)'
  <1>1. /\ KnownInv /\ TypeOK /\ Named(key) /\ leaked \subseteq leaked' /\ source' = source
        /\ \A v \in Versions : RowKnown(v) /\ Unmade(v)
    BY NothingForgotten DEF ArtifactsInv, KnownInv
  <1>2. SUFFICES ASSUME bucket'[key] # None, key \notin leaked',
                        \A p \in Procs : ~(proc'[p].pc \in Storing /\ proc'[p].key = key)
                 PROVE  \E v \in Versions : Names(v, key)'
    BY DEF Named
  <1>3. bucket'[key] = bucket[key]
    BY <1>1, <1>2, BucketMoves
  <1>4. ASSUME NEW v \in Versions, Dying(v, key)' PROVE Dying(v, key)
    <2>1. PICK q \in Procs : /\ proc'[q].pc = "delete row" /\ proc'[q].version = v
                             /\ proc'[q].key = key
      BY <1>4 DEF Dying
    <2>2. CASE proc'[q] = proc[q]
      BY <2>1, <2>2 DEF Dying
    <2>3. CASE Step(q)
      <3>1. proc'[q].key = proc[q].key /\ Emptied(proc[q].key)
        BY <1>1, <2>1, <2>3, WhereTo DEF Storing
      <3> QED BY <1>2, <2>1, <3>1 DEF Emptied
    <2> QED BY <1>1, <2>2, <2>3, MovesAlone
  <1>5. ASSUME NEW v \in Versions, Names(v, key) PROVE Names(v, key)'
    <2>1. /\ Made(v) /\ rows[v].key = key /\ ~Dying(v, key) /\ v \in begun
          /\ key \in {FinalKey(v), Placeholder(v)}
      BY <1>1, <1>5 DEF Names, RowKnown
    <2>2. Names(v, key)' <=> Made(v)' /\ rows'[v].key = key /\ ~Dying(v, key)'
      BY DEF Names
    <2>3. ASSUME NEW p \in Procs, proc[p].pc \in Storing, proc[p].version = v PROVE FALSE
      <3>1. key = Placeholder(v)
        BY <1>1, <2>1, <2>3 DEF Unmade, IsMaking, Making, Storing
      <3>2. Puts(key, bucket[key])
        BY <1>1 DEF KnownInv
      <3>3. PICK w \in begun : FinalKey(w) = Placeholder(v)
        BY <1>2, <1>3, <3>1, <3>2 DEF Puts
      <3>4. w \in Versions
        BY <1>1 DEF TypeOK
      <3> QED BY <1>1, <3>3, <3>4, KeysOf
    <2> QED BY <1>1, <1>2, <1>3, <1>4, <2>1, <2>2, <2>3, RowMoves
  <1>6. ASSUME NEW p \in Procs, proc[p].pc \in Storing, proc[p].key = key
        PROVE  \E v \in Versions : Names(v, key)'
    <2> DEFINE v == proc[p].version
    <2>1. /\ v \in Versions /\ FinalKey(v) = key /\ proc[p].pc \in Making
      BY <1>1, <1>6, WorksFor DEF Storing, Making
    <2>2. Step(p) /\ proc'[p] # proc[p]
      BY <1>1, <1>2, <1>6, MovesAlone
    <2>3. ASSUME NEW w \in Versions, w = v PROVE Names(w, key)'
      <3>1. Made(w)' /\ rows'[w].key = key
        BY <1>1, <1>2, <1>6, <2>1, <2>2, <2>3, StoringEnds
      <3>2. ~Dying(w, key)
        BY <1>1, <1>6, <2>1, <2>3 DEF Unmade, IsMaking, Dying, Deleting
      <3> QED BY <1>4, <3>1, <3>2 DEF Names
    <2> QED BY <2>1, <2>3
  <1> QED BY <1>1, <1>2, <1>3, <1>5, <1>6 DEF Named

-----------------------------------------------------------------------------
(* The invariant and what follows from it.                                  *)

(* The invariant holds at first and every step keeps it. *)
LEMMA ArtifactsInvariant == Spec => []ArtifactsInv
  <1>1. Init => ArtifactsInv
    <2> SUFFICES ASSUME Init PROVE ArtifactsInv
      OBVIOUS
    <2>1. TypeOK
      <3>1. plugin \in 0..MaxPlugins /\ created \in 0..MaxPlugins /\ faults \in 0..MaxFaults
        BY ArtifactsAssumption DEF Init
      <3>2. /\ source \in [Versions -> Sources] /\ rows \in [Versions -> Row]
            /\ bucket \in [Keys -> Contents] /\ proc \in [Procs -> Proc]
            /\ begun = {} /\ leaked = {} /\ undone = {}
        BY AtRest DEF Init, Contents
      <3> QED BY <3>1, <3>2 DEF TypeOK
    <2>2. /\ \A v \in Versions : rows[v] = NoRow
          /\ \A key \in Keys : bucket[key] = None
          /\ \A p \in Procs : proc[p].pc = "idle"
      BY AtRest DEF Init
    <2>3. KnownInv
      BY <2>1, <2>2, AtRest DEF Scans, KnownInv, RowKnown, Made, Puts, ProcKnown, Storing, Deleting
    <2>4. ASSUME NEW v \in Versions PROVE Unmade(v) /\ Swept(v) /\ HasObject(v)
      <3>1. rows[v].key # FinalKey(v)
        BY <2>1, <2>2, AtRest, KeysOf
      <3> QED BY <2>2, <3>1 DEF Unmade, Swept, HasObject, IsMaking, Making
    <2>5. \A key \in Keys : Named(key)
      BY <2>2 DEF Named
    <2> QED BY <2>3, <2>4, <2>5 DEF ArtifactsInv
  <1>2. ArtifactsInv /\ [Next]_vars => ArtifactsInv'
    <2> SUFFICES ASSUME ArtifactsInv, [Next]_vars PROVE ArtifactsInv'
      OBVIOUS
    <2>1. KnownInv'
      BY KnownInductive DEF ArtifactsInv
    <2>2. \A v \in Versions : Unmade(v)' /\ Swept(v)' /\ HasObject(v)'
      BY UnmadeInductive, SweptInductive, HasObjectInductive
    <2>3. \A key \in Keys : Named(key)'
      BY NamedInductive
    <2> QED BY <2>1, <2>2, <2>3 DEF ArtifactsInv
  <1> QED BY <1>1, <1>2, PTL DEF Spec

(* Versions, processes and objects keep their types. *)
THEOREM TypeCorrect == Spec => []TypeOK
  <1>1. ArtifactsInv => TypeOK
    BY DEF ArtifactsInv, KnownInv
  <1> QED BY <1>1, ArtifactsInvariant, PTL

(* ServedAsScanned: what is under the key of a published version is what    *)
(* passed when it was published, unless another version of its number and   *)
(* other content was begun: uploads of one number replace each other, and   *)
(* so do builds of commits with the same seven digits.                      *)
THEOREM ServedObjectsPassed == Spec => []ServedAsScanned
  <1>1. ArtifactsInv => ServedAsScanned
    <2> SUFFICES ASSUME ArtifactsInv, NEW v \in Versions, rows[v].served # None,
                        bucket[rows[v].key] \notin {rows[v].served, None}
                 PROVE  \E w \in Sharing(v) : Content(w) # Content(v)
      BY DEF ServedAsScanned
    <2>1. KnownInv /\ TypeOK /\ RowKnown(v) /\ Puts(FinalKey(v), rows[v].served)
      BY DEF ArtifactsInv, KnownInv
    <2>2. /\ FinalKey(v) \in Keys /\ Placeholder(v) \in Keys
          /\ \A w \in Versions : FinalKey(w) # Placeholder(v)
      BY <2>1, KeysOf
    <2>3. v \in begun /\ rows[v].key \in {FinalKey(v), Placeholder(v)} /\ begun \subseteq Versions
      BY <2>1, AtRest DEF RowKnown, TypeOK
    <2>4. Puts(rows[v].key, bucket[rows[v].key])
      BY <2>1, <2>2, <2>3 DEF KnownInv
    <2>5. PICK w \in begun : FinalKey(w) = rows[v].key /\ bucket[rows[v].key] = Content(w)
      BY <2>4 DEF Puts
    <2>6. PICK u \in begun : FinalKey(u) = FinalKey(v) /\ rows[v].served = Content(u)
      BY <2>1 DEF Puts
    <2>7. FinalKey(w) = FinalKey(v) /\ Content(w) # Content(u)
      BY <2>2, <2>3, <2>5, <2>6
    <2>8. \A x \in begun : x # v /\ FinalKey(x) = FinalKey(v) => x \in Sharing(v)
      BY <2>1, SharedKey
    <2> QED BY <2>6, <2>7, <2>8
  <1> QED BY <1>1, ArtifactsInvariant, PTL

(* BuiltHasObject: the object of a version that is built is there, unless   *)
(* the version is being deleted, was deleted by half, or shares its key.    *)
THEOREM BuiltVersionsHaveObjects == Spec => []BuiltHasObject
  <1>1. ArtifactsInv => BuiltHasObject
    BY DEF ArtifactsInv, HasObject, BuiltHasObject
  <1> QED BY <1>1, ArtifactsInvariant, PTL

(* NoOrphans: an object is named by a row or by the process that stored it, *)
(* unless a failure or a race left it behind.                               *)
THEOREM NothingIsOrphaned == Spec => []NoOrphans
  <1>1. ArtifactsInv => NoOrphans
    BY DEF ArtifactsInv, Named, Names, NoOrphans, Storing
  <1> QED BY <1>1, ArtifactsInvariant, PTL
=============================================================================
