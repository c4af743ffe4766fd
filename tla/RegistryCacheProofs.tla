------------------------ MODULE RegistryCacheProofs -------------------------
(* Proofs about RegistryCache: the keys and the processes are well formed,  *)
(* and a refresh nobody disturbs leaves nothing outdated behind.           *)
EXTENDS RegistryCache, TLAPS

(* A content that shows what the database holds, as far as an undisturbed   *)
(* process can know it: the configuration counts unless it is cached, and   *)
(* was outdated when the process committed.                                *)
Fresh(content) == rows \subseteq content /\ (oldHash \/ config \subseteq content)

FreshKeys == /\ json # NoEntry => Fresh(json)
             /\ md5 # NoEntry => Fresh(md5)

FreshHash == oldHash \/ hash \in {NoEntry, config}

(* A process waits for the configuration, and has a finished document.      *)
Fetches(r) == r.pc \in {"config", "select", "hset", "expire"}
Carries(r) == \/ r.pc \in {"fill", "sign"}
              \/ Fetches(r) /\ r.purpose \in {"json", "md5"}

(* Whatever the process may still put into a key is fresh. *)
FreshProcess(r) ==
    /\ r.view \in {NoEntry, rows}
    /\ r.pc \in {"hset", "expire"} => r.found = config
    /\ Fetches(r) /\ r.purpose = "document" => rows \subseteq r.doc
    /\ Carries(r) => Fresh(r.doc)

FreshFor(p) == /\ FreshProcess(proc[p])
               /\ FreshHash
               /\ proc[p].pc # "delete" => FreshKeys

CacheInv == TypeOK /\ \A p \in Procs : alone = p => FreshFor(p)

-----------------------------------------------------------------------------
(* Records of processes.                                                   *)

(* A process that is at rest is well formed and reads nothing. *)
LEMMA IdleIsProcess ==
    /\ Idle \in Process /\ Idle.pc = "idle"
    /\ Idle.view = NoEntry /\ Idle.purpose = "other"
  BY DEF Idle, Process, Contents

LEMMA IdleIsFresh == FreshProcess(Idle)
  BY IdleIsProcess DEF FreshProcess, Fetches, Carries

(* What get_runtime_values returns to: with a fresh value, a document that  *)
(* has the rows becomes a fresh one, and a finished one stays as it is.    *)
LEMMA ConfiguredProcess ==
    ASSUME NEW r \in Process, NEW value \in Contents
    PROVE  /\ Configured(r, value) \in Process
           /\ Configured(r, value).pc # "delete"
           /\ FreshProcess(r) /\ Fetches(r) /\ (oldHash \/ value = config)
                => FreshProcess(Configured(r, value))
  <1>1. CASE r.purpose = "other"
    BY <1>1, IdleIsProcess, IdleIsFresh DEF Configured
  <1>2. CASE r.purpose = "document"
    <2> DEFINE q == [r EXCEPT !.pc = "config", !.purpose = "json", !.doc = @ \cup value, !.found = {}]
    <2>1. /\ q \in Process /\ q.pc = "config" /\ q.purpose = "json"
          /\ q.doc = r.doc \cup value /\ q.view = r.view
      BY DEF Process, Contents
    <2>2. Configured(r, value) = q
      BY <1>2 DEF Configured
    <2> HIDE DEF q
    <2>3. FreshProcess(r) /\ Fetches(r) /\ (oldHash \/ value = config) => FreshProcess(q)
      BY <1>2, <2>1 DEF FreshProcess, Fetches, Carries, Fresh
    <2> QED BY <2>1, <2>2, <2>3
  <1>3. ASSUME NEW purpose \in {"json", "md5"}, NEW label \in {"fill", "sign"}, r.purpose = purpose,
               Configured(r, value) = [r EXCEPT !.pc = label, !.found = {}]
        PROVE  /\ Configured(r, value) \in Process
               /\ Configured(r, value).pc # "delete"
               /\ FreshProcess(r) /\ Fetches(r) => FreshProcess(Configured(r, value))
    <2> DEFINE q == [r EXCEPT !.pc = label, !.found = {}]
    <2>1. q \in Process /\ q.pc = label /\ q.doc = r.doc /\ q.view = r.view
      BY DEF Process, Contents
    <2> HIDE DEF q
    <2>2. FreshProcess(r) /\ Fetches(r) => FreshProcess(q)
      BY <1>3, <2>1 DEF FreshProcess, Fetches, Carries
    <2>3. Configured(r, value) = q
      BY <1>3 DEF q
    <2> QED BY <2>1, <2>2, <2>3
  <1>4. CASE r.purpose = "json"
    BY <1>3, <1>4 DEF Configured
  <1>5. CASE r.purpose = "md5"
    BY <1>3, <1>5 DEF Configured
  <1> QED BY <1>1, <1>2, <1>4, <1>5 DEF Process

(* What generate_registry_json returns to: a fresh document is signed. *)
LEMMA GeneratedProcess ==
    ASSUME NEW r \in Process, NEW doc \in Contents
    PROVE  /\ Generated(r, doc) \in Process
           /\ Generated(r, doc).pc # "delete"
           /\ FreshProcess(r) /\ Fresh(doc) => FreshProcess(Generated(r, doc))
  <1>1. CASE r.goal = "serve"
    BY <1>1, IdleIsProcess, IdleIsFresh DEF Generated
  <1>2. CASE r.goal = "refresh"
    <2> DEFINE q == [r EXCEPT !.pc = "digest", !.goal = "digest", !.doc = {}]
    <2>1. q \in Process /\ q.view = r.view /\ q.pc = "digest"
      BY DEF Process, Contents
    <2>2. Generated(r, doc) = q
      BY <1>2 DEF Generated
    <2> HIDE DEF q
    <2> QED BY <2>1, <2>2 DEF FreshProcess, Fetches, Carries
  <1>3. CASE r.goal = "digest"
    <2> DEFINE q == [r EXCEPT !.pc = "config", !.purpose = "md5", !.doc = doc]
    <2>1. /\ q \in Process /\ q.view = r.view /\ q.pc = "config"
          /\ q.purpose = "md5" /\ q.doc = doc
      BY DEF Process
    <2>2. Generated(r, doc) = q
      BY <1>3 DEF Generated
    <2> HIDE DEF q
    <2> QED BY <2>1, <2>2 DEF FreshProcess, Fetches, Carries
  <1> QED BY <1>1, <1>2, <1>3 DEF Process

(* What get_registry_md5 returns to: the writer's session, or the end. *)
LEMMA DigestedProcess ==
    ASSUME NEW r \in Process
    PROVE  /\ Digested(r) \in Process
           /\ Digested(r).pc # "delete"
           /\ FreshProcess(r) => FreshProcess(Digested(r))
  <1>1. CASE r.writer
    <2> DEFINE q == [r EXCEPT !.pc = "open", !.doc = {}]
    <2>1. q \in Process /\ q.view = r.view /\ q.pc = "open"
      BY DEF Process, Contents
    <2>2. Digested(r) = q
      BY <1>1 DEF Digested
    <2> HIDE DEF q
    <2> QED BY <2>1, <2>2 DEF FreshProcess, Fetches, Carries
  <1>2. CASE ~r.writer
    BY <1>2, IdleIsProcess, IdleIsFresh DEF Digested
  <1> QED BY <1>1, <1>2

(* A process goes from one call to the next with all it has. *)
LEMMA MovedProcess ==
    ASSUME NEW r \in Process, NEW label \in {"lookup", "load", "select", "expire"}
    PROVE  LET q == [r EXCEPT !.pc = label]
           IN /\ q \in Process /\ q.pc = label
              /\ label \in {"lookup", "load"} /\ FreshProcess(r) => FreshProcess(q)
              /\ label = "select" /\ r.pc = "config" /\ FreshProcess(r) => FreshProcess(q)
              /\ label = "expire" /\ r.pc = "hset" /\ FreshProcess(r) => FreshProcess(q)
  <1> DEFINE q == [r EXCEPT !.pc = label]
  <1>1. /\ q \in Process /\ q.pc = label /\ q.view = r.view
        /\ q.purpose = r.purpose /\ q.doc = r.doc /\ q.found = r.found
    BY DEF Process
  <1> HIDE DEF q
  <1>2. /\ label \in {"lookup", "load"} /\ FreshProcess(r) => FreshProcess(q)
        /\ label = "select" /\ r.pc = "config" /\ FreshProcess(r) => FreshProcess(q)
        /\ label = "expire" /\ r.pc = "hset" /\ FreshProcess(r) => FreshProcess(q)
    BY <1>1 DEF FreshProcess, Fetches, Carries
  <1> QED BY <1>1, <1>2 DEF q

-----------------------------------------------------------------------------
(* Steps.                                                                  *)

(* A step of p leaves the state well formed and, if p was undisturbed, it   *)
(* still is and what it can put into a key is still fresh.                 *)
Kept(p) == /\ TypeOK'
           /\ \A q \in Procs : alone' = q => q = p /\ (alone = p /\ FreshFor(p) => FreshFor(p)')

(* It is enough to look at p's new record, at the keys and at the hash. *)
LEMMA GoesKeeps ==
    ASSUME TypeOK, NEW p \in Procs, NEW r \in Process, Goes(p, r), UNCHANGED <<rows, config>>,
           json' \in Contents \cup {NoEntry}, md5' \in Contents \cup {NoEntry},
           hash' \in Contents \cup {NoEntry}, mortal' \in BOOLEAN,
           FreshFor(p) => /\ FreshProcess(r)
                          /\ oldHash \/ hash' \in {NoEntry, config}
                          /\ r.pc # "delete" => /\ json' # NoEntry => Fresh(json')
                                                /\ md5' # NoEntry => Fresh(md5')
    PROVE  Kept(p) /\ (alone' = p => alone = p)
  <1>1. p # NoProc
    BY CacheAssumption
  <1>2. proc' \in [Procs -> Process] /\ proc'[p] = r
    BY DEF Goes, TypeOK
  <1>3. alone' \in Procs \cup {NoProc} /\ oldHash' \in BOOLEAN
    BY DEF Goes, Steps, Disturbed, history, TypeOK
  <1>4. TypeOK'
    BY <1>2, <1>3 DEF TypeOK
  <1>5. ASSUME NEW q \in Procs, alone' = q PROVE q = p /\ alone = p /\ oldHash' = oldHash
    BY <1>5, CacheAssumption DEF Goes, Steps, Disturbed, history
  <1>6. ASSUME FreshFor(p), alone' = p PROVE FreshFor(p)'
    <2>1. oldHash' = oldHash
      BY <1>5, <1>6
    <2>2. FreshProcess(proc[p])'
      BY <1>2, <1>6, <2>1 DEF FreshProcess, Fetches, Carries, Fresh
    <2>3. FreshHash' /\ (proc'[p].pc # "delete" => FreshKeys')
      BY <1>2, <1>6, <2>1 DEF FreshHash, FreshKeys, Fresh
    <2> QED BY <2>2, <2>3 DEF FreshFor
  <1> QED BY <1>4, <1>5, <1>6 DEF Kept

(* The requests that begin, and the session that ends. *)
LEMMA BeginKeeps ==
    ASSUME TypeOK, NEW p \in Procs,
           \/ GetRegistry(p) \/ GetDigest(p) \/ RefreshByHand(p) \/ ReadConfig(p)
           \/ OpenSession(p) \/ CloseSession(p)
    PROVE  Kept(p) /\ (alone' = p => alone = p)
  <1>1. ASSUME NEW r \in Process, Goes(p, r), UNCHANGED <<rows, settings, keys>>,
               proc[p].pc # "delete", FreshProcess(r)
        PROVE  Kept(p) /\ (alone' = p => alone = p)
    BY <1>1, GoesKeeps DEF FreshFor, FreshKeys, FreshHash, settings, keys, TypeOK
  <1>2. ASSUME NEW label \in {"lookup", "digest", "delete", "config"},
               NEW goal \in {"serve", "digest", "refresh"}, Starts(p, label, goal)
        PROVE  Kept(p) /\ (alone' = p => alone = p)
    <2> DEFINE r == [Idle EXCEPT !.pc = label, !.goal = goal]
    <2>1. r \in Process /\ r.pc = label /\ r.view = NoEntry /\ r.purpose = "other"
      BY IdleIsProcess DEF Process
    <2>2. Goes(p, r) /\ proc[p].pc = "idle" /\ UNCHANGED <<rows, settings, keys>>
      BY <1>2 DEF Starts, At
    <2> HIDE DEF r
    <2>3. FreshProcess(r)
      BY <2>1 DEF FreshProcess, Fetches, Carries
    <2> QED BY <1>1, <2>1, <2>2, <2>3
  <1>3. ASSUME OpenSession(p) PROVE Kept(p) /\ (alone' = p => alone = p)
    <2> DEFINE r == [Idle EXCEPT !.pc = "open", !.writer = TRUE]
    <2>1. r \in Process /\ r.pc = "open" /\ r.view = NoEntry
      BY IdleIsProcess DEF Process
    <2>2. Goes(p, r) /\ proc[p].pc = "idle" /\ UNCHANGED <<rows, settings, keys>>
      BY <1>3 DEF OpenSession, At
    <2> HIDE DEF r
    <2>3. FreshProcess(r)
      BY <2>1 DEF FreshProcess, Fetches, Carries
    <2> QED BY <1>1, <2>1, <2>2, <2>3
  <1>4. ASSUME CloseSession(p) PROVE Kept(p) /\ (alone' = p => alone = p)
    BY <1>1, <1>4, IdleIsProcess, IdleIsFresh DEF CloseSession, At
  <1> QED BY <1>2, <1>3, <1>4 DEF GetRegistry, GetDigest, RefreshByHand, ReadConfig

(* A commit: the rows have one more change, the process is about to delete  *)
(* the keys, and when nobody disturbs it its session shows the rows.        *)
LEMMA CommitKeeps ==
    ASSUME TypeOK, NEW p \in Procs, NEW n \in 1..MaxChanges, NEW reads \in BOOLEAN,
           CommitChange(p, n, reads)
    PROVE  TypeOK' /\ \A q \in Procs : alone' = q => q = p /\ FreshFor(p)'
  <1> DEFINE v == IF proc[p].view # NoEntry THEN proc[p].view \cup {n}
                  ELSE IF reads THEN rows' ELSE NoEntry
             r == [proc[p] EXCEPT !.pc = "delete", !.goal = "refresh", !.view = v]
  <1>1. rows' \in Contents /\ UNCHANGED <<settings, keys>>
    BY DEF CommitChange, TypeOK, Contents
  <1>2. v \in Contents \cup {NoEntry}
    <2>1. proc[p].view \in Contents \cup {NoEntry}
      BY DEF TypeOK, Process
    <2> QED BY <1>1, <2>1 DEF Contents
  <1>3. r \in Process /\ r.view = v /\ r.pc = "delete"
    <2> HIDE DEF v
    <2> QED BY <1>2 DEF TypeOK, Process
  <1>4. proc' = [proc EXCEPT ![p] = r]
    BY DEF CommitChange
  <1>5. /\ alone' \in Procs \cup {NoProc} /\ oldHash' \in BOOLEAN
        /\ \A q \in Procs : alone' = q => q = p /\ proc[p].view = NoEntry /\ oldHash' = Outdated
    BY CacheAssumption DEF CommitChange, Disturbed, Outdated
  <1>6. proc' \in [Procs -> Process] /\ proc'[p] = r
    <2> HIDE DEF r
    <2> QED BY <1>3, <1>4 DEF TypeOK
  <1>7. TypeOK'
    <2> HIDE DEF r, v
    <2> QED BY <1>1, <1>5, <1>6 DEF TypeOK, settings, keys
  <1>8. ASSUME alone' = p PROVE FreshFor(p)'
    <2>1. v \in {NoEntry, rows'} /\ oldHash' = Outdated
      BY <1>5, <1>8
    <2> HIDE DEF r, v
    <2>2. FreshProcess(proc[p])'
      BY <1>3, <1>6, <2>1 DEF FreshProcess, Fetches, Carries
    <2>3. FreshHash'
      BY <1>1, <2>1 DEF FreshHash, Outdated, settings
    <2> QED BY <1>3, <1>6, <2>2, <2>3 DEF FreshFor
  <1> QED BY <1>5, <1>7, <1>8

(* A change of the configuration leaves nobody undisturbed. *)
LEMMA ConfigEffect ==
    ASSUME TypeOK, NEW p \in Procs, NEW n \in 1..MaxChanges, ChangeConfig(p, n)
    PROVE  TypeOK' /\ alone' = NoProc
  <1> DEFINE r == [proc[p] EXCEPT !.pc = "clear"]
  <1>1. config' \in Contents
    BY DEF ChangeConfig, TypeOK, Contents
  <1>2. r \in Process
    BY DEF TypeOK, Process
  <1>3. proc' \in [Procs -> Process]
    BY <1>2 DEF ChangeConfig, TypeOK
  <1> QED BY <1>1, <1>3 DEF ChangeConfig, Disturbed, TypeOK, keys

(* The calls to Redis and to the database that a process makes on its way. *)
LEMMA ContinueKeeps ==
    ASSUME TypeOK, NEW p \in Procs, Continues(p)
    PROVE  Kept(p) /\ (alone' = p => alone = p)
  <1> DEFINE r == proc[p]
             Goal == Kept(p) /\ (alone' = p => alone = p)
  <1>1. r \in Process /\ r.doc \in Contents /\ r.found \in Contents
    BY DEF TypeOK, Process
  <1>2. ASSUME NEW q \in Process, Goes(p, q), UNCHANGED <<rows, settings, keys>>,
               r.pc # "delete", FreshFor(p) => FreshProcess(q)
        PROVE  Goal
    BY <1>2, GoesKeeps DEF FreshFor, FreshKeys, FreshHash, settings, keys, TypeOK
  <1>3. FreshFor(p) => FreshProcess(r)
    BY DEF FreshFor
  <1>4. CASE DeleteEntries(p)
    <2> DEFINE q == [r EXCEPT !.pc = "lookup"]
    <2>1. q \in Process /\ (FreshFor(p) => FreshProcess(q))
      BY <1>1, <1>3, MovedProcess
    <2>2. Goes(p, q) /\ json' = NoEntry /\ md5' = NoEntry /\ UNCHANGED <<rows, settings>>
      BY <1>4 DEF DeleteEntries
    <2> HIDE DEF q
    <2> QED BY <2>1, <2>2, GoesKeeps DEF settings, FreshFor, FreshHash, TypeOK
  <1>5. CASE LookupJson(p)
    <2> DEFINE q == IF json # NoEntry THEN Generated(r, json) ELSE [r EXCEPT !.pc = "load"]
    <2>1. Goes(p, q) /\ r.pc = "lookup" /\ UNCHANGED <<rows, settings, keys>>
      BY <1>5 DEF LookupJson, At
    <2>2. CASE json # NoEntry
      <3>1. q = Generated(r, json) /\ json \in Contents
        BY <2>2 DEF TypeOK
      <3>2. FreshFor(p) => Fresh(json)
        BY <2>1, <2>2 DEF FreshFor, FreshKeys
      <3>3. q \in Process /\ (FreshFor(p) => FreshProcess(q))
        BY <1>1, <1>3, <3>1, <3>2, GeneratedProcess
      <3> HIDE DEF q
      <3> QED BY <1>2, <2>1, <3>3
    <2>3. CASE json = NoEntry
      <3>1. q = [r EXCEPT !.pc = "load"]
        BY <2>3
      <3>2. q \in Process /\ (FreshFor(p) => FreshProcess(q))
        BY <1>1, <1>3, <3>1, MovedProcess
      <3> HIDE DEF q
      <3> QED BY <1>2, <2>1, <3>2
    <2> QED BY <2>2, <2>3
  <1>6. ASSUME NEW keeps \in BOOLEAN, LoadPlugins(p, keeps) PROVE Goal
    <2> DEFINE d == IF r.view = NoEntry THEN rows ELSE r.view
               v == IF keeps THEN d ELSE r.view
               q == [r EXCEPT !.pc = "config", !.purpose = "document", !.doc = d, !.view = v]
    <2>1. Goes(p, q) /\ r.pc = "load" /\ UNCHANGED <<rows, settings, keys>>
      BY <1>6 DEF LoadPlugins, At
    <2>2. d \in Contents /\ v \in Contents \cup {NoEntry}
      BY DEF TypeOK, Process
    <2>3. FreshFor(p) => d = rows /\ v \in {NoEntry, rows}
      BY <1>3 DEF FreshProcess
    <2>4. /\ q \in Process /\ q.pc = "config" /\ q.purpose = "document"
          /\ q.doc = d /\ q.view = v
      <3> HIDE DEF d, v
      <3> QED BY <1>1, <2>2 DEF Process
    <2>5. FreshFor(p) => FreshProcess(q)
      <3> HIDE DEF d, v, q
      <3> QED BY <2>3, <2>4 DEF FreshProcess, Fetches, Carries
    <2> HIDE DEF q
    <2> QED BY <1>2, <2>1, <2>4, <2>5
  <1>7. CASE LookupConfig(p)
    <2> DEFINE q == IF hash # NoEntry THEN Configured(r, hash) ELSE [r EXCEPT !.pc = "select"]
    <2>1. Goes(p, q) /\ r.pc = "config" /\ UNCHANGED <<rows, settings, keys>>
      BY <1>7 DEF LookupConfig, At
    <2>2. CASE hash # NoEntry
      <3>1. q = Configured(r, hash) /\ hash \in Contents
        BY <2>2 DEF TypeOK
      <3>2. FreshFor(p) => oldHash \/ hash = config
        BY <2>2 DEF FreshFor, FreshHash
      <3>3. q \in Process /\ (FreshFor(p) => FreshProcess(q))
        BY <1>1, <1>3, <2>1, <3>1, <3>2, ConfiguredProcess DEF Fetches
      <3> HIDE DEF q
      <3> QED BY <1>2, <2>1, <3>3
    <2>3. CASE hash = NoEntry
      <3>1. q = [r EXCEPT !.pc = "select"]
        BY <2>3
      <3>2. q \in Process /\ (FreshFor(p) => FreshProcess(q))
        BY <1>1, <1>3, <2>1, <3>1, MovedProcess
      <3> HIDE DEF q
      <3> QED BY <1>2, <2>1, <3>2
    <2> QED BY <2>2, <2>3
  <1>8. CASE SelectConfig(p)
    <2> DEFINE q == [r EXCEPT !.pc = "hset", !.found = config]
    <2>1. Goes(p, q) /\ r.pc = "select" /\ UNCHANGED <<rows, settings, keys>>
      BY <1>8 DEF SelectConfig, At
    <2>2. /\ q \in Process /\ q.pc = "hset" /\ q.found = config
          /\ q.view = r.view /\ q.purpose = r.purpose /\ q.doc = r.doc
      BY <1>1 DEF Process, TypeOK
    <2> HIDE DEF q
    <2>3. FreshFor(p) => FreshProcess(q)
      BY <1>3, <2>1, <2>2 DEF FreshProcess, Fetches, Carries
    <2> QED BY <1>2, <2>1, <2>2, <2>3
  <1>9. CASE SetHash(p)
    <2> DEFINE q == [r EXCEPT !.pc = "expire"]
    <2>1. /\ Goes(p, q) /\ r.pc = "hset" /\ UNCHANGED <<rows, config, keys>>
          /\ hash' = r.found /\ mortal' \in BOOLEAN
      BY <1>9 DEF SetHash, At, TypeOK
    <2>2. q \in Process /\ (FreshFor(p) => FreshProcess(q))
      BY <1>1, <1>3, <2>1, MovedProcess
    <2>3. FreshFor(p) => r.found = config
      BY <1>3, <2>1 DEF FreshProcess
    <2> HIDE DEF q
    <2>4. FreshFor(p) => FreshKeys
      BY <2>1 DEF FreshFor
    <2>5. /\ json' = json /\ md5' = md5 /\ hash' \in Contents
          /\ json \in Contents \cup {NoEntry} /\ md5 \in Contents \cup {NoEntry}
      BY <1>1, <2>1 DEF keys, TypeOK
    <2> QED BY <2>1, <2>2, <2>3, <2>4, <2>5, GoesKeeps DEF FreshKeys
  <1>10. CASE SetExpiry(p)
    <2> DEFINE q == Configured(r, r.found)
    <2>1. /\ Goes(p, q) /\ r.pc = "expire" /\ UNCHANGED <<rows, config, hash, keys>>
          /\ mortal' \in BOOLEAN
      BY <1>10 DEF SetExpiry, At
    <2>2. q \in Process /\ (FreshFor(p) => FreshProcess(q))
      BY <1>1, <1>3, <2>1, ConfiguredProcess DEF Fetches, FreshProcess
    <2> HIDE DEF q
    <2> QED BY <2>1, <2>2, GoesKeeps DEF FreshFor, FreshKeys, FreshHash, keys, TypeOK
  <1>11. CASE ClearConfig(p)
    BY <1>11, GoesKeeps, IdleIsProcess, IdleIsFresh
       DEF ClearConfig, At, FreshFor, FreshKeys, keys, TypeOK
  <1>12. CASE FillJson(p)
    <2> DEFINE q == Generated(r, r.doc)
    <2>1. /\ Goes(p, q) /\ r.pc = "fill" /\ json' = r.doc
          /\ UNCHANGED <<rows, settings, md5>>
      BY <1>12 DEF FillJson, At
    <2>2. FreshFor(p) => Fresh(r.doc)
      <3>1. Carries(r)
        BY <2>1 DEF Carries
      <3> QED BY <1>3, <3>1 DEF FreshProcess
    <2>3. q \in Process /\ (FreshFor(p) => FreshProcess(q))
      BY <1>1, <1>3, <2>2, GeneratedProcess
    <2> HIDE DEF q
    <2> QED BY <1>1, <2>1, <2>2, <2>3, GoesKeeps DEF FreshFor, FreshKeys, FreshHash, settings, TypeOK
  <1>13. CASE LookupMd5(p)
    <2> DEFINE q == IF md5 # NoEntry THEN Digested(r) ELSE [r EXCEPT !.pc = "lookup"]
    <2>1. Goes(p, q) /\ r.pc = "digest" /\ UNCHANGED <<rows, settings, keys>>
      BY <1>13 DEF LookupMd5, At
    <2>2. q \in {Digested(r), [r EXCEPT !.pc = "lookup"]}
      OBVIOUS
    <2>3. q \in Process /\ (FreshFor(p) => FreshProcess(q))
      <3> HIDE DEF q
      <3> QED BY <1>1, <1>3, <2>2, MovedProcess, DigestedProcess
    <2> HIDE DEF q
    <2> QED BY <1>2, <2>1, <2>3
  <1>14. CASE FillMd5(p)
    <2> DEFINE q == Digested(r)
    <2>1. /\ Goes(p, q) /\ r.pc = "sign" /\ md5' = r.doc
          /\ UNCHANGED <<rows, settings, json>>
      BY <1>14 DEF FillMd5, At
    <2>2. FreshFor(p) => Fresh(r.doc)
      <3>1. Carries(r)
        BY <2>1 DEF Carries
      <3> QED BY <1>3, <3>1 DEF FreshProcess
    <2>3. q \in Process /\ (FreshFor(p) => FreshProcess(q))
      BY <1>1, <1>3, DigestedProcess
    <2> HIDE DEF q
    <2> QED BY <1>1, <2>1, <2>2, <2>3, GoesKeeps DEF FreshFor, FreshKeys, FreshHash, settings, TypeOK
  <1> QED BY <1>4, <1>5, <1>6, <1>7, <1>8, <1>9, <1>10, <1>11, <1>12, <1>13, <1>14 DEF Continues

(* Every step leads from one well-formed state to the next, and what an     *)
(* undisturbed process can still put into a key stays fresh.                *)
LEMMA StepKeeps ==
    ASSUME TypeOK, [Next]_vars, \A p \in Procs : alone = p => FreshFor(p)
    PROVE  TypeOK' /\ \A p \in Procs : alone' = p => FreshFor(p)'
  <1> DEFINE Goal == TypeOK' /\ \A p \in Procs : alone' = p => FreshFor(p)'
  <1>1. ASSUME NEW p \in Procs, Kept(p), alone' = p => alone = p PROVE Goal
    BY <1>1 DEF Kept
  <1>2. ASSUME TypeOK', alone' = NoProc PROVE Goal
    BY <1>2, CacheAssumption
  <1>3. ASSUME NEW p \in Procs, Begins(p) PROVE Goal
    <2>1. ASSUME NEW n \in 1..MaxChanges, NEW reads \in BOOLEAN, CommitChange(p, n, reads)
          PROVE  Goal
      BY <2>1, CommitKeeps
    <2>2. ASSUME NEW n \in 1..MaxChanges, ChangeConfig(p, n) PROVE Goal
      BY <1>2, <2>2, ConfigEffect
    <2>3. CASE \/ GetRegistry(p) \/ GetDigest(p) \/ RefreshByHand(p) \/ ReadConfig(p)
               \/ OpenSession(p) \/ CloseSession(p)
      BY <1>1, <2>3, BeginKeeps
    <2> QED BY <1>3, <2>1, <2>2, <2>3 DEF Begins
  <1>4. ASSUME NEW p \in Procs, Continues(p) PROVE Goal
    BY <1>1, <1>4, ContinueKeeps
  <1>5. ASSUME NEW p \in Procs, Fail(p) PROVE Goal
    <2>1. TypeOK' /\ alone' = NoProc
      BY <1>5, IdleIsProcess DEF Fail, Disturbed, TypeOK, settings, keys
    <2> QED BY <1>2, <2>1
  <1>6. ASSUME UNCHANGED <<rows, config, proc, history>>, json' \in {json, NoEntry},
               md5' \in {md5, NoEntry}, \/ UNCHANGED <<hash, mortal>>
                                        \/ hash' = NoEntry /\ mortal' = FALSE
        PROVE  Goal
    <2>1. TypeOK'
      BY <1>6 DEF TypeOK, history
    <2>2. ASSUME NEW p \in Procs, alone' = p PROVE FreshFor(p)'
      <3>1. FreshFor(p)
        BY <1>6, <2>2 DEF history
      <3>2. FreshProcess(proc[p])'
        BY <1>6, <3>1 DEF FreshFor, FreshProcess, Fetches, Carries, Fresh, history
      <3>3. FreshHash' /\ (proc'[p].pc # "delete" => FreshKeys')
        BY <1>6, <3>1 DEF FreshFor, FreshHash, FreshKeys, Fresh, history
      <3> QED BY <3>2, <3>3 DEF FreshFor
    <2> QED BY <2>1, <2>2
  <1>7. CASE ExpireJson
    BY <1>6, <1>7 DEF ExpireJson, settings
  <1>8. CASE ExpireMd5
    BY <1>6, <1>8 DEF ExpireMd5, settings
  <1>9. CASE ExpireHash
    BY <1>6, <1>9 DEF ExpireHash, keys
  <1>10. CASE UNCHANGED vars
    BY <1>6, <1>10 DEF vars, settings, keys
  <1> QED BY <1>3, <1>4, <1>5, <1>7, <1>8, <1>9, <1>10 DEF Next

-----------------------------------------------------------------------------
(* The theorems.                                                           *)

(* The invariant holds before anything ran and after every step. *)
LEMMA CacheInvariant == Spec => []CacheInv
  <1>1. Init => CacheInv
    BY IdleIsProcess, CacheAssumption DEF Init, CacheInv, TypeOK, Contents
  <1>2. CacheInv /\ [Next]_vars => CacheInv'
    BY StepKeeps DEF CacheInv
  <1> QED BY <1>1, <1>2, PTL DEF Spec

(* A key is empty or holds the changes of a real document, a document is    *)
(* never taken of an empty key, and every process is well formed.           *)
THEOREM TypeCorrect == Spec => []TypeOK
  <1>1. CacheInv => TypeOK
    BY DEF CacheInv
  <1> QED BY <1>1, CacheInvariant, PTL

(* However many processes read and change the registry and its             *)
(* configuration, one that commits with no old rows in its session and      *)
(* refreshes the cache undisturbed leaves neither a document nor a digest   *)
(* behind that misses a change of the rows, or one of the configuration     *)
(* unless the cached configuration was outdated when it committed.         *)
THEOREM UndisturbedRefreshIsFresh == Spec => []RefreshedAloneIsFresh
  <1>1. CacheInv => RefreshedAloneIsFresh
    BY DEF CacheInv, FreshFor, FreshKeys, Fresh, RefreshedAloneIsFresh, Shows, At
  <1> QED BY <1>1, CacheInvariant, PTL
=============================================================================
