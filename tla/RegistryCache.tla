--------------------------- MODULE RegistryCache ----------------------------
(* The public registry: a JSON document and its MD5, generated from the     *)
(* database and kept in Redis under two keys.  Readers fill the keys when   *)
(* they find them empty.  Those who change the registry commit first, then  *)
(* delete both keys and fill them again, from their own session.           *)
(*                                                                         *)
(* The model follows the entry of one plugin and one setting it is shown    *)
(* with, the enabled providers or the public URL.  A document shows a set  *)
(* of changes: those of the rows it was made of, as a session that still   *)
(* holds the rows read them and changed them, and those of the setting as  *)
(* it was found, which is kept for thirty seconds in a Redis hash of its    *)
(* own.  Some setting is always stored, so that there is a hash to keep;   *)
(* RuntimeConfig has the hash in detail.                                   *)
EXTENDS Naturals

CONSTANTS Procs,      \* requests and workers running at a time
          NoProc,     \* no process
          MaxChanges  \* bound: changes to what the registry shows

ASSUME CacheAssumption == NoProc \notin Procs /\ MaxChanges \in Nat

Contents == SUBSET (1..MaxChanges)

(* An empty key, or rows a session has not read: not a content. *)
NoEntry == {0}

VARIABLES rows,    \* the changes the plugin's rows hold
          config,  \* the changes the configuration holds
          json,    \* registry_json: the changes it shows, or NoEntry
          md5,     \* registry_md5: the changes of the document it was taken of
          hash,    \* runtime_config: the changes it holds, or NoEntry
          mortal,  \* whether the hash has a time to live
          proc,    \* what each process is doing
          alone,   \* history: who has committed and refreshed undisturbed
          oldHash  \* history: the hash was outdated when it committed

keys == <<json, md5>>
settings == <<config, hash, mortal>>
history == <<alone, oldHash>>
vars == <<rows, settings, keys, proc, history>>

(* goal is what generate_registry_json was called for: a reader's answer,   *)
(* the first half of refresh_cache, or get_registry_md5.  purpose is what   *)
(* the configuration is read for: the document, the times to live of the   *)
(* two keys, or something else; found is what the table held.  A session    *)
(* that changes something keeps the rows it has read in view while          *)
(* something else still refers to them, as a build does to its plugin.     *)
Process == [pc : {"idle", "open", "delete", "digest", "lookup", "load", "fill", "sign",
                  "config", "select", "hset", "expire", "clear"},
            goal : {"serve", "refresh", "digest"}, writer : BOOLEAN,
            purpose : {"other", "document", "json", "md5"},
            view : Contents \cup {NoEntry}, doc : Contents, found : Contents]

Idle == [pc |-> "idle", goal |-> "serve", writer |-> FALSE,
         purpose |-> "other", view |-> NoEntry, doc |-> {}, found |-> {}]

TypeOK == /\ rows \in Contents /\ config \in Contents
          /\ json \in Contents \cup {NoEntry}
          /\ md5 \in Contents \cup {NoEntry}
          /\ hash \in Contents \cup {NoEntry}
          /\ mortal \in BOOLEAN
          /\ proc \in [Procs -> Process]
          /\ alone \in Procs \cup {NoProc}
          /\ oldHash \in BOOLEAN

Init == /\ rows = {} /\ config = {}
        /\ json = NoEntry /\ md5 = NoEntry
        /\ hash = NoEntry /\ mortal = FALSE
        /\ proc = [p \in Procs |-> Idle]
        /\ alone = NoProc /\ oldHash = FALSE

-----------------------------------------------------------------------------
At(p, label) == proc[p].pc = label

Disturbed == alone' = NoProc /\ oldHash' = FALSE

(* A step of p leaves no other process undisturbed. *)
Steps(p) == IF alone = p THEN UNCHANGED history ELSE Disturbed

Goes(p, r) == proc' = [proc EXCEPT ![p] = r] /\ Steps(p)

Starts(p, label, goal) ==
    /\ At(p, "idle")
    /\ Goes(p, [Idle EXCEPT !.pc = label, !.goal = goal])
    /\ UNCHANGED <<rows, settings, keys>>

(* GET /plugins, /plugins/{plugin_key} *)
GetRegistry(p) == Starts(p, "lookup", "serve")

(* GET /plugins-md5 *)
GetDigest(p) == Starts(p, "digest", "digest")

(* POST /cache/refresh *)
RefreshByHand(p) == Starts(p, "delete", "refresh")

(* Any request that asks for a setting. *)
ReadConfig(p) == Starts(p, "config", "serve")

(* An administrator's request or a worker's task opens its session. *)
OpenSession(p) ==
    /\ At(p, "idle")
    /\ Goes(p, [Idle EXCEPT !.pc = "open", !.writer = TRUE])
    /\ UNCHANGED <<rows, settings, keys>>

Changes == rows \cup config

NextChange(n) == n \in 1..MaxChanges /\ \A m \in 1..MaxChanges : m < n <=> m \in Changes

Outdated == hash \notin {NoEntry, config}

(* It commits a change; reads says whether the operation had loaded the     *)
(* rows and holds them, as publish_plugin_version may.                      *)
CommitChange(p, n, reads) ==
    /\ At(p, "open") /\ NextChange(n)
    /\ rows' = rows \cup {n}
    /\ LET view == proc[p].view
       IN /\ proc' = [proc EXCEPT ![p].pc = "delete", ![p].goal = "refresh",
                        ![p].view = IF view # NoEntry THEN view \cup {n}
                                    ELSE IF reads THEN rows' ELSE NoEntry]
          /\ IF view = NoEntry /\ \A q \in Procs \ {p} : proc[q].pc \in {"idle", "open"}
             THEN alone' = p /\ oldHash' = Outdated
             ELSE Disturbed
    /\ UNCHANGED <<settings, keys>>

CloseSession(p) ==
    /\ At(p, "open")
    /\ Goes(p, Idle)
    /\ UNCHANGED <<rows, settings, keys>>

(* update_config: the cache of the configuration is cleared after the       *)
(* commit, and the registry is not refreshed at all.                       *)
ChangeConfig(p, n) ==
    /\ At(p, "idle") /\ NextChange(n)
    /\ config' = config \cup {n}
    /\ proc' = [proc EXCEPT ![p].pc = "clear"]
    /\ Disturbed
    /\ UNCHANGED <<rows, hash, mortal, keys>>

ClearConfig(p) ==
    /\ At(p, "clear")
    /\ hash' = NoEntry /\ mortal' = FALSE
    /\ Goes(p, Idle)
    /\ UNCHANGED <<rows, config, keys>>

-----------------------------------------------------------------------------
(* get_runtime_values.                                                     *)

(* Where a process goes that has the configuration: the document is made of *)
(* rows and settings, and the time to live of its key is read next.        *)
Configured(r, value) ==
    CASE r.purpose = "other"    -> Idle
      [] r.purpose = "document" -> [r EXCEPT !.pc = "config", !.purpose = "json",
                                             !.doc = @ \cup value, !.found = {}]
      [] r.purpose = "json"     -> [r EXCEPT !.pc = "fill", !.found = {}]
      [] r.purpose = "md5"      -> [r EXCEPT !.pc = "sign", !.found = {}]

LookupConfig(p) ==
    /\ At(p, "config")
    /\ Goes(p, IF hash # NoEntry THEN Configured(proc[p], hash)
               ELSE [proc[p] EXCEPT !.pc = "select"])
    /\ UNCHANGED <<rows, settings, keys>>

(* No session holds rows of the configuration: they are read anew. *)
SelectConfig(p) ==
    /\ At(p, "select")
    /\ Goes(p, [proc[p] EXCEPT !.pc = "hset", !.found = config])
    /\ UNCHANGED <<rows, settings, keys>>

(* A hash that is there keeps its time to live, a new one has none. *)
SetHash(p) ==
    /\ At(p, "hset")
    /\ hash' = proc[p].found /\ mortal' = (hash # NoEntry /\ mortal)
    /\ Goes(p, [proc[p] EXCEPT !.pc = "expire"])
    /\ UNCHANGED <<rows, config, keys>>

SetExpiry(p) ==
    /\ At(p, "expire")
    /\ mortal' = (hash # NoEntry)
    /\ Goes(p, Configured(proc[p], proc[p].found))
    /\ UNCHANGED <<rows, config, hash, keys>>

-----------------------------------------------------------------------------
(* refresh_cache, generate_registry_json and get_registry_md5.             *)

(* Where a process goes that has the document... *)
Generated(r, doc) ==
    CASE r.goal = "serve"   -> Idle
      [] r.goal = "refresh" -> [r EXCEPT !.pc = "digest", !.goal = "digest", !.doc = {}]
      [] r.goal = "digest"  -> [r EXCEPT !.pc = "config", !.purpose = "md5", !.doc = doc]

(* ... and one that has the digest. *)
Digested(r) == IF r.writer THEN [r EXCEPT !.pc = "open", !.doc = {}] ELSE Idle

(* Variant: the digest is forgotten. *)
DeleteEntries_JsonOnly(p) ==
    /\ At(p, "delete")
    /\ json' = NoEntry
    /\ Goes(p, [proc[p] EXCEPT !.pc = "lookup"])
    /\ UNCHANGED <<rows, settings, md5>>

(* One DEL command for both keys. *)
DeleteEntries(p) ==
    /\ At(p, "delete")
    /\ json' = NoEntry /\ md5' = NoEntry
    /\ Goes(p, [proc[p] EXCEPT !.pc = "lookup"])
    /\ UNCHANGED <<rows, settings>>

LookupJson(p) ==
    /\ At(p, "lookup")
    /\ Goes(p, IF json # NoEntry THEN Generated(proc[p], json) ELSE [proc[p] EXCEPT !.pc = "load"])
    /\ UNCHANGED <<rows, settings, keys>>

(* _fetch_active_plugins: rows the session holds are not read again. *)
LoadPlugins(p, keeps) ==
    /\ At(p, "load")
    /\ keeps => proc[p].writer
    /\ LET doc == IF proc[p].view = NoEntry THEN rows ELSE proc[p].view
       IN Goes(p, [proc[p] EXCEPT !.pc = "config", !.purpose = "document", !.doc = doc,
                                  !.view = IF keeps THEN doc ELSE @])
    /\ UNCHANGED <<rows, settings, keys>>

FillJson(p) ==
    /\ At(p, "fill")
    /\ json' = proc[p].doc
    /\ Goes(p, Generated(proc[p], proc[p].doc))
    /\ UNCHANGED <<rows, settings, md5>>

LookupMd5(p) ==
    /\ At(p, "digest")
    /\ Goes(p, IF md5 # NoEntry THEN Digested(proc[p]) ELSE [proc[p] EXCEPT !.pc = "lookup"])
    /\ UNCHANGED <<rows, settings, keys>>

FillMd5(p) ==
    /\ At(p, "sign")
    /\ md5' = proc[p].doc
    /\ Goes(p, Digested(proc[p]))
    /\ UNCHANGED <<rows, settings, json>>

-----------------------------------------------------------------------------
(* Variant: the entry is stored without an expiry time. *)
ExpireJson_Never == FALSE /\ UNCHANGED vars

(* REDIS_CACHE_TTL, counted for each key from when it was set. *)
ExpireJson ==
    /\ json # NoEntry /\ json' = NoEntry
    /\ UNCHANGED <<rows, settings, md5, proc, history>>

ExpireMd5 ==
    /\ md5 # NoEntry /\ md5' = NoEntry
    /\ UNCHANGED <<rows, settings, json, proc, history>>

(* RUNTIME_CONFIG_CACHE_TTL_SECONDS *)
ExpireHash ==
    /\ mortal /\ hash' = NoEntry /\ mortal' = FALSE
    /\ UNCHANGED <<rows, config, keys, proc, history>>

(* The process stops, or Redis or the database fails it.  Nothing refreshes *)
(* the cache in its stead, clears the hash or limits its life.             *)
Fail(p) ==
    /\ proc[p].pc \notin {"idle", "open"}
    /\ proc' = [proc EXCEPT ![p] = Idle]
    /\ Disturbed
    /\ UNCHANGED <<rows, settings, keys>>

-----------------------------------------------------------------------------
Begins(p) ==
    \/ GetRegistry(p)
    \/ GetDigest(p)
    \/ RefreshByHand(p)
    \/ ReadConfig(p)
    \/ OpenSession(p)
    \/ \E n \in 1..MaxChanges, reads \in BOOLEAN : CommitChange(p, n, reads)
    \/ \E n \in 1..MaxChanges : ChangeConfig(p, n)
    \/ CloseSession(p)

Continues(p) ==
    \/ DeleteEntries(p)
    \/ LookupJson(p)
    \/ \E keeps \in BOOLEAN : LoadPlugins(p, keeps)
    \/ LookupConfig(p)
    \/ SelectConfig(p)
    \/ SetHash(p)
    \/ SetExpiry(p)
    \/ ClearConfig(p)
    \/ FillJson(p)
    \/ LookupMd5(p)
    \/ FillMd5(p)

Next == \/ \E p \in Procs : Begins(p) \/ Continues(p) \/ Fail(p)
        \/ ExpireJson
        \/ ExpireMd5
        \/ ExpireHash

Spec == Init /\ [][Next]_vars

(* A call goes on until it returns, and Redis expires what it was told to. *)
FairSpec == /\ Spec
            /\ \A p \in Procs : WF_vars(Continues(p))
            /\ WF_vars(ExpireJson) /\ WF_vars(ExpireMd5) /\ WF_vars(ExpireHash)

-----------------------------------------------------------------------------
(* Properties.                                                             *)

Shows(entry, changes) == entry = NoEntry \/ changes \subseteq entry

(* A process that commits with no old rows in its session, and refreshes    *)
(* the cache while nobody else runs, leaves no document and no digest       *)
(* behind that misses a change of the rows, whatever was cached before; and *)
(* none that misses one of the configuration, unless the cached            *)
(* configuration was outdated when it committed.                           *)
RefreshedAloneIsFresh ==
    \A p \in Procs : alone = p /\ At(p, "open") =>
        \A entry \in {json, md5} : /\ Shows(entry, rows)
                                   /\ oldHash \/ Shows(entry, config)

(* Once nothing changes any more, the cache shows the rows and keeps doing  *)
(* so: stale documents that late readers, old sessions and failed           *)
(* refreshes left behind do not outlive their TTL and are not copied on.    *)
(* It shows the configuration as well, unless a reader that had to fill the *)
(* hash failed after it had stored outdated values and before it had        *)
(* limited their life: such a hash stays until the next update.  Processes  *)
(* may fail at any time, and as often as they like.                        *)
Converges ==
    /\ <>[](Shows(json, rows) /\ Shows(md5, rows))
    /\ \/ <>[](Shows(json, config) /\ Shows(md5, config))
       \/ <>[](Outdated /\ ~mortal)

(* "Return MD5 of the cached registry JSON": the digest AstrBot compares is *)
(* that of the document it would download.                                 *)
DigestOfCachedRegistry == json # NoEntry /\ md5 # NoEntry => md5 = json
=============================================================================
