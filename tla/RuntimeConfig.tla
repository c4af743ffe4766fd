--------------------------- MODULE RuntimeConfig ----------------------------
(* Settings an administrator changes at run time: rows of system_config,    *)
(* cached as one Redis hash.  Readers fill the hash when they find it       *)
(* empty, with an HSET that adds to what is there and an EXPIRE of its own; *)
(* update_config commits and then deletes it.  An accessor of several keys  *)
(* runs this read path once for each key.                                   *)
(*                                                                          *)
(* A text is a model of the string stored under a key: absent, one that     *)
(* the key's type accepts, or one it does not.                              *)
EXTENDS Naturals, Sequences, SequencesExt

CONSTANTS Procs,      \* requests and worker tasks running at a time
          Accessors,  \* the accessors of runtime_config.py that are called
          MaxUpdates, \* bound: calls of update_config
          MaxFaults   \* bound: processes that stop, or miss Redis, half-way

IntKind  == "int"
BoolKind == "bool"
StrKind  == "str"
ListKind == "list"
ModeKind == "mode"

(* The keys each accessor reads, in order, with the type it casts them to. *)
SettingsAccessors ==
    [public_cache_max_age |-> <<<<"PUBLIC_CACHE_MAX_AGE", IntKind>>>>,
     redis_cache_ttl      |-> <<<<"REDIS_CACHE_TTL", IntKind>>>>,
     upload_limits        |-> <<<<"MAX_UPLOAD_BYTES", IntKind>>, <<"MAX_UNZIP_BYTES", IntKind>>,
                                <<"MAX_ZIP_ENTRIES", IntKind>>, <<"MAX_SINGLE_FILE_BYTES", IntKind>>>>,
     git_clone_timeout     |-> <<<<"GIT_CLONE_TIMEOUT", IntKind>>>>,
     git_preflight_timeout |-> <<<<"GIT_PREFLIGHT_TIMEOUT", IntKind>>>>,
     git_max_repo_size_kb  |-> <<<<"GIT_MAX_REPO_SIZE_KB", IntKind>>>>,
     git_http_proxy        |-> <<<<"GIT_HTTP_PROXY", StrKind>>>>,
     github_token          |-> <<<<"GITHUB_TOKEN", StrKind>>>>,
     git_allowed_hosts     |-> <<<<"GIT_ALLOWED_HOSTS", ListKind>>>>,
     registration_mode    |-> <<<<"USER_REGISTRATION_MODE", ModeKind>>>>,
     scan_defaults        |-> <<<<"SCAN_PASS_WHEN_UNCONFIGURED", BoolKind>>,
                                <<"SCAN_UNCONFIGURED_MESSAGE", StrKind>>>>,
     scan_enabled_providers |-> <<<<"SCAN_ENABLED_PROVIDERS", ListKind>>>>,
     review_policy        |-> <<<<"SCAN_REQUIRE_HUMAN_REVIEW", BoolKind>>,
                                <<"SCAN_AUTO_PUBLISH_ENABLED", BoolKind>>>>]

ServiceAccessors ==
    [virustotal_config |-> <<<<"VIRUSTOTAL_API_KEY", StrKind>>, <<"VIRUSTOTAL_TIMEOUT_SECONDS", IntKind>>,
                             <<"VIRUSTOTAL_POLL_INTERVAL_SECONDS", IntKind>>,
                             <<"VIRUSTOTAL_MAX_POLL_INTERVAL_SECONDS", IntKind>>,
                             <<"VIRUSTOTAL_MAX_POLL_ATTEMPTS", IntKind>>,
                             <<"VIRUSTOTAL_MAX_WAIT_SECONDS", IntKind>>,
                             <<"VIRUSTOTAL_MAX_DIRECT_UPLOAD_BYTES", IntKind>>>>,
     clamav_config     |-> <<<<"CLAMAV_HOST", StrKind>>, <<"CLAMAV_PORT", IntKind>>,
                             <<"CLAMAV_TIMEOUT_SECONDS", IntKind>>,
                             <<"CLAMAV_STREAM_CHUNK_BYTES", IntKind>>,
                             <<"CLAMAV_MAX_STREAM_BYTES", IntKind>>>>,
     llm_agent_config  |-> <<<<"LLM_AGENT_BASE_URL", StrKind>>, <<"LLM_AGENT_MODEL", StrKind>>,
                             <<"LLM_AGENT_API_KEY", StrKind>>, <<"LLM_AGENT_MAX_CONTEXT_CHARS", IntKind>>>>,
     task_max_attempts    |-> <<<<"TASK_MAX_ATTEMPTS", IntKind>>>>,
     task_retry_delay_seconds |-> <<<<"TASK_RETRY_DELAY_SECONDS", IntKind>>>>,
     webhook_secret       |-> <<<<"GITHUB_WEBHOOK_SECRET", StrKind>>>>,
     webhook_auto_version |-> <<<<"WEBHOOK_AUTO_VERSION", StrKind>>>>,
     s3_public_url        |-> <<<<"S3_PUBLIC_URL", StrKind>>>>,
     s3_layout            |-> <<<<"S3_PLUGINS_PREFIX", StrKind>>, <<"S3_UNKNOWN_AUTHOR", StrKind>>>>,
     max_release_zip_bytes |-> <<<<"MAX_RELEASE_ZIP_BYTES", IntKind>>>>]

Reads(a) == IF a \in DOMAIN SettingsAccessors THEN SettingsAccessors[a] ELSE ServiceAccessors[a]

ASSUME ConfigAssumption ==
    /\ Accessors \subseteq DOMAIN SettingsAccessors \cup DOMAIN ServiceAccessors
    /\ MaxUpdates \in Nat
    /\ MaxFaults \in Nat

KeysOf(a) == [i \in DOMAIN Reads(a) |-> Reads(a)[i][1]]

Settings == UNION {ToSet(Reads(a)) : a \in Accessors}
Keys     == {s[1] : s \in Settings}
KindOf   == [k \in Keys |-> (CHOOSE s \in Settings : s[1] = k)[2]]

(* "bad" is a text its reader does not understand.  A string, a list, and a *)
(* bool, for which what is not true is false, take any text.                *)
Unset == "unset"
Texts == {"good", "bad"}
TextsOf(k) == IF KindOf[k] \in {IntKind, ModeKind} THEN {"good", "bad"} ELSE {"good"}

(* The hash, and the table: no row, no field. *)
Configs == [Keys -> Texts \cup {Unset}]
Empty   == [k \in Keys |-> Unset]

VARIABLES db,      \* the rows of system_config
          cached,  \* the hash runtime_config
          expires, \* whether the hash has a time to live
          proc,    \* what each process is doing
          excuse,  \* history: why the hash may be out of date
          updates, \* calls of update_config so far (bound)
          faults   \* faults so far (bound)

vars == <<db, cached, expires, proc, excuse, updates, faults>>

(* todo: the keys still to read, or to save; held: the rows select or       *)
(* db.get returned; want: the request's values, Unset for the empty string  *)
(* and "keep" for a key it does not name; got: what the accessor has so     *)
(* far; quiet is history: nothing has been committed since it began.        *)
Labels == {"idle", "lookup", "select", "hset", "expire", "answer", "load", "commit", "clear"}
Process == [pc : Labels, todo : Seq(Keys), held : Configs,
            want : [Keys -> Texts \cup {Unset, "keep"}],
            got : [Keys -> Texts \cup {Unset, "keep"}], quiet : BOOLEAN]

Nothing == [k \in Keys |-> "keep"]
Idle == [pc |-> "idle", todo |-> <<>>, held |-> Empty, want |-> Nothing, got |-> Nothing,
         quiet |-> FALSE]

TypeOK == /\ db \in Configs
          /\ cached \in Configs
          /\ expires \in BOOLEAN
          /\ \A p \in Procs : proc[p] \in Process
          /\ excuse \subseteq {"late fill", "lost clear"}
          /\ updates \in Nat /\ faults \in Nat

Init == /\ db = Empty
        /\ cached = Empty /\ expires = FALSE
        /\ proc = [p \in Procs |-> Idle]
        /\ excuse = {}
        /\ updates = 0 /\ faults = 0

-----------------------------------------------------------------------------
At(p, label) == proc[p].pc = label
Goes(p, r)   == proc' = [proc EXCEPT ![p] = r]

(* cast_runtime_value: only int() raises.  A mode is one of the three or    *)
(* "disabled"; a bool, a list or a string takes any text.                   *)
Raises(k, text) == KindOf[k] = IntKind /\ text = "bad"

(* get_runtime_value with the values at hand: the accessor goes on to its   *)
(* next key, answers, or ends with the exception.                           *)
Took(r, values) ==
    LET k == Head(r.todo)
    IN IF Raises(k, values[k]) THEN Idle
       ELSE [r EXCEPT !.pc = IF Tail(r.todo) = <<>> THEN "answer" ELSE "lookup",
                      !.todo = Tail(@), !.got[k] = values[k], !.held = Empty]

(* The hash, or rows a fill still holds, or an update not yet cleared, are  *)
(* older than the table.                                                    *)
Outdated == \/ cached \notin {Empty, db}
            \/ \E q \in Procs : At(q, "clear") \/ (At(q, "hset") /\ proc[q].held # db)

Call(p, a) ==
    /\ At(p, "idle")
    /\ Goes(p, [Idle EXCEPT !.pc = "lookup", !.quiet = ~Outdated,
                            !.todo = KeysOf(a)])
    /\ UNCHANGED <<db, cached, expires, excuse, updates, faults>>

(* HGETALL *)
Lookup(p) ==
    /\ At(p, "lookup")
    /\ Goes(p, IF cached # Empty THEN Took(proc[p], cached) ELSE [proc[p] EXCEPT !.pc = "select"])
    /\ UNCHANGED <<db, cached, expires, excuse, updates, faults>>

(* An empty table is not cached. *)
Select(p) ==
    /\ At(p, "select")
    /\ Goes(p, IF db = Empty THEN Took(proc[p], db)
               ELSE [proc[p] EXCEPT !.pc = "hset", !.held = db])
    /\ UNCHANGED <<db, cached, expires, excuse, updates, faults>>

(* Variant: only the key that was asked for is stored. *)
FillHash_OneKey(p) ==
    /\ At(p, "hset")
    /\ LET k == Head(proc[p].todo)
       IN cached' = [cached EXCEPT ![k] = IF proc[p].held[k] = Unset THEN @ ELSE proc[p].held[k]]
    /\ excuse' = IF proc[p].held = db THEN excuse ELSE excuse \cup {"late fill"}
    /\ Goes(p, [proc[p] EXCEPT !.pc = "expire"])
    /\ UNCHANGED <<db, expires, updates, faults>>

(* HSET sets the fields of its mapping and keeps the others, and the time   *)
(* to live the hash has, if any.                                            *)
FillHash(p) ==
    /\ At(p, "hset")
    /\ cached' = [k \in Keys |-> IF proc[p].held[k] = Unset THEN cached[k] ELSE proc[p].held[k]]
    /\ excuse' = IF proc[p].held = db THEN excuse ELSE excuse \cup {"late fill"}
    /\ Goes(p, [proc[p] EXCEPT !.pc = "expire"])
    /\ UNCHANGED <<db, expires, updates, faults>>

(* Variant: the hash is stored and EXPIRE forgotten. *)
SetExpiry_Never(p) ==
    /\ At(p, "expire")
    /\ Goes(p, Took(proc[p], proc[p].held))
    /\ UNCHANGED <<db, cached, expires, excuse, updates, faults>>

(* EXPIRE of a key that is gone does nothing. *)
SetExpiry(p) ==
    /\ At(p, "expire")
    /\ expires' = (cached # Empty)
    /\ Goes(p, Took(proc[p], proc[p].held))
    /\ UNCHANGED <<db, cached, excuse, updates, faults>>

Answer(p) ==
    /\ At(p, "answer")
    /\ Goes(p, Idle)
    /\ UNCHANGED <<db, cached, expires, excuse, updates, faults>>

-----------------------------------------------------------------------------
(* PUT /config *)
UpdateConfig(p, order, want) ==
    /\ At(p, "idle") /\ updates < MaxUpdates
    /\ Goes(p, [Idle EXCEPT !.pc = "load", !.todo = order, !.want = want])
    /\ updates' = updates + 1
    /\ UNCHANGED <<db, cached, expires, excuse, faults>>

(* _normalize_config_value, then db.get: only the registration mode is      *)
(* validated, and an invalid one ends the request before it commits.        *)
LoadItem(p) ==
    /\ At(p, "load")
    /\ LET r == proc[p]
           k == Head(r.todo)
       IN Goes(p, IF KindOf[k] = ModeKind /\ r.want[k] = "bad" THEN Idle
                  ELSE [r EXCEPT !.pc = IF Tail(r.todo) = <<>> THEN "commit" ELSE "load",
                                 !.todo = Tail(@), !.held[k] = db[k]])
    /\ UNCHANGED <<db, cached, expires, excuse, updates, faults>>

(* What the session has to write: an attribute set to the value it had is   *)
(* no change.                                                               *)
Dirty(r) == {k \in Keys : r.want[k] # "keep" /\ r.want[k] # r.held[k]}

(* INSERT of a row that has appeared, UPDATE of one that has gone. *)
Conflict(r) == \E k \in Dirty(r) : r.want[k] # Unset /\ (r.held[k] = Unset) # (db[k] = Unset)

Saved(r) == [k \in Keys |-> IF k \in Dirty(r) THEN r.want[k] ELSE db[k]]

(* The others' requests are no longer undisturbed. *)
Disturb(p, r) == proc' = [q \in Procs |-> IF q = p THEN r ELSE [proc[q] EXCEPT !.quiet = FALSE]]

Commit(p) ==
    /\ At(p, "commit")
    /\ IF Conflict(proc[p]) THEN Goes(p, Idle) /\ UNCHANGED db
       ELSE /\ db' = Saved(proc[p])
            /\ Disturb(p, [Idle EXCEPT !.pc = "clear"])
    /\ UNCHANGED <<cached, expires, excuse, updates, faults>>

(* Variant: the hash is left for its time to live to remove. *)
ClearCache_Nothing(p) ==
    /\ At(p, "clear")
    /\ Goes(p, Idle)
    /\ UNCHANGED <<db, cached, expires, excuse, updates, faults>>

(* clear_runtime_config_cache; the response is read from the table. *)
ClearCache(p) ==
    /\ At(p, "clear")
    /\ cached' = Empty /\ expires' = FALSE /\ excuse' = {}
    /\ Goes(p, Idle)
    /\ UNCHANGED <<db, updates, faults>>

-----------------------------------------------------------------------------
ExpireHash ==
    /\ expires
    /\ cached' = Empty /\ expires' = FALSE /\ excuse' = {}
    /\ UNCHANGED <<db, proc, updates, faults>>

(* A process stops, or its Redis client fails or was never connected: then  *)
(* nobody clears the hash, or gives it a time to live, in its stead.        *)
Stop(p) ==
    /\ ~At(p, "idle")
    /\ faults < MaxFaults /\ faults' = faults + 1
    /\ excuse' = IF At(p, "clear") THEN excuse \cup {"lost clear"} ELSE excuse
    /\ Goes(p, Idle)
    /\ UNCHANGED <<db, cached, expires, updates>>

-----------------------------------------------------------------------------
Continues(p) ==
    \/ Lookup(p) \/ Select(p) \/ FillHash(p) \/ SetExpiry(p) \/ Answer(p)
    \/ LoadItem(p) \/ Commit(p) \/ ClearCache(p)

(* Bound: a request names one key, or the keys of an accessor, in an order. *)
Requests == {<<k>> : k \in Keys} \cup {KeysOf(a) : a \in Accessors}
                                 \cup {Reverse(KeysOf(a)) : a \in Accessors}
Values(order) == {w \in [Keys -> Texts \cup {Unset, "keep"}] :
                    \A k \in Keys : w[k] \in IF k \in ToSet(order) THEN TextsOf(k) \cup {Unset}
                                           ELSE {"keep"}}

Next == \/ \E p \in Procs : \/ \E a \in Accessors : Call(p, a)
                            \/ \E order \in Requests : \E w \in Values(order) :
                                   UpdateConfig(p, order, w)
                            \/ Continues(p)
                            \/ Stop(p)
        \/ ExpireHash

Spec == Init /\ [][Next]_vars

(* A request goes on until it returns, and Redis expires what it was told   *)
(* to.                                                                      *)
FairSpec == /\ Spec
            /\ \A p \in Procs : WF_vars(Continues(p))
            /\ WF_vars(ExpireHash)

-----------------------------------------------------------------------------
(* Properties.                                                              *)

(* The hash differs from the table only while an update has committed and   *)
(* not yet cleared it, or after a reader stored rows it had loaded before   *)
(* an update, or after a clear that never came.                             *)
StaleHasCause ==
    cached \notin {Empty, db} => excuse # {} \/ \E p \in Procs : At(p, "clear")

(* A hash without a time to live is one that a reader is about to give one, *)
(* unless a process stopped.                                                *)
ExpiryIsComing ==
    cached # Empty /\ ~expires /\ faults = 0 => \E p \in Procs : At(p, "expire")

(* An accessor that starts when nothing out of date is stored or about to   *)
(* be, and during which nothing is committed, returns the table: the keys   *)
(* it reads one by one belong together.                                     *)
QuietReadIsCurrent ==
    \A p \in Procs : proc[p].quiet =>
        \A k \in Keys : proc[p].got[k] \in {"keep", db[k]}

(* When no process stops half-way, every update is in the end what readers  *)
(* see: late fills do not outlive their time to live and are not copied on. *)
UpdatesTakeEffect == [](faults = 0) => <>[](cached \in {Empty, db})
=============================================================================
