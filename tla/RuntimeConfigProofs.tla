------------------------ MODULE RuntimeConfigProofs -------------------------
(* Proofs about RuntimeConfig: why the hash can differ from the table, that *)
(* it gets a time to live, and that an undisturbed accessor returns what    *)
(* the table has, for any accessors and any number of processes.            *)
EXTENDS RuntimeConfig, TLAPS

(* Who reads or loads still has a key to read or load. *)
Ready(r) == r.pc \in {"lookup", "select", "hset", "expire", "load"} => r.todo # <<>>

WellFormed == TypeOK /\ proc \in [Procs -> Process] /\ \A p \in Procs : Ready(proc[p])

(* As long as somebody reads undisturbed, nothing is out of date: the rows  *)
(* such a reader stored are those of the table, and so is what it has read. *)
Undisturbed(p) == proc[p].quiet =>
                     /\ ~Outdated
                     /\ At(p, "expire") => proc[p].held = db
                     /\ \A k \in Keys : proc[p].got[k] \in {"keep", db[k]}

ConfigInv == /\ WellFormed /\ StaleHasCause /\ ExpiryIsComing
             /\ \A p \in Procs : Undisturbed(p)
-----------------------------------------------------------------------------
(* Accessors and requests.                                                  *)

(* Every accessor reads one key at least, one after the other. *)
LEMMA ReadsAreSequences ==
    ASSUME NEW a \in DOMAIN SettingsAccessors \cup DOMAIN ServiceAccessors
    PROVE  \E n \in Nat \ {0} : DOMAIN Reads(a) = 1..n
  <1>1. ASSUME a \in DOMAIN SettingsAccessors
        PROVE  \E n \in Nat \ {0} : DOMAIN SettingsAccessors[a] = 1..n
    <2>1. a \in {"public_cache_max_age", "redis_cache_ttl", "upload_limits",
              "git_clone_timeout", "git_preflight_timeout", "git_max_repo_size_kb",
              "git_http_proxy", "github_token", "git_allowed_hosts", "registration_mode",
              "scan_defaults", "scan_enabled_providers", "review_policy"}
      BY <1>1 DEF SettingsAccessors
    <2>2. CASE a \in {"public_cache_max_age", "redis_cache_ttl", "git_clone_timeout",
                    "git_preflight_timeout", "git_max_repo_size_kb", "git_http_proxy",
                    "github_token", "git_allowed_hosts", "registration_mode",
                    "scan_enabled_providers"}
      <3>1. DOMAIN SettingsAccessors[a] = 1..1
        BY <2>2 DEF SettingsAccessors
      <3> QED BY <3>1
    <2>3. CASE a \in {"scan_defaults", "review_policy"}
      <3>1. DOMAIN SettingsAccessors[a] = 1..2
        BY <2>3 DEF SettingsAccessors
      <3> QED BY <3>1
    <2>4. CASE a \in {"upload_limits"}
      <3>1. DOMAIN SettingsAccessors[a] = 1..4
        BY <2>4 DEF SettingsAccessors
      <3> QED BY <3>1
    <2> QED BY <2>1, <2>2, <2>3, <2>4
  <1>2. ASSUME a \in DOMAIN ServiceAccessors
        PROVE  \E n \in Nat \ {0} : DOMAIN ServiceAccessors[a] = 1..n
    <2>1. a \in {"virustotal_config", "clamav_config", "llm_agent_config",
              "task_max_attempts", "task_retry_delay_seconds", "webhook_secret",
              "webhook_auto_version", "s3_public_url", "s3_layout",
              "max_release_zip_bytes"}
      BY <1>2 DEF ServiceAccessors
    <2>2. CASE a \in {"task_max_attempts", "task_retry_delay_seconds", "webhook_secret",
                    "webhook_auto_version", "s3_public_url", "max_release_zip_bytes"}
      <3>1. DOMAIN ServiceAccessors[a] = 1..1
        BY <2>2 DEF ServiceAccessors
      <3> QED BY <3>1
    <2>3. CASE a \in {"s3_layout"}
      <3>1. DOMAIN ServiceAccessors[a] = 1..2
        BY <2>3 DEF ServiceAccessors
      <3> QED BY <3>1
    <2>4. CASE a \in {"llm_agent_config"}
      <3>1. DOMAIN ServiceAccessors[a] = 1..4
        BY <2>4 DEF ServiceAccessors
      <3> QED BY <3>1
    <2>5. CASE a \in {"clamav_config"}
      <3>1. DOMAIN ServiceAccessors[a] = 1..5
        BY <2>5 DEF ServiceAccessors
      <3> QED BY <3>1
    <2>6. CASE a \in {"virustotal_config"}
      <3>1. DOMAIN ServiceAccessors[a] = 1..7
        BY <2>6 DEF ServiceAccessors
      <3> QED BY <3>1
    <2> QED BY <2>1, <2>2, <2>3, <2>4, <2>5, <2>6
  <1> QED BY <1>1, <1>2 DEF Reads
(* Whatever is read or saved is a sequence of keys that is not empty. *)
LEMMA OrdersAreSequences ==
    /\ \A a \in Accessors : KeysOf(a) \in Seq(Keys) /\ KeysOf(a) # <<>>
    /\ \A order \in Requests : order \in Seq(Keys) /\ order # <<>>
  <1>1. ASSUME NEW a \in Accessors
        PROVE  /\ KeysOf(a) \in Seq(Keys) /\ KeysOf(a) # <<>>
               /\ Reverse(KeysOf(a)) \in Seq(Keys) /\ Reverse(KeysOf(a)) # <<>>
    <2> DEFINE s == KeysOf(a)
    <2>1. PICK n \in Nat \ {0} : DOMAIN Reads(a) = 1..n
      BY ReadsAreSequences, ConfigAssumption
    <2>2. \A i \in 1..n : Reads(a)[i][1] \in Keys
      <3>1. ASSUME NEW i \in 1..n PROVE Reads(a)[i] \in Settings
        <4>1. Reads(a)[i] \in ToSet(Reads(a))
          BY <2>1 DEF ToSet
        <4> QED BY <4>1 DEF Settings
      <3> HIDE DEF Settings
      <3> QED BY <3>1 DEF Keys
    <2>3. s = [i \in 1..n |-> Reads(a)[i][1]]
      BY <2>1 DEF KeysOf
    <2> HIDE DEF s
    <2>4. s \in Seq(Keys) /\ Len(s) = n
      BY <2>2, <2>3
    <2>5. Reverse(s) \in Seq(Keys) /\ Len(Reverse(s)) = n
      BY <2>4 DEF Reverse
    <2>6. s # <<>> /\ Reverse(s) # <<>>
      BY <2>4, <2>5
    <2> QED BY <2>4, <2>5, <2>6 DEF s
  <1>2. ASSUME NEW k \in Keys PROVE <<k>> \in Seq(Keys) /\ <<k>> # <<>>
    OBVIOUS
  <1> QED BY <1>1, <1>2 DEF Requests
-----------------------------------------------------------------------------
(* What the steps do.                                                       *)

(* One assignment changes one process. *)
LEMMA GoesTo ==
    ASSUME WellFormed, NEW p \in Procs, NEW r \in Process, Ready(r), Goes(p, r)
    PROVE  /\ proc' \in [Procs -> Process] /\ proc'[p] = r
           /\ \A q \in Procs : proc'[q] = IF q = p THEN r ELSE proc[q]
           /\ \A q \in Procs : Ready(proc[q])'
  <1>1. proc' = [proc EXCEPT ![p] = r] /\ proc \in [Procs -> Process]
    BY DEF WellFormed, Goes
  <1>2. /\ proc' \in [Procs -> Process] /\ proc'[p] = r
        /\ \A q \in Procs : proc'[q] = IF q = p THEN r ELSE proc[q]
    BY <1>1
  <1>3. ASSUME NEW q \in Procs PROVE Ready(proc'[q])
    BY <1>2 DEF WellFormed
  <1> QED BY <1>2, <1>3 DEF Ready

(* A process that rests holds nothing. *)
LEMMA AtRest == /\ Idle \in Process /\ Ready(Idle) /\ Idle.pc = "idle" /\ Idle.quiet = FALSE
                /\ Idle.got = Nothing /\ Empty \in Configs
                /\ Nothing \in [Keys -> Texts \cup {Unset, "keep"}]
  BY DEF Idle, Process, Labels, Ready, Empty, Configs, Nothing, Texts

(* A value is taken from what is at hand: the reader goes on with the next  *)
(* key, answers, or ends.                                                   *)
LEMMA TookEffect ==
    ASSUME NEW r \in Process, r.todo # <<>>, NEW values \in Configs
    PROVE  LET t == Took(r, values)
           IN /\ t \in Process /\ Ready(t) /\ t.pc \in {"idle", "lookup", "answer"}
              /\ \/ t.quiet = FALSE
                 \/ /\ t.quiet = r.quiet
                    /\ \A k \in Keys : t.got[k] \in {r.got[k], values[k]}
  <1> DEFINE k == Head(r.todo)
             pc == IF Tail(r.todo) = <<>> THEN "answer" ELSE "lookup"
             todo == Tail(r.todo)
             got == [r.got EXCEPT ![k] = values[k]]
             t == [r EXCEPT !.pc = pc, !.todo = todo, !.got = got, !.held = Empty]
  <1>1. CASE Raises(k, values[k])
    <2>1. Took(r, values) = Idle
      BY <1>1 DEF Took
    <2> QED BY <2>1, AtRest
  <1>2. CASE ~Raises(k, values[k])
    <2>1. Took(r, values) = t
      BY <1>2 DEF Took
    <2>2. /\ r.todo \in Seq(Keys) /\ r.got \in [Keys -> Texts \cup {Unset, "keep"}]
      BY DEF Process
    <2>3. k \in Keys /\ todo \in Seq(Keys)
      BY <2>2
    <2>4. values[k] \in Texts \cup {Unset}
      BY <2>3 DEF Configs
    <2>5. /\ got \in [Keys -> Texts \cup {Unset, "keep"}]
          /\ \A key \in Keys : got[key] \in {r.got[key], values[key]}
      <3> HIDE DEF k
      <3> QED BY <2>2, <2>3, <2>4
    <2>6. pc \in {"answer", "lookup"} /\ (pc = "lookup" => todo # <<>>)
      OBVIOUS
    <2> HIDE DEF k, pc, todo, got
    <2>7. t \in Process /\ t.pc = pc /\ t.todo = todo /\ t.got = got /\ t.quiet = r.quiet
      BY <2>3, <2>5, <2>6, AtRest DEF Process, Labels
    <2> HIDE DEF t
    <2>8. Ready(t)
      BY <2>6, <2>7 DEF Ready
    <2> QED BY <2>1, <2>5, <2>6, <2>7, <2>8
  <1> QED BY <1>1, <1>2
OnlyProc(p) == /\ proc' \in [Procs -> Process] /\ \A q \in Procs \ {p} : proc'[q] = proc[q]
               /\ \A q \in Procs : Ready(proc[q])'

(* A reader ends, or has read one key more in the values given. *)
HasRead(p, values) ==
    /\ proc'[p].pc \in {"idle", "lookup", "answer"}
    /\ \/ proc'[p].quiet = FALSE
       \/ /\ proc'[p].quiet = proc[p].quiet
          /\ \A k \in Keys : proc'[p].got[k] \in {proc[p].got[k], values[k]}

(* A process goes on with what it has. *)
GoesOn(p, pc) == /\ proc'[p].pc = pc /\ proc'[p].quiet = proc[p].quiet
                 /\ proc'[p].got = proc[p].got

(* Types of the processes and of what they share. *)
LEMMA FieldsOf ==
    ASSUME WellFormed, NEW p \in Procs
    PROVE  /\ proc[p] \in Process /\ Ready(proc[p])
           /\ proc[p].held \in Configs /\ proc[p].quiet \in BOOLEAN
           /\ proc[p].got \in [Keys -> Texts \cup {Unset, "keep"}]
           /\ db \in Configs /\ cached \in Configs
  BY DEF WellFormed, TypeOK, Process

(* One assignment moves one process. *)
LEMMA MovesOne ==
    ASSUME WellFormed, NEW p \in Procs, NEW r \in Process, Ready(r), Goes(p, r)
    PROVE  OnlyProc(p) /\ proc'[p] = r
  BY GoesTo DEF OnlyProc

(* An accessor starts to read, undisturbed if nothing is out of date. *)
LEMMA CallEffect ==
    ASSUME WellFormed, NEW p \in Procs, NEW a \in Accessors, Call(p, a)
    PROVE  /\ OnlyProc(p) /\ At(p, "idle") /\ proc'[p].pc = "lookup" /\ proc'[p].got = Nothing
           /\ proc'[p].quiet = ~Outdated
           /\ UNCHANGED <<db, cached, expires, excuse, updates, faults>>
  <1> DEFINE quiet == ~Outdated
             todo == KeysOf(a)
             r == [Idle EXCEPT !.pc = "lookup", !.quiet = quiet, !.todo = todo]
  <1>1. todo \in Seq(Keys) /\ todo # <<>>
    BY OrdersAreSequences
  <1>2. quiet \in BOOLEAN
    BY DEF Outdated
  <1>3. Goes(p, r)
    BY DEF Call
  <1> HIDE DEF quiet, todo
  <1>4. /\ r \in Process /\ r.pc = "lookup" /\ r.todo = todo /\ r.quiet = quiet /\ r.got = Nothing
    BY <1>1, <1>2, AtRest DEF Process, Labels
  <1> HIDE DEF r
  <1>5. OnlyProc(p) /\ proc'[p] = r
    BY <1>1, <1>3, <1>4, MovesOne DEF Ready
  <1> QED BY <1>4, <1>5 DEF Call, quiet

(* The hash answers, or the table is asked. *)
LEMMA LookupEffect ==
    ASSUME WellFormed, NEW p \in Procs, Lookup(p)
    PROVE  /\ OnlyProc(p) /\ At(p, "lookup")
           /\ \/ cached # Empty /\ HasRead(p, cached)
              \/ GoesOn(p, "select")
           /\ UNCHANGED <<db, cached, expires, excuse, updates, faults>>
  <1> DEFINE r == [proc[p] EXCEPT !.pc = "select"]
             t == Took(proc[p], cached)
  <1>1. /\ proc[p] \in Process /\ proc[p].todo # <<>> /\ cached \in Configs
        /\ proc[p].pc = "lookup"
    BY FieldsOf DEF Lookup, At, Ready
  <1>2. /\ r \in Process /\ r.pc = "select" /\ r.todo = proc[p].todo
        /\ r.quiet = proc[p].quiet /\ r.got = proc[p].got
    BY <1>1 DEF Process, Labels
  <1>3. (cached # Empty /\ Goes(p, t)) \/ Goes(p, r)
    BY DEF Lookup
  <1>4. /\ t \in Process /\ Ready(t) /\ t.pc \in {"idle", "lookup", "answer"}
        /\ \/ t.quiet = FALSE
           \/ /\ t.quiet = proc[p].quiet
              /\ \A k \in Keys : t.got[k] \in {proc[p].got[k], cached[k]}
    BY <1>1, TookEffect
  <1> HIDE DEF r, t
  <1>5. Ready(r)
    BY <1>1, <1>2 DEF Ready
  <1>6. CASE cached # Empty /\ Goes(p, t)
    <2>1. OnlyProc(p) /\ proc'[p] = t
      BY <1>4, <1>6, MovesOne
    <2> QED BY <1>4, <1>6, <2>1 DEF HasRead, Lookup
  <1>7. CASE Goes(p, r)
    <2>1. OnlyProc(p) /\ proc'[p] = r
      BY <1>2, <1>5, <1>7, MovesOne
    <2> QED BY <1>2, <2>1 DEF GoesOn, Lookup
  <1> QED BY <1>3, <1>6, <1>7

(* The table is read, and its rows are kept to fill the hash. *)
LEMMA SelectEffect ==
    ASSUME WellFormed, NEW p \in Procs, Select(p)
    PROVE  /\ OnlyProc(p) /\ At(p, "select")
           /\ \/ HasRead(p, db)
              \/ GoesOn(p, "hset") /\ proc'[p].held = db
           /\ UNCHANGED <<db, cached, expires, excuse, updates, faults>>
  <1> DEFINE r == [proc[p] EXCEPT !.pc = "hset", !.held = db]
             t == Took(proc[p], db)
  <1>1. /\ proc[p] \in Process /\ proc[p].todo # <<>> /\ db \in Configs
        /\ proc[p].pc = "select"
    BY FieldsOf DEF Select, At, Ready
  <1>2. /\ r \in Process /\ r.pc = "hset" /\ r.todo = proc[p].todo /\ r.held = db
        /\ r.quiet = proc[p].quiet /\ r.got = proc[p].got
    BY <1>1 DEF Process, Labels
  <1>3. Goes(p, t) \/ Goes(p, r)
    BY DEF Select
  <1>4. /\ t \in Process /\ Ready(t) /\ t.pc \in {"idle", "lookup", "answer"}
        /\ \/ t.quiet = FALSE
           \/ /\ t.quiet = proc[p].quiet
              /\ \A k \in Keys : t.got[k] \in {proc[p].got[k], db[k]}
    BY <1>1, TookEffect
  <1> HIDE DEF r, t
  <1>5. Ready(r)
    BY <1>1, <1>2 DEF Ready
  <1>6. CASE Goes(p, t)
    <2>1. OnlyProc(p) /\ proc'[p] = t
      BY <1>4, <1>6, MovesOne
    <2> QED BY <1>4, <2>1 DEF HasRead, Select
  <1>7. CASE Goes(p, r)
    <2>1. OnlyProc(p) /\ proc'[p] = r
      BY <1>2, <1>5, <1>7, MovesOne
    <2> QED BY <1>2, <2>1 DEF GoesOn, Select
  <1> QED BY <1>3, <1>6, <1>7
(* The hash is filled from the rows that are kept. *)
LEMMA FillEffect ==
    ASSUME WellFormed, NEW p \in Procs, FillHash(p)
    PROVE  /\ OnlyProc(p) /\ At(p, "hset") /\ GoesOn(p, "expire")
           /\ proc'[p].held = proc[p].held
           /\ cached' \in Configs /\ excuse' \subseteq {"late fill", "lost clear"}
           /\ excuse \subseteq excuse'
           /\ proc[p].held # db => excuse' # {}
           /\ proc[p].held = db => (cached \in {Empty, db} => cached' = db)
           /\ UNCHANGED <<db, expires, updates, faults>>
  <1> DEFINE r == [proc[p] EXCEPT !.pc = "expire"]
  <1>1. /\ proc[p] \in Process /\ proc[p].todo # <<>> /\ db \in Configs /\ cached \in Configs
        /\ proc[p].held \in Configs /\ proc[p].pc = "hset" /\ Goes(p, r)
    BY FieldsOf DEF FillHash, At, Ready
  <1>2. /\ r \in Process /\ r.pc = "expire" /\ r.todo = proc[p].todo /\ r.held = proc[p].held
        /\ r.quiet = proc[p].quiet /\ r.got = proc[p].got
    BY <1>1 DEF Process, Labels
  <1> HIDE DEF r
  <1>3. OnlyProc(p) /\ proc'[p] = r
    BY <1>1, <1>2, MovesOne DEF Ready
  <1>4. cached' = [k \in Keys |-> IF proc[p].held[k] = Unset THEN cached[k] ELSE proc[p].held[k]]
    BY DEF FillHash
  <1>5. cached' \in Configs
    BY <1>1, <1>4 DEF Configs
  <1>6. ASSUME proc[p].held = db, cached \in {Empty, db} PROVE cached' = db
    <2>1. \A k \in Keys : db[k] = Unset => cached[k] = Unset
      BY <1>6 DEF Empty
    <2>2. \A k \in Keys : cached'[k] = db[k]
      BY <1>4, <1>6, <2>1
    <2> QED BY <1>1, <1>5, <2>2 DEF Configs
  <1>7. /\ excuse' \subseteq {"late fill", "lost clear"} /\ excuse \subseteq excuse'
        /\ proc[p].held # db => excuse' # {}
    BY DEF FillHash, WellFormed, TypeOK
  <1> QED BY <1>1, <1>2, <1>3, <1>5, <1>6, <1>7 DEF FillHash, GoesOn, At

(* The hash gets its time to live, and the rows that are kept answer. *)
LEMMA ExpiryEffect ==
    ASSUME WellFormed, NEW p \in Procs, SetExpiry(p)
    PROVE  /\ OnlyProc(p) /\ At(p, "expire") /\ HasRead(p, proc[p].held)
           /\ expires' = (cached # Empty)
           /\ UNCHANGED <<db, cached, excuse, updates, faults>>
  <1> DEFINE t == Took(proc[p], proc[p].held)
  <1>1. /\ proc[p] \in Process /\ proc[p].todo # <<>> /\ proc[p].held \in Configs
        /\ proc[p].pc = "expire" /\ Goes(p, t)
    BY FieldsOf DEF SetExpiry, At, Ready
  <1>2. /\ t \in Process /\ Ready(t) /\ t.pc \in {"idle", "lookup", "answer"}
        /\ \/ t.quiet = FALSE
           \/ /\ t.quiet = proc[p].quiet
              /\ \A k \in Keys : t.got[k] \in {proc[p].got[k], proc[p].held[k]}
    BY <1>1, TookEffect
  <1> HIDE DEF t
  <1>3. OnlyProc(p) /\ proc'[p] = t
    BY <1>1, <1>2, MovesOne
  <1> QED BY <1>2, <1>3 DEF HasRead, SetExpiry

(* A process that ends is at rest. *)
LEMMA EndsAtRest ==
    ASSUME WellFormed, NEW p \in Procs, Goes(p, Idle)
    PROVE  OnlyProc(p) /\ proc'[p].pc = "idle" /\ proc'[p].quiet = FALSE
  BY AtRest, MovesOne

(* An update starts with the keys of the request. *)
LEMMA UpdateEffect ==
    ASSUME WellFormed, NEW p \in Procs, NEW order \in Requests, NEW w \in Values(order),
           UpdateConfig(p, order, w)
    PROVE  /\ OnlyProc(p) /\ At(p, "idle") /\ proc'[p].pc = "load" /\ proc'[p].quiet = FALSE
           /\ updates' = updates + 1
           /\ UNCHANGED <<db, cached, expires, excuse, faults>>
  <1> DEFINE r == [Idle EXCEPT !.pc = "load", !.todo = order, !.want = w]
  <1>1. order \in Seq(Keys) /\ order # <<>>
    BY OrdersAreSequences
  <1>2. w \in [Keys -> Texts \cup {Unset, "keep"}]
    BY DEF Values
  <1>3. r \in Process /\ r.pc = "load" /\ r.todo = order /\ r.quiet = FALSE
    BY <1>1, <1>2, AtRest DEF Process, Labels
  <1>4. Goes(p, r)
    BY DEF UpdateConfig
  <1> HIDE DEF r
  <1>5. OnlyProc(p) /\ proc'[p] = r
    BY <1>1, <1>3, <1>4, MovesOne DEF Ready
  <1> QED BY <1>3, <1>5 DEF UpdateConfig

(* A key of the request is loaded, or refused with the request. *)
LEMMA LoadEffect ==
    ASSUME WellFormed, NEW p \in Procs, LoadItem(p)
    PROVE  /\ OnlyProc(p) /\ At(p, "load")
           /\ \/ proc'[p].pc = "idle" /\ proc'[p].quiet = FALSE
              \/ GoesOn(p, "load") \/ GoesOn(p, "commit")
           /\ UNCHANGED <<db, cached, expires, excuse, updates, faults>>
  <1> DEFINE k == Head(proc[p].todo)
             pc == IF Tail(proc[p].todo) = <<>> THEN "commit" ELSE "load"
             todo == Tail(proc[p].todo)
             held == [proc[p].held EXCEPT ![k] = db[k]]
             r == [proc[p] EXCEPT !.pc = pc, !.todo = todo, !.held = held]
  <1>1. /\ proc[p] \in Process /\ proc[p].todo # <<>> /\ db \in Configs
        /\ proc[p].held \in Configs /\ proc[p].pc = "load" /\ proc[p].todo \in Seq(Keys)
    BY FieldsOf DEF LoadItem, At, Ready, Process
  <1>2. k \in Keys /\ todo \in Seq(Keys)
    BY <1>1
  <1>3. held \in Configs
    <2> HIDE DEF k
    <2> QED BY <1>1, <1>2 DEF Configs
  <1>4. pc \in {"load", "commit"} /\ (pc = "load" => todo # <<>>)
    OBVIOUS
  <1>5. Goes(p, Idle) \/ Goes(p, r)
    BY DEF LoadItem
  <1> HIDE DEF k, pc, todo, held
  <1>6. /\ r \in Process /\ r.pc = pc /\ r.todo = todo
        /\ r.quiet = proc[p].quiet /\ r.got = proc[p].got
    BY <1>1, <1>2, <1>3, <1>4 DEF Process, Labels
  <1> HIDE DEF r
  <1>7. CASE Goes(p, r)
    <2>1. OnlyProc(p) /\ proc'[p] = r
      BY <1>4, <1>6, <1>7, MovesOne DEF Ready
    <2> QED BY <1>4, <1>6, <2>1 DEF GoesOn, LoadItem
  <1>8. CASE Goes(p, Idle)
    BY <1>8, EndsAtRest DEF LoadItem
  <1> QED BY <1>5, <1>7, <1>8

(* An update commits, which disturbs everybody, or fails on a conflict. *)
LEMMA CommitEffect ==
    ASSUME WellFormed, NEW p \in Procs, Commit(p)
    PROVE  /\ At(p, "commit")
           /\ \/ /\ OnlyProc(p) /\ proc'[p].pc = "idle" /\ proc'[p].quiet = FALSE
                 /\ db' = db
              \/ /\ proc' \in [Procs -> Process] /\ \A q \in Procs : Ready(proc[q])'
                 /\ proc'[p].pc = "clear" /\ db' \in Configs
                 /\ \A q \in Procs : proc'[q].quiet = FALSE
                 /\ \A q \in Procs \ {p} : proc'[q].pc = proc[q].pc
           /\ UNCHANGED <<cached, expires, excuse, updates, faults>>
  <1>1. At(p, "commit") /\ UNCHANGED <<cached, expires, excuse, updates, faults>>
    BY DEF Commit
  <1>2. CASE Conflict(proc[p])
    BY <1>1, <1>2, EndsAtRest DEF Commit
  <1>3. CASE ~Conflict(proc[p])
    <2> DEFINE r == [Idle EXCEPT !.pc = "clear"]
               q(s) == [proc[s] EXCEPT !.quiet = FALSE]
    <2>1. proc' = [s \in Procs |-> IF s = p THEN r ELSE q(s)] /\ db' = Saved(proc[p])
      BY <1>3 DEF Commit, Disturb
    <2>2. r \in Process /\ r.pc = "clear" /\ r.quiet = FALSE
      BY AtRest DEF Process, Labels
    <2>3. ASSUME NEW s \in Procs
          PROVE  /\ q(s) \in Process /\ q(s).pc = proc[s].pc /\ q(s).quiet = FALSE
                 /\ q(s).todo = proc[s].todo
      BY FieldsOf DEF Process
    <2> HIDE DEF q, r
    <2>4. /\ proc' \in [Procs -> Process] /\ proc'[p] = r
          /\ \A s \in Procs \ {p} : proc'[s] = q(s)
      BY <2>1, <2>2, <2>3
    <2>5. ASSUME NEW s \in Procs PROVE Ready(proc'[s])
      BY <2>2, <2>3, <2>4, FieldsOf DEF Ready
    <2>6. db' \in Configs
      <3>1. /\ proc[p].want \in [Keys -> Texts \cup {Unset, "keep"}] /\ db \in Configs
        BY FieldsOf DEF Process
      <3>2. \A k \in Dirty(proc[p]) : proc[p].want[k] # "keep"
        BY DEF Dirty
      <3> QED BY <2>1, <3>1, <3>2 DEF Saved, Configs
    <2> QED BY <1>1, <2>2, <2>3, <2>4, <2>5, <2>6 DEF Ready
  <1> QED BY <1>2, <1>3
(* A process that stops before it has cleared the hash is remembered. *)
LEMMA StopEffect ==
    ASSUME WellFormed, NEW p \in Procs, Stop(p)
    PROVE  /\ OnlyProc(p) /\ proc'[p].pc = "idle" /\ proc'[p].quiet = FALSE
           /\ faults' = faults + 1
           /\ excuse \subseteq excuse' /\ excuse' \subseteq {"late fill", "lost clear"}
           /\ At(p, "clear") => excuse' # {}
           /\ UNCHANGED <<db, cached, expires, updates>>
  BY EndsAtRest DEF Stop, WellFormed, TypeOK

(* A hash that is cleared, or that expires, leaves no excuse. *)
LEMMA ClearEffect ==
    ASSUME WellFormed
    PROVE  /\ \A p \in Procs : ClearCache(p) =>
                 /\ OnlyProc(p) /\ proc'[p].pc = "idle" /\ proc'[p].quiet = FALSE
                 /\ cached' = Empty /\ expires' = FALSE /\ excuse' = {}
                 /\ UNCHANGED <<db, updates, faults>>
           /\ \A p \in Procs : Answer(p) =>
                 /\ OnlyProc(p) /\ At(p, "answer") /\ proc'[p].pc = "idle" /\ proc'[p].quiet = FALSE
                 /\ UNCHANGED <<db, cached, expires, excuse, updates, faults>>
           /\ ExpireHash => /\ cached' = Empty /\ expires' = FALSE /\ excuse' = {}
                            /\ UNCHANGED <<db, proc, updates, faults>>
  BY EndsAtRest DEF ClearCache, Answer, ExpireHash

(* The steps of one process. *)
Step(p) == \/ \E a \in Accessors : Call(p, a)
           \/ \E order \in Requests : \E w \in Values(order) : UpdateConfig(p, order, w)
           \/ Lookup(p) \/ Select(p) \/ FillHash(p) \/ SetExpiry(p) \/ Answer(p)
           \/ LoadItem(p) \/ Commit(p) \/ ClearCache(p)
           \/ Stop(p)

(* Every step is one of a process, or the expiry of the hash. *)
LEMMA Steps == Next <=> (\E p \in Procs : Step(p)) \/ ExpireHash
  BY DEF Next, Step, Continues
-----------------------------------------------------------------------------
(* The invariant.                                                           *)

(* No step takes the state out of its types, and who goes on has a key.     *)
LEMMA TypeInductive == WellFormed /\ [Next]_vars => WellFormed'
  <1> SUFFICES ASSUME WellFormed, [Next]_vars PROVE WellFormed'
    OBVIOUS
  <1>1. /\ db \in Configs /\ cached \in Configs /\ expires \in BOOLEAN
        /\ excuse \subseteq {"late fill", "lost clear"} /\ updates \in Nat /\ faults \in Nat
        /\ proc \in [Procs -> Process] /\ \A q \in Procs : Ready(proc[q])
        /\ Empty \in Configs
    BY AtRest DEF WellFormed, TypeOK
  <1> DEFINE Tame == /\ db' \in Configs /\ cached' \in Configs /\ expires' \in BOOLEAN
                     /\ excuse' \subseteq {"late fill", "lost clear"}
                     /\ updates' \in Nat /\ faults' \in Nat
             Formed == proc' \in [Procs -> Process] /\ \A q \in Procs : Ready(proc[q])'
  <1>2. ASSUME NEW p \in Procs, Step(p) PROVE Tame /\ Formed
    <2>1. ASSUME NEW a \in Accessors, Call(p, a) PROVE Tame /\ Formed
      BY <1>1, <2>1, CallEffect DEF OnlyProc
    <2>2. ASSUME NEW order \in Requests, NEW w \in Values(order), UpdateConfig(p, order, w)
          PROVE  Tame /\ Formed
      <3>1. /\ OnlyProc(p) /\ updates' = updates + 1
            /\ UNCHANGED <<db, cached, expires, excuse, faults>>
        BY <2>2, UpdateEffect
      <3>2. updates' \in Nat
        <4>1. updates \in Nat /\ updates' = updates + 1
          BY <1>1, <3>1
        <4> QED BY <4>1
      <3> QED BY <1>1, <3>1, <3>2 DEF OnlyProc
    <2>3. ASSUME Lookup(p) \/ Select(p) \/ LoadItem(p) \/ Answer(p) PROVE Tame /\ Formed
      BY <1>1, <2>3, LookupEffect, SelectEffect, LoadEffect, ClearEffect DEF OnlyProc
    <2>4. ASSUME FillHash(p) PROVE Tame /\ Formed
      BY <1>1, <2>4, FillEffect DEF OnlyProc
    <2>5. ASSUME SetExpiry(p) PROVE Tame /\ Formed
      BY <1>1, <2>5, ExpiryEffect DEF OnlyProc
    <2>6. ASSUME Commit(p) PROVE Tame /\ Formed
      BY <1>1, <2>6, CommitEffect DEF OnlyProc
    <2>7. ASSUME ClearCache(p) PROVE Tame /\ Formed
      BY <1>1, <2>7, ClearEffect DEF OnlyProc
    <2>8. ASSUME Stop(p) PROVE Tame /\ Formed
      <3>1. /\ OnlyProc(p) /\ faults' = faults + 1 /\ excuse' \subseteq {"late fill", "lost clear"}
            /\ UNCHANGED <<db, cached, expires, updates>>
        BY <2>8, StopEffect
      <3>2. faults' \in Nat
        <4>1. faults \in Nat /\ faults' = faults + 1
          BY <1>1, <3>1
        <4> QED BY <4>1
      <3> QED BY <1>1, <3>1, <3>2 DEF OnlyProc
    <2> HIDE DEF Tame, Formed
    <2> QED BY <1>2, <2>1, <2>2, <2>3, <2>4, <2>5, <2>6, <2>7, <2>8 DEF Step
  <1>3. ASSUME ExpireHash PROVE Tame /\ Formed
    BY <1>1, <1>3, ClearEffect DEF Ready
  <1>4. ASSUME UNCHANGED vars PROVE Tame /\ Formed
    BY <1>1, <1>4 DEF vars, Ready
  <1>5. Tame /\ Formed
    <2> HIDE DEF Tame, Formed
    <2> QED BY <1>2, <1>3, <1>4, Steps
  <1> QED BY <1>5 DEF WellFormed, TypeOK

(* StaleHasCause is kept: an update is about to clear the hash, and a fill  *)
(* with rows that are not those of the table is remembered.                 *)
LEMMA StaleInductive == WellFormed /\ StaleHasCause /\ [Next]_vars => StaleHasCause'
  <1> SUFFICES ASSUME WellFormed, StaleHasCause, [Next]_vars PROVE StaleHasCause'
    OBVIOUS
  <1> DEFINE Caused == \/ cached' \in {Empty, db'} \/ excuse' # {}
                       \/ \E q \in Procs : proc'[q].pc = "clear"
             Before == \/ cached \in {Empty, db} \/ excuse # {}
                       \/ \E q \in Procs : proc[q].pc = "clear"
  <1>1. Before
    BY DEF StaleHasCause, At
  <1>2. ASSUME NEW p \in Procs, OnlyProc(p), proc[p].pc # "clear",
               UNCHANGED <<db, cached>>, excuse \subseteq excuse'
        PROVE  Caused
    BY <1>1, <1>2 DEF OnlyProc
  <1>3. ASSUME NEW p \in Procs, Step(p) PROVE Caused
    <2>1. ASSUME \E a \in Accessors : Call(p, a) PROVE Caused
      <3>1. OnlyProc(p) /\ proc[p].pc = "idle" /\ UNCHANGED <<db, cached, excuse>>
        BY <2>1, CallEffect DEF At
      <3> HIDE DEF Caused
      <3> QED BY <1>2, <3>1
    <2>2. ASSUME \E order \in Requests : \E w \in Values(order) : UpdateConfig(p, order, w)
          PROVE  Caused
      <3>1. OnlyProc(p) /\ proc[p].pc = "idle" /\ UNCHANGED <<db, cached, excuse>>
        BY <2>2, UpdateEffect DEF At
      <3> HIDE DEF Caused
      <3> QED BY <1>2, <3>1
    <2>3. ASSUME Lookup(p) \/ Select(p) \/ LoadItem(p) \/ Answer(p) \/ SetExpiry(p) PROVE Caused
      <3>1. OnlyProc(p) /\ proc[p].pc # "clear" /\ UNCHANGED <<db, cached, excuse>>
        BY <2>3, LookupEffect, SelectEffect, LoadEffect, ClearEffect, ExpiryEffect DEF At
      <3> HIDE DEF Caused
      <3> QED BY <1>2, <3>1
    <2>4. ASSUME FillHash(p) PROVE Caused
      <3>1. /\ OnlyProc(p) /\ proc[p].pc = "hset" /\ excuse \subseteq excuse' /\ db' = db
            /\ proc[p].held # db => excuse' # {}
            /\ proc[p].held = db => (cached \in {Empty, db} => cached' = db)
        BY <2>4, FillEffect DEF At
      <3> QED BY <1>1, <3>1 DEF OnlyProc
    <2>5. ASSUME Commit(p) PROVE Caused
      <3>1. CASE OnlyProc(p) /\ db' = db
        <4>1. proc[p].pc # "clear" /\ UNCHANGED <<cached, excuse>>
          BY <2>5, CommitEffect DEF At
        <4> HIDE DEF Caused
        <4> QED BY <1>2, <3>1, <4>1
      <3>2. CASE ~(OnlyProc(p) /\ db' = db)
        <4>1. proc'[p].pc = "clear"
          BY <2>5, <3>2, CommitEffect
        <4> QED BY <4>1
      <3> QED BY <3>1, <3>2
    <2>6. ASSUME ClearCache(p) PROVE Caused
      BY <2>6, ClearEffect
    <2>7. ASSUME Stop(p) PROVE Caused
      <3>1. /\ OnlyProc(p) /\ excuse \subseteq excuse' /\ UNCHANGED <<db, cached>>
            /\ proc[p].pc = "clear" => excuse' # {}
        BY <2>7, StopEffect DEF At
      <3>2. CASE proc[p].pc = "clear"
        BY <3>1, <3>2
      <3>3. CASE proc[p].pc # "clear"
        <4> HIDE DEF Caused
        <4> QED BY <1>2, <3>1, <3>3
      <3> QED BY <3>2, <3>3
    <2> HIDE DEF Caused
    <2> QED BY <1>3, <2>1, <2>2, <2>3, <2>4, <2>5, <2>6, <2>7 DEF Step
  <1>4. ASSUME ExpireHash PROVE Caused
    BY <1>4, ClearEffect
  <1>5. ASSUME UNCHANGED vars PROVE Caused
    BY <1>1, <1>5 DEF vars
  <1>6. Caused
    <2> HIDE DEF Caused
    <2> QED BY <1>3, <1>4, <1>5, Steps
  <1>7. StaleHasCause' <=> Caused
    BY DEF StaleHasCause, At, Empty
  <1> QED BY <1>6, <1>7
(* ExpiryIsComing is kept: who fills the hash goes on to give it a time to  *)
(* live, unless it stops.                                                   *)
LEMMA ExpiryInductive == WellFormed /\ ExpiryIsComing /\ [Next]_vars => ExpiryIsComing'
  <1> SUFFICES ASSUME WellFormed, ExpiryIsComing, [Next]_vars PROVE ExpiryIsComing'
    OBVIOUS
  <1> DEFINE Coming == \/ cached' = Empty \/ expires' \/ faults' # 0
                       \/ \E q \in Procs : proc'[q].pc = "expire"
  <1>1. /\ \/ cached = Empty \/ expires \/ faults # 0
           \/ \E q \in Procs : proc[q].pc = "expire"
        /\ faults \in Nat
    BY DEF ExpiryIsComing, At, WellFormed, TypeOK
  <1>2. ASSUME NEW p \in Procs, proc[p].pc # "expire", UNCHANGED <<cached, expires, faults>>,
               \A q \in Procs \ {p} : proc'[q].pc = proc[q].pc
        PROVE  Coming
    BY <1>1, <1>2
  <1>3. ASSUME NEW p \in Procs, Step(p) PROVE Coming
    <2>1. ASSUME \E a \in Accessors : Call(p, a) PROVE Coming
      <3>1. OnlyProc(p) /\ proc[p].pc = "idle" /\ UNCHANGED <<cached, expires, faults>>
        BY <2>1, CallEffect DEF At
      <3> HIDE DEF Coming
      <3> QED BY <1>2, <3>1 DEF OnlyProc
    <2>2. ASSUME \E order \in Requests : \E w \in Values(order) : UpdateConfig(p, order, w)
          PROVE  Coming
      <3>1. OnlyProc(p) /\ proc[p].pc = "idle" /\ UNCHANGED <<cached, expires, faults>>
        BY <2>2, UpdateEffect DEF At
      <3> HIDE DEF Coming
      <3> QED BY <1>2, <3>1 DEF OnlyProc
    <2>3. ASSUME Lookup(p) \/ Select(p) \/ LoadItem(p) \/ Answer(p) PROVE Coming
      <3>1. OnlyProc(p) /\ proc[p].pc # "expire" /\ UNCHANGED <<cached, expires, faults>>
        BY <2>3, LookupEffect, SelectEffect, LoadEffect, ClearEffect DEF At
      <3> HIDE DEF Coming
      <3> QED BY <1>2, <3>1 DEF OnlyProc
    <2>4. ASSUME FillHash(p) PROVE Coming
      BY <2>4, FillEffect DEF GoesOn
    <2>5. ASSUME SetExpiry(p) PROVE Coming
      BY <2>5, ExpiryEffect
    <2>6. ASSUME Commit(p) PROVE Coming
      <3>1. /\ proc[p].pc = "commit" /\ UNCHANGED <<cached, expires, faults>>
            /\ \A q \in Procs \ {p} : proc'[q].pc = proc[q].pc
        BY <2>6, CommitEffect DEF At, OnlyProc
      <3> HIDE DEF Coming
      <3> QED BY <1>2, <3>1
    <2>7. ASSUME ClearCache(p) PROVE Coming
      BY <2>7, ClearEffect
    <2>8. ASSUME Stop(p) PROVE Coming
      <3>1. faults' = faults + 1
        BY <2>8, StopEffect
      <3> QED BY <1>1, <3>1
    <2> HIDE DEF Coming
    <2> QED BY <1>3, <2>1, <2>2, <2>3, <2>4, <2>5, <2>6, <2>7, <2>8 DEF Step
  <1>4. ASSUME ExpireHash PROVE Coming
    BY <1>4, ClearEffect
  <1>5. ASSUME UNCHANGED vars PROVE Coming
    BY <1>1, <1>5 DEF vars
  <1>6. Coming
    <2> HIDE DEF Coming
    <2> QED BY <1>3, <1>4, <1>5, Steps
  <1>7. ExpiryIsComing' <=> Coming
    BY DEF ExpiryIsComing, At, Empty
  <1> QED BY <1>6, <1>7
(* Undisturbed is kept: what is stored or held while somebody reads         *)
(* undisturbed is the table, and a commit disturbs everybody.               *)
LEMMA QuietInductive ==
    WellFormed /\ (\A p \in Procs : Undisturbed(p)) /\ [Next]_vars
      => \A p \in Procs : Undisturbed(p)'
  <1> SUFFICES ASSUME WellFormed, \A p \in Procs : Undisturbed(p), [Next]_vars
               PROVE  \A p \in Procs : Undisturbed(p)'
    OBVIOUS
  <1> DEFINE Fresh  == /\ cached \in {Empty, db}
                       /\ \A q \in Procs : /\ proc[q].pc # "clear"
                                           /\ proc[q].pc = "hset" => proc[q].held = db
             Fresher == /\ cached' \in {Empty, db'}
                        /\ \A q \in Procs : /\ proc'[q].pc # "clear"
                                            /\ proc'[q].pc = "hset" => proc'[q].held = db'
             Calm(p) == /\ proc'[p].pc = "expire" => proc'[p].held = db'
                        /\ \A k \in Keys : proc'[p].got[k] \in {"keep", db'[k]}
             Goal == \A p \in Procs : proc'[p].quiet => Fresher /\ Calm(p)
  <1>1. ~Outdated <=> Fresh
    BY DEF Outdated, At
  <1>2. ASSUME NEW p \in Procs, proc[p].quiet
        PROVE  /\ Fresh /\ (proc[p].pc = "expire" => proc[p].held = db)
               /\ \A k \in Keys : proc[p].got[k] \in {"keep", db[k]}
    BY <1>1, <1>2 DEF Undisturbed, At
  <1>3. ASSUME NEW p \in Procs, OnlyProc(p), db' = db, Fresh => Fresher,
               proc'[p].quiet => Fresh /\ Calm(p)
        PROVE  Goal
    <2>1. ASSUME NEW q \in Procs, q # p, proc'[q].quiet PROVE Fresher /\ Calm(q)
      <3>1. proc'[q] = proc[q]
        BY <1>3, <2>1 DEF OnlyProc
      <3> HIDE DEF Fresh, Fresher
      <3> QED BY <1>2, <1>3, <2>1, <3>1
    <2> HIDE DEF Fresh, Fresher, Calm
    <2> QED BY <1>3, <2>1
  <1>4. ASSUME NEW p \in Procs, OnlyProc(p), db' = db, cached' \in {cached, Empty},
               proc'[p].pc \notin {"clear", "hset"}
        PROVE  Fresh => Fresher
    BY <1>4 DEF OnlyProc
  <1>5. ASSUME NEW p \in Procs, NEW values, HasRead(p, values), db' = db,
               Fresh /\ proc[p].quiet => values = db, proc'[p].quiet
        PROVE  Fresh /\ Calm(p)
    <2>1. /\ proc'[p].pc # "expire" /\ proc[p].quiet
          /\ \A k \in Keys : proc'[p].got[k] \in {proc[p].got[k], values[k]}
      BY <1>5 DEF HasRead
    <2> HIDE DEF Fresh
    <2> QED BY <1>2, <1>5, <2>1
  <1>6. ASSUME NEW p \in Procs, Step(p) PROVE Goal
    <2>1. ASSUME NEW a \in Accessors, Call(p, a) PROVE Goal
      <3>1. /\ OnlyProc(p) /\ proc'[p].pc = "lookup" /\ proc'[p].got = Nothing
            /\ proc'[p].quiet = ~Outdated /\ db' = db /\ cached' = cached
        BY <2>1, CallEffect
      <3>2. Calm(p)
        BY <3>1 DEF Nothing
      <3> HIDE DEF Goal, Fresh, Fresher, Calm
      <3> QED BY <1>1, <1>3, <1>4, <3>1, <3>2
    <2>2. ASSUME NEW pc, OnlyProc(p), db' = db, cached' \in {cached, Empty}, GoesOn(p, pc),
                 pc \notin {"clear", "hset", "expire"}
          PROVE  Goal
      <3>1. proc'[p].pc = pc /\ proc'[p].quiet = proc[p].quiet /\ proc'[p].got = proc[p].got
        BY <2>2 DEF GoesOn
      <3>2. proc'[p].quiet => Fresh /\ Calm(p)
        <4> HIDE DEF Fresh
        <4> QED BY <1>2, <2>2, <3>1
      <3> HIDE DEF Goal, Fresh, Fresher, Calm
      <3> QED BY <1>3, <1>4, <2>2, <3>1, <3>2
    <2>3. ASSUME NEW values, OnlyProc(p), db' = db, cached' = cached, HasRead(p, values),
                 Fresh /\ proc[p].quiet => values = db
          PROVE  Goal
      <3>1. proc'[p].pc \notin {"clear", "hset"}
        BY <2>3 DEF HasRead
      <3> HIDE DEF Goal, Fresh, Fresher, Calm
      <3> QED BY <1>3, <1>4, <1>5, <2>3, <3>1
    <2>4. ASSUME OnlyProc(p), db' = db, cached' \in {cached, Empty}, proc'[p].quiet = FALSE,
                 proc'[p].pc \in {"idle", "load"}
          PROVE  Goal
      <3> HIDE DEF Goal, Fresh, Fresher, Calm
      <3> QED BY <1>3, <1>4, <2>4
    <2>5. ASSUME \E order \in Requests : \E w \in Values(order) : UpdateConfig(p, order, w)
          PROVE  Goal
      <3>1. /\ OnlyProc(p) /\ db' = db /\ cached' = cached /\ proc'[p].quiet = FALSE
            /\ proc'[p].pc = "load"
        BY <2>5, UpdateEffect
      <3> HIDE DEF Goal
      <3> QED BY <2>4, <3>1
    <2>6. ASSUME Lookup(p) PROVE Goal
      <3>1. /\ OnlyProc(p) /\ db' = db /\ cached' = cached
            /\ (cached # Empty /\ HasRead(p, cached)) \/ GoesOn(p, "select")
        BY <2>6, LookupEffect
      <3>2. cached # Empty /\ Fresh => cached = db
        OBVIOUS
      <3> HIDE DEF Goal, Fresh
      <3> QED BY <2>2, <2>3, <3>1, <3>2
    <2>7. ASSUME Select(p) PROVE Goal
      <3>1. /\ OnlyProc(p) /\ db' = db /\ cached' = cached
            /\ HasRead(p, db) \/ (GoesOn(p, "hset") /\ proc'[p].held = db)
        BY <2>7, SelectEffect
      <3>2. CASE HasRead(p, db)
        <4> HIDE DEF Goal, Fresh
        <4> QED BY <2>3, <3>1, <3>2
      <3>3. CASE GoesOn(p, "hset") /\ proc'[p].held = db
        <4>1. proc'[p].pc = "hset" /\ proc'[p].quiet = proc[p].quiet /\ proc'[p].got = proc[p].got
          BY <3>3 DEF GoesOn
        <4>2. Fresh => Fresher
          BY <3>1, <3>3, <4>1 DEF OnlyProc
        <4>3. proc'[p].quiet => Fresh /\ Calm(p)
          <5> HIDE DEF Fresh
          <5> QED BY <1>2, <3>1, <4>1
        <4> HIDE DEF Goal, Fresh, Fresher, Calm
        <4> QED BY <1>3, <3>1, <4>2, <4>3
      <3> QED BY <3>1, <3>2, <3>3
    <2>8. ASSUME FillHash(p) PROVE Goal
      <3>1. /\ OnlyProc(p) /\ db' = db /\ proc[p].pc = "hset" /\ proc'[p].held = proc[p].held
            /\ proc'[p].pc = "expire" /\ proc'[p].quiet = proc[p].quiet
            /\ proc'[p].got = proc[p].got
            /\ proc[p].held = db => (cached \in {Empty, db} => cached' = db)
        BY <2>8, FillEffect DEF At, GoesOn
      <3>2. Fresh => Fresher /\ proc[p].held = db
        BY <3>1 DEF OnlyProc
      <3>3. proc'[p].quiet => Fresh /\ Calm(p)
        <4> HIDE DEF Fresh, Fresher
        <4> QED BY <1>2, <3>1, <3>2
      <3> HIDE DEF Goal, Fresh, Fresher, Calm
      <3> QED BY <1>3, <3>1, <3>2, <3>3
    <2>9. ASSUME SetExpiry(p) PROVE Goal
      <3>1. /\ OnlyProc(p) /\ db' = db /\ cached' = cached /\ proc[p].pc = "expire"
            /\ HasRead(p, proc[p].held)
        BY <2>9, ExpiryEffect DEF At
      <3>2. proc[p].quiet => proc[p].held = db
        BY <1>2, <3>1
      <3> HIDE DEF Goal, Fresh
      <3> QED BY <2>3, <3>1, <3>2
    <2>10. ASSUME LoadItem(p) PROVE Goal
      <3>1. /\ OnlyProc(p) /\ db' = db /\ cached' = cached
            /\ \/ proc'[p].pc = "idle" /\ proc'[p].quiet = FALSE
               \/ GoesOn(p, "load") \/ GoesOn(p, "commit")
        BY <2>10, LoadEffect
      <3> HIDE DEF Goal
      <3> QED BY <2>2, <2>4, <3>1
    <2>11. ASSUME Commit(p) PROVE Goal
      <3>1. CASE \A q \in Procs : proc'[q].quiet = FALSE
        BY <3>1
      <3>2. CASE ~(\A q \in Procs : proc'[q].quiet = FALSE)
        <4>1. /\ OnlyProc(p) /\ db' = db /\ cached' = cached /\ proc'[p].quiet = FALSE
              /\ proc'[p].pc = "idle"
          BY <2>11, <3>2, CommitEffect
        <4> HIDE DEF Goal
        <4> QED BY <2>4, <4>1
      <3> QED BY <3>1, <3>2
    <2>12. ASSUME ClearCache(p) \/ Answer(p) \/ Stop(p) PROVE Goal
      <3>1. /\ OnlyProc(p) /\ db' = db /\ cached' \in {cached, Empty} /\ proc'[p].quiet = FALSE
            /\ proc'[p].pc = "idle"
        BY <2>12, ClearEffect, StopEffect
      <3> HIDE DEF Goal
      <3> QED BY <2>4, <3>1
    <2> HIDE DEF Goal
    <2> QED BY <1>6, <2>1, <2>5, <2>6, <2>7, <2>8, <2>9, <2>10, <2>11, <2>12 DEF Step
  <1>7. ASSUME ExpireHash \/ UNCHANGED vars PROVE Goal
    <2>1. proc' = proc /\ db' = db /\ cached' \in {cached, Empty}
      BY <1>7, ClearEffect DEF vars
    <2>2. Fresh => Fresher
      BY <2>1
    <2> HIDE DEF Fresh, Fresher
    <2> QED BY <1>2, <2>1, <2>2
  <1>8. Goal
    <2> HIDE DEF Goal
    <2> QED BY <1>6, <1>7, Steps
  <1>9. ASSUME NEW p \in Procs, proc'[p].quiet => Fresher /\ Calm(p) PROVE Undisturbed(p)'
    <2>1. Fresher <=> ~Outdated'
      BY DEF Outdated, At, Empty
    <2> HIDE DEF Fresher
    <2> QED BY <1>9, <2>1 DEF Undisturbed, At
  <1> QED BY <1>8, <1>9

(* The invariant holds at first and every step keeps it. *)
LEMMA ConfigInvariant == Spec => []ConfigInv
  <1>1. Init => ConfigInv
    <2> SUFFICES ASSUME Init PROVE ConfigInv
      OBVIOUS
    <2>1. /\ proc \in [Procs -> Process]
          /\ \A p \in Procs : proc[p].pc = "idle" /\ proc[p].quiet = FALSE /\ Ready(proc[p])
      BY AtRest DEF Init
    <2>2. WellFormed
      BY <2>1, AtRest DEF Init, WellFormed, TypeOK
    <2> QED BY <2>1, <2>2 DEF Init, ConfigInv, StaleHasCause, ExpiryIsComing, Undisturbed
  <1>2. ConfigInv /\ [Next]_vars => ConfigInv'
    BY TypeInductive, StaleInductive, ExpiryInductive, QuietInductive DEF ConfigInv
  <1> QED BY <1>1, <1>2, PTL DEF Spec

(* The table, the hash and the processes keep their types. *)
THEOREM TypeCorrect == Spec => []TypeOK
  <1>1. ConfigInv => TypeOK
    BY DEF ConfigInv, WellFormed
  <1> QED BY <1>1, ConfigInvariant, PTL

(* StaleHasCause: a hash that is not the table is about to be cleared, or   *)
(* was filled late, or lost the process that was to clear it.               *)
THEOREM StalenessHasCause == Spec => []StaleHasCause
  <1>1. ConfigInv => StaleHasCause
    BY DEF ConfigInv
  <1> QED BY <1>1, ConfigInvariant, PTL

(* ExpiryIsComing: as long as no process stops, a hash has a time to live   *)
(* or a reader that is about to give it one.                                *)
THEOREM HashWillExpire == Spec => []ExpiryIsComing
  <1>1. ConfigInv => ExpiryIsComing
    BY DEF ConfigInv
  <1> QED BY <1>1, ConfigInvariant, PTL

(* QuietReadIsCurrent: an accessor that nothing disturbs reads its keys one *)
(* by one as the table has them.                                            *)
THEOREM QuietReadsAreCurrent == Spec => []QuietReadIsCurrent
  <1>1. ConfigInv => QuietReadIsCurrent
    BY DEF ConfigInv, Undisturbed, QuietReadIsCurrent
  <1> QED BY <1>1, ConfigInvariant, PTL
=============================================================================
