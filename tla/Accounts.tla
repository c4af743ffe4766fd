------------------------------ MODULE Accounts ------------------------------
(* Accounts: bootstrap, registration with a proof-of-work challenge and an  *)
(* invite, and what administrators do to accounts and invites.  A request   *)
(* awaits Redis and the database between its steps; every select reads what *)
(* is committed, and every commit writes the attributes that the request    *)
(* changed from what it had loaded.                                         *)
(*                                                                          *)
(* A name stands for a user name and the e-mail address that goes with it.  *)
EXTENDS Naturals, FiniteSets

CONSTANTS Requests,   \* requests running at a time
          Names,      \* names accounts can have
          Challenges, \* identities of challenges
          Invites,    \* identities of invites
          None,       \* no name, no challenge, no invite
          Creations,  \* bound: roles and statuses that accounts are created with
          MaxUses,    \* bound: max_uses of an invite
          MaxStarted  \* bound: requests in all

Modes    == {"disabled", "invite", "approval"}
(* A reviewer can do here what a user can. *)
Roles    == {"admin", "user"}
Statuses == {"pending_approval", "active", "disabled"}

ASSUME AccountsAssumption == /\ IsFiniteSet(Requests)
                             /\ None \notin Names \cup Challenges \cup Invites
                             /\ Creations \subseteq Roles \X Statuses
                             /\ MaxUses \in Nat \ {0}
                             /\ MaxStarted \in Nat

VARIABLES useRedis,   \* whether challenges are kept in Redis or in the process
          mode,       \* the registration mode in force
          challenges, \* where each challenge is
          spent,      \* history: how often it let a registration pass
          invites,    \* the rows of user_invites
          redeemed,   \* history: accounts registered with each invite
          users,      \* the rows of users
          booted,     \* history: accounts that bootstrap created
          req,        \* what each request is doing
          started     \* requests so far (bound)

vars == <<useRedis, mode, challenges, spent, invites, redeemed, users, booted, req, started>>

(* overlap is history: two requests have had the row loaded at a time.      *)
Invite  == [status : {"none", "active", "disabled"}, max : 0..MaxUses, used : 0..MaxUses,
            overlap : BOOLEAN]
NoRow   == [status |-> "none", max |-> 0, used |-> 0, overlap |-> FALSE]

(* admitted is history: whether the last commit that concerned the account  *)
(* was to let its owner in.                                                 *)
User    == [role : Roles \cup {"none"}, status : Statuses, active : BOOLEAN,
            admitted : BOOLEAN, overlap : BOOLEAN]
Nobody  == [role |-> "none", status |-> "disabled", active |-> FALSE,
            admitted |-> FALSE, overlap |-> FALSE]

Labels  == {"idle", "pop", "delete", "mode", "unique", "invite", "register",
            "create", "bootstrap", "approve", "disable"}
Request == [pc : Labels, name : Names \cup {None}, challenge : Challenges \cup {None},
            invite : Invites \cup {None},
            mode : Modes, used : Nat, status : Statuses, active : BOOLEAN, role : Roles]
Idle    == [pc |-> "idle", name |-> None, challenge |-> None, invite |-> None,
            mode |-> "disabled", used |-> 0, status |-> "disabled", active |-> FALSE,
            role |-> "user"]

TypeOK == /\ useRedis \in BOOLEAN
          /\ mode \in Modes
          /\ challenges \in [Challenges -> {"none", "stored", "gone"}]
          /\ spent \in [Challenges -> Nat]
          /\ invites \in [Invites -> Invite]
          /\ redeemed \in [Invites -> Nat]
          /\ users \in [Names -> User]
          /\ booted \in Nat
          /\ req \in [Requests -> Request]
          /\ started \in Nat

Init == /\ useRedis \in BOOLEAN
        /\ mode \in Modes
        /\ challenges = [c \in Challenges |-> "none"]
        /\ spent = [c \in Challenges |-> 0]
        /\ invites = [i \in Invites |-> NoRow]
        /\ redeemed = [i \in Invites |-> 0]
        /\ users = [n \in Names |-> Nobody]
        /\ booted = 0
        /\ req = [r \in Requests |-> Idle]
        /\ started = 0

-----------------------------------------------------------------------------
At(r, label) == req[r].pc = label
Goes(r, q)   == req' = [req EXCEPT ![r] = q]
Ends(r)      == Goes(r, Idle)

Begins(r, q) == /\ At(r, "idle") /\ Goes(r, q)
                /\ started < MaxStarted /\ started' = started + 1

Exists(n) == users[n].role # "none"

(* authenticate_user, get_current_user *)
Usable(n) == users[n].status = "active" /\ users[n].active

(* get_current_admin *)
SomeAdmin == \E n \in Names : users[n].role = "admin" /\ Usable(n)

InsertUser(n, role, status, admitted) ==
    users' = [users EXCEPT ![n] = [role |-> role, status |-> status,
                                   active |-> status # "disabled",
                                   admitted |-> admitted, overlap |-> FALSE]]

-----------------------------------------------------------------------------
(* GET /register/challenge, create_pow_challenge *)
CreateChallenge(c) ==
    /\ mode # "disabled"
    /\ challenges[c] = "none"
    /\ challenges' = [challenges EXCEPT ![c] = "stored"]
    /\ UNCHANGED <<useRedis, mode, spent, invites, redeemed, users, booted, req, started>>

(* The time to live of the key, or _cleanup_memory_challenges. *)
ExpireChallenge(c) ==
    /\ challenges[c] = "stored"
    /\ challenges' = [challenges EXCEPT ![c] = "gone"]
    /\ UNCHANGED <<useRedis, mode, spent, invites, redeemed, users, booted, req, started>>

(* POST /register.  The name and the code it carries are chosen where they  *)
(* are first used.                                                          *)
Register(r, c) ==
    /\ Begins(r, [Idle EXCEPT !.pc = "pop", !.challenge = c])
    /\ UNCHANGED <<useRedis, mode, challenges, spent, invites, redeemed, users, booted>>

(* consume_pow_challenge has the payload: it may have expired meanwhile, or *)
(* the nonce may be wrong.                                                  *)
Verify(r, good) ==
    /\ Goes(r, IF good THEN [Idle EXCEPT !.pc = "mode"] ELSE Idle)
    /\ spent' = IF good THEN [spent EXCEPT ![req[r].challenge] = @ + 1] ELSE spent

(* Variant: the challenge is removed only when it has been solved. *)
PopChallenge_Keeps(r, good) ==
    LET c == req[r].challenge
    IN /\ At(r, "pop")
       /\ IF challenges[c] # "stored" THEN Ends(r) /\ UNCHANGED <<challenges, spent>>
          ELSE IF useRedis THEN Goes(r, [req[r] EXCEPT !.pc = "delete"]) /\ UNCHANGED <<challenges, spent>>
          ELSE Verify(r, good) /\ UNCHANGED challenges
       /\ UNCHANGED <<useRedis, mode, invites, redeemed, users, booted, started>>

(* _pop_challenge: GET from Redis, or pop from the dictionary at once. *)
PopChallenge(r, good) ==
    LET c == req[r].challenge
    IN /\ At(r, "pop")
       /\ IF challenges[c] # "stored" THEN Ends(r) /\ UNCHANGED <<challenges, spent>>
          ELSE IF useRedis THEN Goes(r, [req[r] EXCEPT !.pc = "delete"]) /\ UNCHANGED <<challenges, spent>>
          ELSE /\ challenges' = [challenges EXCEPT ![c] = "gone"]
               /\ Verify(r, good)
       /\ UNCHANGED <<useRedis, mode, invites, redeemed, users, booted, started>>

DeleteChallenge(r, good) ==
    /\ At(r, "delete")
    /\ challenges' = [challenges EXCEPT ![req[r].challenge] = "gone"]
    /\ Verify(r, good)
    /\ UNCHANGED <<useRedis, mode, invites, redeemed, users, booted, started>>

(* register_user, await by await *)
ReadMode(r) ==
    /\ At(r, "mode")
    /\ Goes(r, IF mode = "disabled" THEN Idle ELSE [req[r] EXCEPT !.pc = "unique", !.mode = mode])
    /\ UNCHANGED <<useRedis, mode, challenges, spent, invites, redeemed, users, booted, started>>

(* _ensure_user_unique *)
EnsureUserUnique(r, n) ==
    /\ At(r, "unique")
    /\ Goes(r, IF Exists(n) THEN Idle
               ELSE [req[r] EXCEPT !.pc = IF req[r].mode = "invite" THEN "invite" ELSE "register",
                                   !.name = n])
    /\ UNCHANGED <<useRedis, mode, challenges, spent, invites, redeemed, users, booted, started>>

HoldsInvite(q, i) == At(q, "register") /\ req[q].invite = i

(* Variant: an invite may be used once more than it says. *)
InviteUsable_OnceMore(i) == invites[i].status = "active" /\ invites[i].used <= invites[i].max

InviteUsable(i) == invites[i].status = "active" /\ invites[i].used < invites[i].max

(* _get_usable_invite *)
GetUsableInvite(r, i) ==
    /\ At(r, "invite") /\ InviteUsable(i)
    /\ Goes(r, [req[r] EXCEPT !.pc = "register", !.invite = i, !.used = invites[i].used])
    /\ invites' = [invites EXCEPT ![i].overlap = @ \/ \E q \in Requests : HoldsInvite(q, i)]
    /\ UNCHANGED <<useRedis, mode, challenges, spent, redeemed, users, booted, started>>

(* No code, an unknown one, or an invite that is used up, disabled or past  *)
(* its expires_at.                                                          *)
NoUsableInvite(r) ==
    /\ At(r, "invite")
    /\ Ends(r)
    /\ UNCHANGED <<useRedis, mode, challenges, spent, invites, redeemed, users, booted, started>>

(* Variant: the mode is read again to choose the status. *)
CommitRegistration_RereadsMode(r) ==
    LET q == req[r]
        i == q.invite
    IN /\ At(r, "register")
       /\ Ends(r)
       /\ IF Exists(q.name) THEN UNCHANGED <<users, invites, redeemed>>
          ELSE /\ InsertUser(q.name, "user", IF mode = "invite" THEN "active" ELSE "pending_approval",
                             i # None)
               /\ IF q.mode # "invite" THEN UNCHANGED <<invites, redeemed>>
                  ELSE /\ invites' = [invites EXCEPT ![i].used = q.used + 1]
                       /\ redeemed' = [redeemed EXCEPT ![i] = @ + 1]
       /\ UNCHANGED <<useRedis, mode, challenges, spent, booted, started>>

(* One transaction: a name that was taken meanwhile undoes it, and else     *)
(* the use of the invite is counted from what was loaded.                   *)
CommitRegistration(r) ==
    LET q == req[r]
        i == q.invite
    IN /\ At(r, "register")
       /\ Ends(r)
       /\ IF Exists(q.name) THEN UNCHANGED <<users, invites, redeemed>>
          ELSE /\ InsertUser(q.name, "user", IF q.mode = "invite" THEN "active" ELSE "pending_approval",
                             i # None)
               /\ IF q.mode # "invite" THEN UNCHANGED <<invites, redeemed>>
                  ELSE /\ invites' = [invites EXCEPT ![i].used = q.used + 1]
                       /\ redeemed' = [redeemed EXCEPT ![i] = @ + 1]
       /\ UNCHANGED <<useRedis, mode, challenges, spent, booted, started>>

-----------------------------------------------------------------------------
(* Variant: accounts that cannot be used do not count. *)
NoUsers_Usable == ~SomeAdmin

NoUsers == \A n \in Names : ~Exists(n)

(* POST /bootstrap, and bootstrap_admin_user when the application starts:   *)
(* they count the accounts, and create the first.                           *)
Bootstrap(r, n, role, status) ==
    /\ NoUsers
    /\ Begins(r, [Idle EXCEPT !.pc = "bootstrap", !.name = n, !.role = role, !.status = status])
    /\ UNCHANGED <<useRedis, mode, challenges, spent, invites, redeemed, users, booted>>

(* POST /users: an administrator asks. *)
CreateUser(r, n, role, status) ==
    /\ SomeAdmin
    /\ Begins(r, [Idle EXCEPT !.pc = "create", !.name = n, !.role = role, !.status = status])
    /\ UNCHANGED <<useRedis, mode, challenges, spent, invites, redeemed, users, booted>>

(* create_user: the unique index decides. *)
CommitUser(r) ==
    LET q == req[r]
    IN /\ q.pc \in {"bootstrap", "create"}
       /\ Ends(r)
       /\ IF Exists(q.name) THEN UNCHANGED <<users, booted>>
          ELSE /\ InsertUser(q.name, q.role, q.status, q.status = "active")
               /\ booted' = IF At(r, "bootstrap") THEN booted + 1 ELSE booted
       /\ UNCHANGED <<useRedis, mode, challenges, spent, invites, redeemed, started>>

(* POST /users/{user_id}/approve, /disable: the administrator's request     *)
(* loads the account.                                                       *)
LoadUser(r, n, label) ==
    /\ SomeAdmin /\ Exists(n)
    /\ Begins(r, [Idle EXCEPT !.pc = label, !.name = n, !.status = users[n].status,
                            !.active = users[n].active])
    /\ users' = [users EXCEPT ![n].overlap =
                    @ \/ \E q \in Requests : req[q].pc \in {"approve", "disable"} /\ req[q].name = n]
    /\ UNCHANGED <<useRedis, mode, challenges, spent, invites, redeemed, booted>>

(* Only an attribute that differs from what was loaded is written. *)
Write(loaded, new, current) == IF new = loaded THEN current ELSE new

SaveUser(r, status, active) ==
    LET q == req[r]
    IN /\ users' = [users EXCEPT ![q.name].status = Write(q.status, status, @),
                                 ![q.name].active = Write(q.active, active, @),
                                 ![q.name].admitted = active]
       /\ Ends(r)
       /\ UNCHANGED <<useRedis, mode, challenges, spent, invites, redeemed, booted, started>>

ApproveUser(r) == At(r, "approve") /\ SaveUser(r, "active", TRUE)

DisableUser(r) == At(r, "disable") /\ SaveUser(r, "disabled", FALSE)

(* POST /invites *)
CreateInvite(i, max) ==
    /\ SomeAdmin
    /\ invites[i] = NoRow
    /\ invites' = [invites EXCEPT ![i].status = "active", ![i].max = max]
    /\ UNCHANGED <<useRedis, mode, challenges, spent, redeemed, users, booted, req, started>>

(* POST /invites/{invite_id}/disable: the count is not written. *)
DisableInvite(i) ==
    /\ SomeAdmin
    /\ invites[i].status = "active"
    /\ invites' = [invites EXCEPT ![i].status = "disabled"]
    /\ UNCHANGED <<useRedis, mode, challenges, spent, redeemed, users, booted, req, started>>

(* PUT /config *)
ChangeMode(m) ==
    /\ SomeAdmin
    /\ m # mode /\ mode' = m
    /\ UNCHANGED <<useRedis, challenges, spent, invites, redeemed, users, booted, req, started>>

(* The process stops, or Redis or the database fails it. *)
Stop(r) ==
    /\ ~At(r, "idle")
    /\ Ends(r)
    /\ UNCHANGED <<useRedis, mode, challenges, spent, invites, redeemed, users, booted, started>>

-----------------------------------------------------------------------------
Registers(r) ==
    \/ \E c \in Challenges : Register(r, c)
    \/ \E good \in BOOLEAN : PopChallenge(r, good) \/ DeleteChallenge(r, good)
    \/ ReadMode(r)
    \/ \E n \in Names : EnsureUserUnique(r, n)
    \/ \E i \in Invites : GetUsableInvite(r, i)
    \/ NoUsableInvite(r)
    \/ CommitRegistration(r)

Administers(r) ==
    \/ \E n \in Names, c \in Creations : Bootstrap(r, n, c[1], c[2]) \/ CreateUser(r, n, c[1], c[2])
    \/ CommitUser(r)
    \/ \E n \in Names, label \in {"approve", "disable"} : LoadUser(r, n, label)
    \/ ApproveUser(r)
    \/ DisableUser(r)

Next == \/ \E r \in Requests : Registers(r) \/ Administers(r) \/ Stop(r)
        \/ \E c \in Challenges : CreateChallenge(c) \/ ExpireChallenge(c)
        \/ \E i \in Invites : DisableInvite(i) \/ \E max \in 1..MaxUses : CreateInvite(i, max)
        \/ \E m \in Modes : ChangeMode(m)

Spec == Init /\ [][Next]_vars

-----------------------------------------------------------------------------
(* Properties.                                                              *)

(* A challenge lets one registration pass.  In Redis it is read and deleted *)
(* by two commands, and lets those pass that had read it before any of them *)
(* deleted it: no more than run at a time.                                  *)
ChallengeSpentOnce ==
    \A c \in Challenges : spent[c] <= IF useRedis THEN Cardinality(Requests) ELSE 1

(* An invite lets at most max_uses accounts in unless registrations that    *)
(* hold it overlap, for each counts on from what it loaded; and whatever    *)
(* they do, used_count stays within the check constraint of the table.      *)
InviteWithinLimit ==
    \A i \in Invites : /\ invites[i].used <= invites[i].max
                       /\ redeemed[i] > invites[i].max => invites[i].overlap

(* An account that can be used was let in by an invite, by approval or by   *)
(* its creator, and not disabled since, and its two flags agree, unless     *)
(* administrators' requests for it overlapped.  Mode changes in the middle  *)
(* of a registration let nobody in.                                         *)
UsableIsAdmitted ==
    \A n \in Names :
        Exists(n) /\ ~users[n].overlap =>
            /\ Usable(n) <=> users[n].admitted
            /\ users[n].active <=> users[n].status # "disabled"

(* Bootstrap is over with the first account, but for the calls that had     *)
(* already counted none.                                                    *)
BootstrapCloses == booted <= Cardinality(Requests)

(* Accounts, but no administrator that can be used, and no request still    *)
(* running that an administrator, or the lack of accounts, had let in.      *)
LockedOut == /\ \E n \in Names : Exists(n)
             /\ ~SomeAdmin
             /\ \A r \in Requests : req[r].pc \notin {"bootstrap", "create", "approve"}

(* Nothing in the registry brings an administrator back: when the last one  *)
(* disables himself, or somebody registers before bootstrap, there will     *)
(* never be one.  A start with BOOTSTRAP_ADMIN_* set does not help either:  *)
(* bootstrap_admin_user returns when there is any account.  See also        *)
(* AdminUpdatedOnStartup.                                                   *)
LockoutIsFinal == [][LockedOut => LockedOut']_vars

-----------------------------------------------------------------------------
(* A claim of the documentation.                                            *)

(* "admin user created or updated on startup" (deploy/.env.example:138):    *)
(* where nobody can administer, an application that starts with the         *)
(* variables set provides an administrator.                                 *)
AdminUpdatedOnStartup ==
    \A r \in Requests : LockedOut /\ At(r, "idle") /\ started < MaxStarted
        => \E n \in Names : ENABLED Bootstrap(r, n, "admin", "active")
=============================================================================
