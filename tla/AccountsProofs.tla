--------------------------- MODULE AccountsProofs ---------------------------
(* Theorems about Accounts, for any number of requests, names, challenges   *)
(* and invites.                                                             *)
EXTENDS Accounts, FiniteSetTheorems, TLAPS

-----------------------------------------------------------------------------
(* The inductive invariant. *)

(* What a request has gathered when it reaches a label. *)
Gathered(r) ==
    LET q == req[r]
    IN /\ q.pc \in {"pop", "delete"} => q.challenge \in Challenges
       /\ q.pc \in {"invite", "register", "create", "bootstrap", "approve", "disable"} => q.name \in Names
       /\ q.pc \in {"approve", "disable"} => Exists(q.name)
       /\ q.pc \in {"mode", "unique", "invite"} => q.invite = None
       /\ q.pc = "invite" => q.mode = "invite"
       /\ q.pc = "register" =>
             \/ q.invite = None /\ q.mode # "invite"
             \/ /\ q.invite \in Invites /\ q.mode = "invite"
                /\ invites[q.invite].status # "none"
                /\ q.used < invites[q.invite].max

(* Requests that have read a challenge from Redis and not deleted it. *)
Readers(c) == {r \in Requests : At(r, "delete") /\ req[r].challenge = c}

(* Who has passed, or has read the challenge and will. *)
ChallengeCounted ==
    \A c \in Challenges :
        /\ challenges[c] # "gone" => spent[c] = 0
        /\ IF useRedis THEN spent[c] + Cardinality(Readers(c)) <= Cardinality(Requests)
                       ELSE spent[c] <= 1 /\ \A r \in Requests : ~At(r, "delete")

(* While no two registrations have held an invite at a time, its count is   *)
(* the number of accounts, and the one that holds it has read that number.  *)
InviteCounted ==
    \A i \in Invites :
        /\ invites[i].used <= invites[i].max
        /\ ~invites[i].overlap =>
              /\ redeemed[i] <= invites[i].used
              /\ \A r \in Requests : HoldsInvite(r, i) =>
                    /\ req[r].used = invites[i].used
                    /\ \A x \in Requests : HoldsInvite(x, i) => x = r

(* A request that has the row of an account loaded, to change it. *)
HasLoaded(r, n) == req[r].pc \in {"approve", "disable"} /\ req[r].name = n

(* While no two administrators' requests had an account loaded at a time,   *)
(* it agrees with what was decided about it, and the request that has it    *)
(* loaded knows what the row says.                                          *)
Agrees(n) ==
    Exists(n) /\ ~users[n].overlap =>
        /\ Usable(n) <=> users[n].admitted
        /\ users[n].active <=> users[n].status # "disabled"
        /\ \A r \in Requests : HasLoaded(r, n) =>
              /\ req[r].status = users[n].status /\ req[r].active = users[n].active
              /\ \A x \in Requests : HasLoaded(x, n) => x = r

(* Calls of bootstrap that have counted no accounts. *)
Booting == {r \in Requests : At(r, "bootstrap")}

BootCounted ==
    /\ booted + Cardinality(Booting) <= Cardinality(Requests)
    /\ booted > 0 => ~NoUsers

AccountsInv == /\ TypeOK /\ (\A r \in Requests : Gathered(r))
               /\ ChallengeCounted /\ InviteCounted
               /\ (\A n \in Names : Agrees(n)) /\ BootCounted

-----------------------------------------------------------------------------
(* Steps of the requests. *)

(* A request that has ended. *)
LEMMA IdleRequest == Idle \in Request /\ Idle.pc = "idle"
  BY DEF Idle, Request, Labels, Modes, Statuses, Roles

(* A step of request r, which becomes q. *)
Becomes(r, q) == /\ q \in Request /\ req' \in [Requests -> Request] /\ req'[r] = q
                 /\ \A x \in Requests \ {r} : req'[x] = req[x]

LEMMA GoesBecomes ==
    ASSUME TypeOK, NEW r \in Requests, NEW q \in Request, Goes(r, q)
    PROVE  Becomes(r, q)
  BY DEF TypeOK, Goes, Becomes

(* A request that has the payload of its challenge passes or ends. *)
LEMMA Verified ==
    ASSUME TypeOK, NEW r \in Requests, NEW good \in BOOLEAN, Verify(r, good)
    PROVE  /\ \E q : Becomes(r, q) /\ (q.pc = "idle" \/ (q.pc = "mode" /\ q.invite = None))
           /\ spent' \in {spent, [spent EXCEPT ![req[r].challenge] = @ + 1]}
  <1> DEFINE q == IF good THEN [Idle EXCEPT !.pc = "mode"] ELSE Idle
  <1>1. q \in Request /\ (q.pc = "idle" \/ (q.pc = "mode" /\ q.invite = None))
    BY IdleRequest DEF Idle, Request, Labels, Modes, Statuses, Roles
  <1>2. Goes(r, q) /\ spent' \in {spent, [spent EXCEPT ![req[r].challenge] = @ + 1]}
    BY DEF Verify
  <1> HIDE DEF q
  <1> QED BY <1>1, <1>2, GoesBecomes

(* Where each step of a registration leads. *)
LEMMA RegistrationSteps ==
    ASSUME TypeOK, NEW r \in Requests
    PROVE  /\ \A c \in Challenges : Register(r, c) =>
                 \E q : Becomes(r, q) /\ At(r, "idle") /\ q.pc = "pop" /\ q.challenge = c
           /\ \A good \in BOOLEAN : PopChallenge(r, good) =>
                 \E q : /\ Becomes(r, q) /\ At(r, "pop")
                        /\ \/ q.pc = "idle" /\ UNCHANGED <<challenges, spent>>
                           \/ /\ q.pc = "delete" /\ q.challenge = req[r].challenge /\ useRedis
                              /\ challenges[q.challenge] = "stored" /\ UNCHANGED <<challenges, spent>>
                           \/ /\ q.pc = "idle" \/ (q.pc = "mode" /\ q.invite = None)
                              /\ ~useRedis /\ challenges[req[r].challenge] = "stored"
                              /\ challenges' = [challenges EXCEPT ![req[r].challenge] = "gone"]
                              /\ spent' \in {spent, [spent EXCEPT ![req[r].challenge] = @ + 1]}
           /\ \A good \in BOOLEAN : DeleteChallenge(r, good) =>
                 \E q : /\ Becomes(r, q) /\ At(r, "delete")
                        /\ q.pc = "idle" \/ (q.pc = "mode" /\ q.invite = None)
                        /\ challenges' = [challenges EXCEPT ![req[r].challenge] = "gone"]
                        /\ spent' \in {spent, [spent EXCEPT ![req[r].challenge] = @ + 1]}
           /\ ReadMode(r) =>
                 \E q : /\ Becomes(r, q) /\ At(r, "mode")
                        /\ q.pc = "idle" \/ (q.pc = "unique" /\ q.invite = req[r].invite)
           /\ \A n \in Names : EnsureUserUnique(r, n) =>
                 \E q : /\ Becomes(r, q) /\ At(r, "unique")
                        /\ \/ q.pc = "idle"
                           \/ /\ q.name = n /\ q.mode = req[r].mode /\ q.invite = req[r].invite
                              /\ q.pc = IF q.mode = "invite" THEN "invite" ELSE "register"
           /\ \A i \in Invites : GetUsableInvite(r, i) =>
                 \E q : /\ Becomes(r, q) /\ At(r, "invite") /\ q.pc = "register"
                        /\ q.invite = i /\ q.used = invites[i].used
                        /\ q.name = req[r].name /\ q.mode = req[r].mode
           /\ NoUsableInvite(r) \/ CommitRegistration(r) \/ Stop(r) => Becomes(r, Idle)
  <1>1. req[r] \in Request /\ mode \in Modes
    BY DEF TypeOK
  <1>2. ASSUME NEW c \in Challenges, Register(r, c)
        PROVE  \E q : Becomes(r, q) /\ At(r, "idle") /\ q.pc = "pop" /\ q.challenge = c
    <2> DEFINE q == [Idle EXCEPT !.pc = "pop", !.challenge = c]
    <2>1. Goes(r, q) /\ At(r, "idle")
      BY <1>2 DEF Register, Begins
    <2>2. q \in Request /\ q.pc = "pop" /\ q.challenge = c
      BY DEF Idle, Request, Labels, Modes, Statuses, Roles
    <2> HIDE DEF q
    <2> QED BY <2>1, <2>2, GoesBecomes
  <1>3. ASSUME NEW good \in BOOLEAN, PopChallenge(r, good)
        PROVE  \E q : /\ Becomes(r, q) /\ At(r, "pop")
                      /\ \/ q.pc = "idle" /\ UNCHANGED <<challenges, spent>>
                         \/ /\ q.pc = "delete" /\ q.challenge = req[r].challenge /\ useRedis
                            /\ challenges[q.challenge] = "stored" /\ UNCHANGED <<challenges, spent>>
                         \/ /\ q.pc = "idle" \/ (q.pc = "mode" /\ q.invite = None)
                            /\ ~useRedis /\ challenges[req[r].challenge] = "stored"
                            /\ challenges' = [challenges EXCEPT ![req[r].challenge] = "gone"]
                            /\ spent' \in {spent, [spent EXCEPT ![req[r].challenge] = @ + 1]}
    <2>1. CASE challenges[req[r].challenge] # "stored"
      BY <1>3, <2>1, IdleRequest, GoesBecomes DEF PopChallenge, Ends
    <2>2. CASE challenges[req[r].challenge] = "stored" /\ useRedis
      <3> DEFINE q == [req[r] EXCEPT !.pc = "delete"]
      <3>1. Goes(r, q) /\ At(r, "pop") /\ UNCHANGED <<challenges, spent>>
        BY <1>3, <2>2 DEF PopChallenge
      <3>2. q \in Request /\ q.pc = "delete" /\ q.challenge = req[r].challenge
        BY <1>1 DEF Request, Labels
      <3> HIDE DEF q
      <3> QED BY <2>2, <3>1, <3>2, GoesBecomes
    <2>3. CASE challenges[req[r].challenge] = "stored" /\ ~useRedis
      BY <1>3, <2>3, Verified DEF PopChallenge
    <2> QED BY <2>1, <2>2, <2>3
  <1>4. ASSUME NEW good \in BOOLEAN, DeleteChallenge(r, good)
        PROVE  \E q : /\ Becomes(r, q) /\ At(r, "delete")
                      /\ q.pc = "idle" \/ (q.pc = "mode" /\ q.invite = None)
                      /\ challenges' = [challenges EXCEPT ![req[r].challenge] = "gone"]
                      /\ spent' \in {spent, [spent EXCEPT ![req[r].challenge] = @ + 1]}
    BY <1>4, Verified DEF DeleteChallenge
  <1>5. ASSUME ReadMode(r)
        PROVE  \E q : /\ Becomes(r, q) /\ At(r, "mode")
                      /\ q.pc = "idle" \/ (q.pc = "unique" /\ q.invite = req[r].invite)
    <2>1. CASE mode = "disabled"
      BY <1>5, <2>1, IdleRequest, GoesBecomes DEF ReadMode
    <2>2. CASE mode # "disabled"
      <3> DEFINE q == [req[r] EXCEPT !.pc = "unique", !.mode = mode]
      <3>1. Goes(r, q) /\ At(r, "mode")
        BY <1>5, <2>2 DEF ReadMode
      <3>2. q \in Request /\ q.pc = "unique" /\ q.invite = req[r].invite
        BY <1>1 DEF Request, Labels
      <3> HIDE DEF q
      <3> QED BY <3>1, <3>2, GoesBecomes
    <2> QED BY <2>1, <2>2
  <1>6. ASSUME NEW n \in Names, EnsureUserUnique(r, n)
        PROVE  \E q : /\ Becomes(r, q) /\ At(r, "unique")
                      /\ \/ q.pc = "idle"
                         \/ /\ q.name = n /\ q.mode = req[r].mode /\ q.invite = req[r].invite
                            /\ q.pc = IF q.mode = "invite" THEN "invite" ELSE "register"
    <2>1. CASE Exists(n)
      BY <1>6, <2>1, IdleRequest, GoesBecomes DEF EnsureUserUnique
    <2>2. CASE ~Exists(n)
      <3> DEFINE l == IF req[r].mode = "invite" THEN "invite" ELSE "register"
                 q == [req[r] EXCEPT !.pc = l, !.name = n]
      <3>1. l \in Labels
        BY DEF Labels
      <3>2. Goes(r, q) /\ At(r, "unique")
        BY <1>6, <2>2 DEF EnsureUserUnique
      <3> HIDE DEF l
      <3>3. q \in Request /\ q.pc = l /\ q.name = n /\ q.mode = req[r].mode /\ q.invite = req[r].invite
        BY <1>1, <3>1 DEF Request
      <3> HIDE DEF q
      <3> QED BY <3>2, <3>3, GoesBecomes DEF l
    <2> QED BY <2>1, <2>2
  <1>7. ASSUME NEW i \in Invites, GetUsableInvite(r, i)
        PROVE  \E q : /\ Becomes(r, q) /\ At(r, "invite") /\ q.pc = "register"
                      /\ q.invite = i /\ q.used = invites[i].used
                      /\ q.name = req[r].name /\ q.mode = req[r].mode
    <2>1. invites[i].used \in Nat
      BY AccountsAssumption DEF TypeOK, Invite
    <2> DEFINE q == [req[r] EXCEPT !.pc = "register", !.invite = i, !.used = invites[i].used]
    <2>2. Goes(r, q) /\ At(r, "invite")
      BY <1>7 DEF GetUsableInvite
    <2>3. /\ q \in Request /\ q.pc = "register" /\ q.invite = i /\ q.used = invites[i].used
          /\ q.name = req[r].name /\ q.mode = req[r].mode
      BY <1>1, <2>1 DEF Request, Labels
    <2> HIDE DEF q
    <2> QED BY <2>2, <2>3, GoesBecomes
  <1>8. ASSUME NoUsableInvite(r) \/ CommitRegistration(r) \/ Stop(r) PROVE Becomes(r, Idle)
    BY <1>8, IdleRequest, GoesBecomes DEF NoUsableInvite, CommitRegistration, Stop, Ends
  <1> QED BY <1>2, <1>3, <1>4, <1>5, <1>6, <1>7, <1>8

(* Where each step of an administrator's request leads. *)
LEMMA AdministrationSteps ==
    ASSUME TypeOK, NEW r \in Requests
    PROVE  /\ \A n \in Names, c \in Creations : Bootstrap(r, n, c[1], c[2]) =>
                 \E q : Becomes(r, q) /\ At(r, "idle") /\ q.pc = "bootstrap" /\ q.name = n
           /\ \A n \in Names, c \in Creations : CreateUser(r, n, c[1], c[2]) =>
                 \E q : Becomes(r, q) /\ At(r, "idle") /\ q.pc = "create" /\ q.name = n
           /\ \A n \in Names, label \in {"approve", "disable"} : LoadUser(r, n, label) =>
                 \E q : /\ Becomes(r, q) /\ At(r, "idle") /\ q.pc = label /\ q.name = n
                        /\ q.status = users[n].status /\ q.active = users[n].active
           /\ CommitUser(r) \/ ApproveUser(r) \/ DisableUser(r) => Becomes(r, Idle)
  <1>1. ASSUME NEW n \in Names, NEW c \in Creations, NEW l \in {"bootstrap", "create"},
               Begins(r, [Idle EXCEPT !.pc = l, !.name = n, !.role = c[1], !.status = c[2]])
        PROVE  \E q : Becomes(r, q) /\ At(r, "idle") /\ q.pc = l /\ q.name = n
    <2>1. c[1] \in Roles /\ c[2] \in Statuses /\ l \in Labels
      BY AccountsAssumption DEF Labels
    <2> DEFINE q == [Idle EXCEPT !.pc = l, !.name = n, !.role = c[1], !.status = c[2]]
    <2>2. Goes(r, q) /\ At(r, "idle")
      BY <1>1 DEF Begins
    <2>3. q \in Request /\ q.pc = l /\ q.name = n
      BY <2>1 DEF Idle, Request, Modes
    <2> HIDE DEF q
    <2> QED BY <2>2, <2>3, GoesBecomes
  <1>2. ASSUME NEW n \in Names, NEW label \in {"approve", "disable"}, LoadUser(r, n, label)
        PROVE  \E q : /\ Becomes(r, q) /\ At(r, "idle") /\ q.pc = label /\ q.name = n
                      /\ q.status = users[n].status /\ q.active = users[n].active
    <2>1. users[n].status \in Statuses /\ users[n].active \in BOOLEAN /\ label \in Labels
      BY DEF TypeOK, User, Labels
    <2> DEFINE q == [Idle EXCEPT !.pc = label, !.name = n, !.status = users[n].status,
                                 !.active = users[n].active]
    <2>2. Goes(r, q) /\ At(r, "idle")
      BY <1>2 DEF LoadUser, Begins
    <2>3. /\ q \in Request /\ q.pc = label /\ q.name = n
          /\ q.status = users[n].status /\ q.active = users[n].active
      BY <2>1 DEF Idle, Request, Modes, Roles
    <2> HIDE DEF q
    <2> QED BY <2>2, <2>3, GoesBecomes
  <1>3. ASSUME CommitUser(r) \/ ApproveUser(r) \/ DisableUser(r) PROVE Becomes(r, Idle)
    BY <1>3, IdleRequest, GoesBecomes DEF CommitUser, ApproveUser, DisableUser, SaveUser, Ends
  <1> QED BY <1>1, <1>2, <1>3 DEF Bootstrap, CreateUser
-----------------------------------------------------------------------------
(* What steps do to rows. *)

(* A new account. *)
LEMMA InsertedUser ==
    ASSUME TypeOK, NEW n \in Names, NEW role \in Roles, NEW status \in Statuses,
           NEW admitted \in BOOLEAN,
           users' = [users EXCEPT ![n] = [role |-> role, status |-> status, active |-> status # "disabled",
                                          admitted |-> admitted, overlap |-> FALSE]]
    PROVE  /\ users' \in [Names -> User]
           /\ users'[n].role = role /\ users'[n].status = status
           /\ users'[n].active = (status # "disabled") /\ users'[n].admitted = admitted
           /\ users'[n].overlap = FALSE
           /\ \A m \in Names \ {n} : users'[m] = users[m]
  BY DEF TypeOK, User

(* An account that an administrator's request loads. *)
LEMMA LoadedUser ==
    ASSUME TypeOK, NEW r \in Requests, NEW n \in Names, NEW label \in {"approve", "disable"},
           LoadUser(r, n, label)
    PROVE  /\ users' \in [Names -> User]
           /\ users'[n].role = users[n].role /\ users'[n].status = users[n].status
           /\ users'[n].active = users[n].active /\ users'[n].admitted = users[n].admitted
           /\ users'[n].overlap = (users[n].overlap \/ \E q \in Requests : HasLoaded(q, n))
           /\ \A m \in Names \ {n} : users'[m] = users[m]
  <1> DEFINE b == \E q \in Requests : req[q].pc \in {"approve", "disable"} /\ req[q].name = n
             x == [users[n] EXCEPT !.overlap = users[n].overlap \/ b]
  <1>1. users[n] \in User /\ users \in [Names -> User] /\ b \in BOOLEAN
    BY DEF TypeOK
  <1>2. users' = [users EXCEPT ![n] = x]
    BY DEF LoadUser
  <1> HIDE DEF b
  <1>3. /\ x \in User /\ x.role = users[n].role /\ x.status = users[n].status
        /\ x.active = users[n].active /\ x.admitted = users[n].admitted
        /\ x.overlap = (users[n].overlap \/ b)
    BY <1>1 DEF User
  <1> HIDE DEF x
  <1>4. b <=> \E q \in Requests : HasLoaded(q, n)
    BY DEF b, HasLoaded
  <1> QED BY <1>1, <1>2, <1>3, <1>4

(* An account that an administrator's request saves. *)
LEMMA SavedUser ==
    ASSUME TypeOK, NEW r \in Requests, NEW status \in Statuses, NEW active \in BOOLEAN,
           req[r].name \in Names, SaveUser(r, status, active)
    PROVE  /\ users' \in [Names -> User]
           /\ users'[req[r].name].role = users[req[r].name].role
           /\ users'[req[r].name].status = Write(req[r].status, status, users[req[r].name].status)
           /\ users'[req[r].name].active = Write(req[r].active, active, users[req[r].name].active)
           /\ users'[req[r].name].admitted = active
           /\ users'[req[r].name].overlap = users[req[r].name].overlap
           /\ \A m \in Names \ {req[r].name} : users'[m] = users[m]
  <1> DEFINE n  == req[r].name
             s  == Write(req[r].status, status, users[n].status)
             a  == Write(req[r].active, active, users[n].active)
             f1 == [users EXCEPT ![n].status = s]
             f2 == [f1 EXCEPT ![n].active = Write(req[r].active, active, @)]
             f3 == [f2 EXCEPT ![n].admitted = active]
  <1>1. users \in [Names -> User] /\ users[n] \in User /\ n \in Names
    BY DEF TypeOK
  <1>2. users' = f3
    BY DEF SaveUser
  <1>3. s \in Statuses /\ a \in BOOLEAN
    BY <1>1 DEF Write, User
  <1> HIDE DEF n, s
  <1>4. /\ f1 \in [Names -> User] /\ f1[n].role = users[n].role /\ f1[n].status = s
        /\ f1[n].active = users[n].active /\ f1[n].admitted = users[n].admitted
        /\ f1[n].overlap = users[n].overlap
        /\ \A m \in Names \ {n} : f1[m] = users[m]
    BY <1>1, <1>3 DEF User
  <1> HIDE DEF f1
  <1>5. f2 = [f1 EXCEPT ![n].active = a]
    BY <1>4
  <1> HIDE DEF f2, a
  <1>6. /\ f2 \in [Names -> User] /\ f2[n].role = users[n].role /\ f2[n].status = s
        /\ f2[n].active = a /\ f2[n].admitted = users[n].admitted
        /\ f2[n].overlap = users[n].overlap
        /\ \A m \in Names \ {n} : f2[m] = users[m]
    BY <1>1, <1>3, <1>4, <1>5 DEF User
  <1>7. /\ f3 \in [Names -> User] /\ f3[n].role = users[n].role /\ f3[n].status = s
        /\ f3[n].active = a /\ f3[n].admitted = active
        /\ f3[n].overlap = users[n].overlap
        /\ \A m \in Names \ {n} : f3[m] = users[m]
    BY <1>1, <1>3, <1>6 DEF User
  <1> HIDE DEF f3
  <1> QED BY <1>2, <1>7 DEF n, s, a

(* An invite that a registration loads. *)
LEMMA LoadedInvite ==
    ASSUME TypeOK, NEW r \in Requests, NEW i \in Invites, GetUsableInvite(r, i)
    PROVE  /\ invites' \in [Invites -> Invite]
           /\ invites'[i].status = "active" /\ invites[i].status = "active"
           /\ invites'[i].max = invites[i].max
           /\ invites'[i].used = invites[i].used /\ invites[i].used < invites[i].max
           /\ invites'[i].overlap = (invites[i].overlap \/ \E q \in Requests : HoldsInvite(q, i))
           /\ \A j \in Invites \ {i} : invites'[j] = invites[j]
  <1> DEFINE b == \E q \in Requests : HoldsInvite(q, i)
             x == [invites[i] EXCEPT !.overlap = invites[i].overlap \/ b]
  <1>1. invites[i] \in Invite /\ invites \in [Invites -> Invite] /\ b \in BOOLEAN
    BY DEF TypeOK
  <1>2. invites' = [invites EXCEPT ![i] = x] /\ invites[i].status = "active"
        /\ invites[i].used < invites[i].max
    BY DEF GetUsableInvite, InviteUsable
  <1> HIDE DEF b
  <1>3. /\ x \in Invite /\ x.status = invites[i].status /\ x.max = invites[i].max
        /\ x.used = invites[i].used /\ x.overlap = (invites[i].overlap \/ b)
    BY <1>1 DEF Invite
  <1> HIDE DEF x
  <1> QED BY <1>1, <1>2, <1>3 DEF b

(* What committing a registration does to the invite it came with. *)
LEMMA UsedInvite ==
    ASSUME TypeOK, NEW r \in Requests, Gathered(r), CommitRegistration(r)
    PROVE  \/ UNCHANGED <<invites, redeemed>>
           \/ LET i == req[r].invite
              IN /\ HoldsInvite(r, i) /\ i \in Invites
                 /\ invites' \in [Invites -> Invite] /\ redeemed' \in [Invites -> Nat]
                 /\ invites'[i].status = invites[i].status /\ invites'[i].max = invites[i].max
                 /\ invites'[i].used = req[r].used + 1 /\ req[r].used + 1 <= invites[i].max
                 /\ invites'[i].overlap = invites[i].overlap
                 /\ redeemed'[i] = redeemed[i] + 1
                 /\ \A j \in Invites \ {i} : invites'[j] = invites[j] /\ redeemed'[j] = redeemed[j]
  <1>1. CASE Exists(req[r].name) \/ req[r].mode # "invite"
    BY <1>1 DEF CommitRegistration
  <1>2. CASE ~Exists(req[r].name) /\ req[r].mode = "invite"
    <2> DEFINE i == req[r].invite
               x == [invites[i] EXCEPT !.used = req[r].used + 1]
    <2>1. /\ At(r, "register") /\ i \in Invites /\ req[r].used < invites[i].max
          /\ invites' = [invites EXCEPT ![i] = x] /\ redeemed' = [redeemed EXCEPT ![i] = @ + 1]
      BY <1>2 DEF CommitRegistration, Gathered, At
    <2>2. /\ invites \in [Invites -> Invite] /\ invites[i] \in Invite /\ req[r].used \in Nat
          /\ redeemed \in [Invites -> Nat]
      BY <2>1 DEF TypeOK, Request
    <2>3. req[r].used + 1 \in 0..MaxUses /\ req[r].used + 1 <= invites[i].max
      BY <2>1, <2>2, AccountsAssumption DEF Invite
    <2>4. /\ x \in Invite /\ x.status = invites[i].status /\ x.max = invites[i].max
          /\ x.used = req[r].used + 1 /\ x.overlap = invites[i].overlap
      BY <2>2, <2>3 DEF Invite
    <2> HIDE DEF x
    <2> QED BY <2>1, <2>2, <2>3, <2>4 DEF HoldsInvite
  <1> QED BY <1>1, <1>2

(* What administrators do to invites. *)
LEMMA AdministeredInvite ==
    ASSUME TypeOK, NEW i \in Invites
    PROVE  /\ \A max \in 1..MaxUses : CreateInvite(i, max) =>
                 /\ invites' \in [Invites -> Invite]
                 /\ invites[i] = NoRow
                 /\ invites'[i].status = "active" /\ invites'[i].max = max
                 /\ invites'[i].used = 0 /\ invites'[i].overlap = FALSE
                 /\ \A j \in Invites \ {i} : invites'[j] = invites[j]
           /\ DisableInvite(i) =>
                 /\ invites' \in [Invites -> Invite]
                 /\ invites'[i].status = "disabled" /\ invites'[i].max = invites[i].max
                 /\ invites'[i].used = invites[i].used /\ invites'[i].overlap = invites[i].overlap
                 /\ \A j \in Invites \ {i} : invites'[j] = invites[j]
  <1>1. invites \in [Invites -> Invite] /\ invites[i] \in Invite
    BY DEF TypeOK
  <1>2. ASSUME NEW max \in 1..MaxUses, CreateInvite(i, max)
        PROVE  /\ invites' \in [Invites -> Invite]
               /\ invites[i] = NoRow
               /\ invites'[i].status = "active" /\ invites'[i].max = max
               /\ invites'[i].used = 0 /\ invites'[i].overlap = FALSE
               /\ \A j \in Invites \ {i} : invites'[j] = invites[j]
    <2> DEFINE f == [invites EXCEPT ![i].status = "active"]
               g == [f EXCEPT ![i].max = max]
    <2>1. invites' = g /\ invites[i] = NoRow
      BY <1>2 DEF CreateInvite
    <2>2. /\ f \in [Invites -> Invite] /\ f[i].status = "active" /\ f[i].used = 0 /\ f[i].overlap = FALSE
          /\ \A j \in Invites \ {i} : f[j] = invites[j]
      BY <1>1, <2>1 DEF Invite, NoRow
    <2> HIDE DEF f
    <2>3. max \in 0..MaxUses
      BY AccountsAssumption
    <2>4. /\ g \in [Invites -> Invite] /\ g[i].status = "active" /\ g[i].used = 0 /\ g[i].overlap = FALSE
          /\ g[i].max = max /\ \A j \in Invites \ {i} : g[j] = invites[j]
      BY <2>2, <2>3 DEF Invite
    <2> HIDE DEF g
    <2> QED BY <2>1, <2>4
  <1>3. ASSUME DisableInvite(i)
        PROVE  /\ invites' \in [Invites -> Invite]
               /\ invites'[i].status = "disabled" /\ invites'[i].max = invites[i].max
               /\ invites'[i].used = invites[i].used /\ invites'[i].overlap = invites[i].overlap
               /\ \A j \in Invites \ {i} : invites'[j] = invites[j]
    <2>1. invites' = [invites EXCEPT ![i].status = "disabled"]
      BY <1>3 DEF DisableInvite
    <2> QED BY <1>1, <2>1 DEF Invite
  <1> QED BY <1>2, <1>3
-----------------------------------------------------------------------------
(* Types, and what requests have gathered. *)

(* What an account's row becomes in one step: accounts do not disappear,    *)
(* their roles stay, and only registration and creation add one.            *)
LEMMA AccountsStay ==
    ASSUME TypeOK, \A r \in Requests : Gathered(r), [Next]_vars
    PROVE  /\ users' \in [Names -> User]
           /\ \A n \in Names : Exists(n) => Exists(n)' /\ users'[n].role = users[n].role
  <1> DEFINE Goal == /\ users' \in [Names -> User]
                     /\ \A n \in Names : Exists(n) => Exists(n)' /\ users'[n].role = users[n].role
  <1> SUFFICES Goal
    OBVIOUS
  <1>0. users \in [Names -> User] /\ req \in [Requests -> Request]
    BY DEF TypeOK
  <1>1. CASE users' = users
    BY <1>0, <1>1 DEF Exists
  <1>2. ASSUME NEW r \in Requests, CommitRegistration(r) PROVE Goal
    <2>1. req[r].name \in Names /\ (req[r].invite # None) \in BOOLEAN
      BY <1>2 DEF Gathered, CommitRegistration, At
    <2>2. CASE ~Exists(req[r].name)
      <3> DEFINE s == IF req[r].mode = "invite" THEN "active" ELSE "pending_approval"
                 b == req[r].invite # None
      <3>1. InsertUser(req[r].name, "user", s, b) /\ s \in Statuses /\ "user" \in Roles /\ b \in BOOLEAN
        BY <1>2, <2>2 DEF CommitRegistration, Statuses, Roles
      <3> HIDE DEF s, b
      <3>2. users' \in [Names -> User] /\ users'[req[r].name].role = "user"
            /\ \A m \in Names \ {req[r].name} : users'[m] = users[m]
        BY <2>1, <3>1 DEF InsertUser, User, TypeOK, Roles
      <3> QED BY <2>2, <3>2 DEF Exists
    <2> QED BY <1>1, <1>2, <2>2 DEF CommitRegistration
  <1>3. ASSUME NEW r \in Requests, CommitUser(r) PROVE Goal
    <2>1. /\ req[r].name \in Names /\ req[r].role \in Roles /\ req[r].status \in Statuses
          /\ (req[r].status = "active") \in BOOLEAN
      BY <1>0, <1>3 DEF Gathered, CommitUser, Request
    <2>2. CASE ~Exists(req[r].name)
      <3> DEFINE b == req[r].status = "active"
      <3>1. InsertUser(req[r].name, req[r].role, req[r].status, b) /\ b \in BOOLEAN
        BY <1>3, <2>2 DEF CommitUser
      <3> HIDE DEF b
      <3>2. users' \in [Names -> User] /\ users'[req[r].name].role = req[r].role
            /\ \A m \in Names \ {req[r].name} : users'[m] = users[m]
        BY <2>1, <3>1, InsertedUser DEF InsertUser
      <3>3. req[r].role # "none"
        BY <2>1 DEF Roles
      <3> QED BY <2>2, <3>2, <3>3 DEF Exists
    <2> QED BY <1>1, <1>3, <2>2 DEF CommitUser
  <1>4. ASSUME NEW r \in Requests, NEW n \in Names, NEW label \in {"approve", "disable"},
               LoadUser(r, n, label)
        PROVE  Goal
    BY <1>4, LoadedUser DEF Exists
  <1>5. ASSUME NEW r \in Requests, ApproveUser(r) \/ DisableUser(r) PROVE Goal
    <2>1. req[r].name \in Names
      BY <1>5 DEF Gathered, ApproveUser, DisableUser, At
    <2>2. PICK s \in Statuses, a \in BOOLEAN : SaveUser(r, s, a)
      BY <1>5 DEF ApproveUser, DisableUser, Statuses
    <2> QED BY <2>1, <2>2, SavedUser DEF Exists
  <1>6. ASSUME NEW r \in Requests, Registers(r), ~CommitRegistration(r) PROVE users' = users
    BY <1>6 DEF Registers, Register, PopChallenge, DeleteChallenge, ReadMode, EnsureUserUnique,
                GetUsableInvite, NoUsableInvite
  <1>7. ASSUME NEW r \in Requests, NEW n \in Names, NEW role, NEW status,
               Bootstrap(r, n, role, status) \/ CreateUser(r, n, role, status)
        PROVE  users' = users
    BY <1>7 DEF Bootstrap, CreateUser
  <1>8. ASSUME NEW r \in Requests, Stop(r) PROVE users' = users
    BY <1>8 DEF Stop
  <1>9. ASSUME \/ \E c \in Challenges : CreateChallenge(c) \/ ExpireChallenge(c)
               \/ \E i \in Invites : DisableInvite(i) \/ \E max \in 1..MaxUses : CreateInvite(i, max)
               \/ \E m \in Modes : ChangeMode(m)
               \/ UNCHANGED vars
        PROVE  users' = users
    BY <1>9 DEF CreateChallenge, ExpireChallenge, DisableInvite, CreateInvite, ChangeMode, vars
  <1> HIDE DEF Goal
  <1> QED BY <1>1, <1>2, <1>3, <1>4, <1>5, <1>6, <1>7, <1>8, <1>9 DEF Next, Administers

(* What an invite's row becomes in one step: a row stays, and keeps its     *)
(* limit.                                                                   *)
LEMMA InvitesStay ==
    ASSUME TypeOK, \A r \in Requests : Gathered(r), [Next]_vars
    PROVE  /\ invites' \in [Invites -> Invite] /\ redeemed' \in [Invites -> Nat]
           /\ \A i \in Invites : invites[i].status # "none" =>
                 invites'[i].status # "none" /\ invites'[i].max = invites[i].max
  <1> DEFINE Goal == /\ invites' \in [Invites -> Invite] /\ redeemed' \in [Invites -> Nat]
                     /\ \A i \in Invites : invites[i].status # "none" =>
                           invites'[i].status # "none" /\ invites'[i].max = invites[i].max
  <1> SUFFICES Goal
    OBVIOUS
  <1>0. invites \in [Invites -> Invite] /\ redeemed \in [Invites -> Nat]
    BY DEF TypeOK
  <1>1. CASE UNCHANGED <<invites, redeemed>>
    BY <1>0, <1>1
  <1>2. ASSUME NEW r \in Requests, CommitRegistration(r) PROVE Goal
    BY <1>1, <1>2, UsedInvite
  <1>3. ASSUME NEW r \in Requests, NEW i \in Invites, GetUsableInvite(r, i) PROVE Goal
    <2>1. redeemed' = redeemed
      BY <1>3 DEF GetUsableInvite
    <2> QED BY <1>0, <1>3, <2>1, LoadedInvite
  <1>4. ASSUME NEW i \in Invites, DisableInvite(i) \/ \E max \in 1..MaxUses : CreateInvite(i, max)
        PROVE  Goal
    <2>1. redeemed' = redeemed
      BY <1>4 DEF DisableInvite, CreateInvite
    <2>2. CASE DisableInvite(i)
      BY <1>0, <2>1, <2>2, AdministeredInvite
    <2>3. ASSUME NEW max \in 1..MaxUses, CreateInvite(i, max) PROVE Goal
      <3>1. invites' \in [Invites -> Invite] /\ invites[i].status = "none"
            /\ \A j \in Invites \ {i} : invites'[j] = invites[j]
        <4>1. NoRow.status = "none"
          BY DEF NoRow
        <4> QED BY <2>3, <4>1, AdministeredInvite
      <3> QED BY <1>0, <2>1, <3>1
    <2> QED BY <1>4, <2>2, <2>3
  <1>5. ASSUME NEW r \in Requests, Registers(r), ~CommitRegistration(r),
               \A i \in Invites : ~GetUsableInvite(r, i)
        PROVE  UNCHANGED <<invites, redeemed>>
    BY <1>5 DEF Registers, Register, PopChallenge, DeleteChallenge, ReadMode, EnsureUserUnique, NoUsableInvite
  <1>6. ASSUME NEW r \in Requests, Administers(r) \/ Stop(r) PROVE UNCHANGED <<invites, redeemed>>
    BY <1>6 DEF Administers, Bootstrap, CreateUser, CommitUser, LoadUser, ApproveUser, DisableUser,
                SaveUser, Stop
  <1>7. ASSUME \/ \E c \in Challenges : CreateChallenge(c) \/ ExpireChallenge(c)
               \/ \E m \in Modes : ChangeMode(m)
               \/ UNCHANGED vars
        PROVE  UNCHANGED <<invites, redeemed>>
    BY <1>7 DEF CreateChallenge, ExpireChallenge, ChangeMode, vars
  <1> HIDE DEF Goal
  <1> QED BY <1>1, <1>2, <1>3, <1>4, <1>5, <1>6, <1>7 DEF Next

(* Requests are changed by their own steps only. *)
LEMMA RequestsMove ==
    ASSUME TypeOK, [Next]_vars
    PROVE  \/ req' = req
           \/ \E r \in Requests, q \in Request : Becomes(r, q) /\ (Registers(r) \/ Administers(r) \/ Stop(r))
  <1>1. ASSUME NEW r \in Requests, Registers(r) PROVE \E q : Becomes(r, q)
    BY <1>1, RegistrationSteps DEF Registers
  <1>2. ASSUME NEW r \in Requests, Administers(r) PROVE \E q : Becomes(r, q)
    BY <1>2, AdministrationSteps DEF Administers
  <1>3. ASSUME NEW r \in Requests, Stop(r) PROVE \E q : Becomes(r, q)
    BY <1>3, RegistrationSteps
  <1>4. ASSUME \/ \E c \in Challenges : CreateChallenge(c) \/ ExpireChallenge(c)
               \/ \E i \in Invites : DisableInvite(i) \/ \E max \in 1..MaxUses : CreateInvite(i, max)
               \/ \E m \in Modes : ChangeMode(m)
               \/ UNCHANGED vars
        PROVE  req' = req
    BY <1>4 DEF CreateChallenge, ExpireChallenge, DisableInvite, CreateInvite, ChangeMode, vars
  <1>5. \A r, q : Becomes(r, q) => q \in Request
    BY DEF Becomes
  <1> QED BY <1>1, <1>2, <1>3, <1>4, <1>5 DEF Next

(* Every step keeps the types. *)
LEMMA TypeInductive ==
    ASSUME TypeOK, \A r \in Requests : Gathered(r), [Next]_vars
    PROVE  TypeOK'
  <1>1. req' \in [Requests -> Request]
    BY RequestsMove DEF TypeOK, Becomes
  <1>2. challenges' \in [Challenges -> {"none", "stored", "gone"}] /\ spent' \in [Challenges -> Nat]
    <2>1. challenges \in [Challenges -> {"none", "stored", "gone"}] /\ spent \in [Challenges -> Nat]
      BY DEF TypeOK
    <2>2. CASE UNCHANGED <<challenges, spent>>
      BY <2>1, <2>2
    <2>3. ASSUME NEW r \in Requests, NEW good \in BOOLEAN, PopChallenge(r, good) \/ DeleteChallenge(r, good)
          PROVE  /\ challenges' \in [Challenges -> {"none", "stored", "gone"}]
                 /\ spent' \in [Challenges -> Nat]
      <3>1. req[r].challenge \in Challenges
        BY <2>3 DEF PopChallenge, DeleteChallenge, Gathered, At
      <3> QED BY <2>1, <2>3, <3>1 DEF PopChallenge, DeleteChallenge, Verify
    <2>4. ASSUME NEW c \in Challenges, CreateChallenge(c) \/ ExpireChallenge(c)
          PROVE  /\ challenges' \in [Challenges -> {"none", "stored", "gone"}]
                 /\ spent' \in [Challenges -> Nat]
      BY <2>1, <2>4 DEF CreateChallenge, ExpireChallenge
    <2>5. ASSUME NEW r \in Requests, Registers(r),
                 \A good \in BOOLEAN : ~PopChallenge(r, good) /\ ~DeleteChallenge(r, good)
          PROVE  UNCHANGED <<challenges, spent>>
      BY <2>5 DEF Registers, Register, ReadMode, EnsureUserUnique, GetUsableInvite, NoUsableInvite,
                  CommitRegistration
    <2>6. ASSUME NEW r \in Requests, Administers(r) \/ Stop(r) PROVE UNCHANGED <<challenges, spent>>
      BY <2>6 DEF Administers, Bootstrap, CreateUser, CommitUser, LoadUser, ApproveUser, DisableUser,
                  SaveUser, Stop
    <2>7. ASSUME \/ \E i \in Invites : DisableInvite(i) \/ \E max \in 1..MaxUses : CreateInvite(i, max)
                 \/ \E m \in Modes : ChangeMode(m)
                 \/ UNCHANGED vars
          PROVE  UNCHANGED <<challenges, spent>>
      BY <2>7 DEF DisableInvite, CreateInvite, ChangeMode, vars
    <2> QED BY <2>2, <2>3, <2>4, <2>5, <2>6, <2>7 DEF Next
  <1>3. useRedis' \in BOOLEAN /\ mode' \in Modes /\ booted' \in Nat /\ started' \in Nat
    <2>1. useRedis \in BOOLEAN /\ mode \in Modes /\ booted \in Nat /\ started \in Nat
      BY DEF TypeOK
    <2>2. ASSUME NEW r \in Requests, Registers(r) \/ Stop(r)
          PROVE  UNCHANGED <<useRedis, mode, booted>> /\ started' \in {started, started + 1}
      BY <2>2 DEF Registers, Register, PopChallenge, DeleteChallenge, ReadMode, EnsureUserUnique,
                  GetUsableInvite, NoUsableInvite, CommitRegistration, Stop, Begins
    <2>3. ASSUME NEW r \in Requests, Administers(r)
          PROVE  /\ UNCHANGED <<useRedis, mode>> /\ started' \in {started, started + 1}
                 /\ booted' \in {booted, booted + 1}
      BY <2>3 DEF Administers, Bootstrap, CreateUser, CommitUser, LoadUser, ApproveUser, DisableUser,
                  SaveUser, Begins
    <2>4. ASSUME \/ \E c \in Challenges : CreateChallenge(c) \/ ExpireChallenge(c)
                 \/ \E i \in Invites : DisableInvite(i) \/ \E max \in 1..MaxUses : CreateInvite(i, max)
                 \/ UNCHANGED vars
          PROVE  UNCHANGED <<useRedis, mode, booted, started>>
      BY <2>4 DEF CreateChallenge, ExpireChallenge, DisableInvite, CreateInvite, vars
    <2>5. ASSUME NEW m \in Modes, ChangeMode(m) PROVE mode' = m /\ UNCHANGED <<useRedis, booted, started>>
      BY <2>5 DEF ChangeMode
    <2> QED BY <2>1, <2>2, <2>3, <2>4, <2>5 DEF Next
  <1> QED BY <1>1, <1>2, <1>3, AccountsStay, InvitesStay DEF TypeOK

(* What requests have gathered stays true, whatever others do meanwhile. *)
LEMMA GatheredInductive ==
    ASSUME TypeOK, \A r \in Requests : Gathered(r), [Next]_vars
    PROVE  \A r \in Requests : Gathered(r)'
  <1>1. ASSUME NEW r \in Requests, req'[r] = req[r] PROVE Gathered(r)'
    BY <1>1, AccountsStay, InvitesStay DEF Gathered
  <1>2. ASSUME NEW r \in Requests, req'[r].pc = "idle" PROVE Gathered(r)'
    BY <1>2 DEF Gathered
  <1>3. ASSUME NEW r \in Requests, NEW q, Becomes(r, q), Gathered(r)' PROVE \A x \in Requests : Gathered(x)'
    BY <1>1, <1>3 DEF Becomes
  <1>4. ASSUME NEW r \in Requests, Registers(r) PROVE \A x \in Requests : Gathered(x)'
    <2>1. ASSUME NEW c \in Challenges, Register(r, c) PROVE \A x \in Requests : Gathered(x)'
      BY <1>3, <2>1, RegistrationSteps DEF Becomes, Gathered
    <2>2. ASSUME NEW good \in BOOLEAN, PopChallenge(r, good) PROVE \A x \in Requests : Gathered(x)'
      BY <1>3, <2>2, RegistrationSteps DEF Becomes, Gathered, At
    <2>3. ASSUME NEW good \in BOOLEAN, DeleteChallenge(r, good) PROVE \A x \in Requests : Gathered(x)'
      BY <1>3, <2>3, RegistrationSteps DEF Becomes, Gathered
    <2>4. ASSUME ReadMode(r) PROVE \A x \in Requests : Gathered(x)'
      BY <1>3, <2>4, RegistrationSteps DEF Becomes, Gathered, At
    <2>5. ASSUME NEW n \in Names, EnsureUserUnique(r, n) PROVE \A x \in Requests : Gathered(x)'
      BY <1>3, <2>5, RegistrationSteps DEF Becomes, Gathered, At
    <2>6. ASSUME NEW i \in Invites, GetUsableInvite(r, i) PROVE \A x \in Requests : Gathered(x)'
      <3>1. PICK q : /\ Becomes(r, q) /\ At(r, "invite") /\ q.pc = "register"
                     /\ q.invite = i /\ q.used = invites[i].used
                     /\ q.name = req[r].name /\ q.mode = req[r].mode
        BY <2>6, RegistrationSteps
      <3>2. invites'[i].status # "none" /\ q.used < invites'[i].max
        BY <2>6, <3>1, LoadedInvite
      <3>3. q.name \in Names /\ q.mode = "invite"
        BY <3>1 DEF Gathered, At
      <3> QED BY <1>3, <3>1, <3>2, <3>3 DEF Becomes, Gathered
    <2>7. ASSUME NoUsableInvite(r) \/ CommitRegistration(r) PROVE \A x \in Requests : Gathered(x)'
      BY <1>2, <1>3, <2>7, RegistrationSteps, IdleRequest DEF Becomes
    <2> QED BY <1>4, <2>1, <2>2, <2>3, <2>4, <2>5, <2>6, <2>7 DEF Registers
  <1>5. ASSUME NEW r \in Requests, Administers(r) PROVE \A x \in Requests : Gathered(x)'
    <2>1. ASSUME NEW n \in Names, NEW c \in Creations,
                 Bootstrap(r, n, c[1], c[2]) \/ CreateUser(r, n, c[1], c[2])
          PROVE  \A x \in Requests : Gathered(x)'
      BY <1>3, <2>1, AdministrationSteps DEF Becomes, Gathered
    <2>2. ASSUME NEW n \in Names, NEW label \in {"approve", "disable"}, LoadUser(r, n, label)
          PROVE  \A x \in Requests : Gathered(x)'
      <3>1. Exists(n)'
        BY <2>2, AccountsStay DEF LoadUser
      <3> QED BY <1>3, <2>2, <3>1, AdministrationSteps DEF Becomes, Gathered
    <2>3. ASSUME CommitUser(r) \/ ApproveUser(r) \/ DisableUser(r) PROVE \A x \in Requests : Gathered(x)'
      BY <1>2, <1>3, <2>3, AdministrationSteps, IdleRequest DEF Becomes
    <2> QED BY <1>5, <2>1, <2>2, <2>3 DEF Administers
  <1>6. ASSUME NEW r \in Requests, Stop(r) PROVE \A x \in Requests : Gathered(x)'
    BY <1>2, <1>3, <1>6, RegistrationSteps, IdleRequest DEF Becomes
  <1> QED BY <1>1, <1>4, <1>5, <1>6, RequestsMove
-----------------------------------------------------------------------------
(* A challenge is spent once, or as often as it was read. *)

(* Counting requests. *)
LEMMA Counting ==
    ASSUME NEW S, NEW T, S \subseteq T, T \subseteq Requests
    PROVE  /\ IsFiniteSet(S) /\ Cardinality(S) \in Nat /\ Cardinality(T) \in Nat
           /\ Cardinality(S) <= Cardinality(T) /\ Cardinality(T) <= Cardinality(Requests)
           /\ \A r \in T : Cardinality(T \ {r}) = Cardinality(T) - 1
  <1>1. IsFiniteSet(Requests)
    BY AccountsAssumption
  <1>2. IsFiniteSet(T) /\ Cardinality(T) <= Cardinality(Requests)
    BY <1>1, FS_Subset
  <1>3. IsFiniteSet(S) /\ Cardinality(S) <= Cardinality(T)
    BY <1>2, FS_Subset
  <1>4. Cardinality(S) \in Nat /\ Cardinality(T) \in Nat
    BY <1>2, <1>3, FS_CardinalityType
  <1>5. \A r \in T : Cardinality(T \ {r}) = Cardinality(T) - 1
    BY <1>2, FS_RemoveElement
  <1> QED BY <1>2, <1>3, <1>4, <1>5

(* Only POST /register touches challenges once they are created. *)
LEMMA ChallengesOfRegistrations ==
    ASSUME [Next]_vars, ~UNCHANGED <<challenges, spent>>
    PROVE  \/ \E r \in Requests, good \in BOOLEAN : PopChallenge(r, good) \/ DeleteChallenge(r, good)
           \/ \E c \in Challenges : CreateChallenge(c) \/ ExpireChallenge(c)
  <1>1. ASSUME NEW r \in Requests, Registers(r)
        PROVE  \E good \in BOOLEAN : PopChallenge(r, good) \/ DeleteChallenge(r, good)
    BY <1>1 DEF Registers, Register, ReadMode, EnsureUserUnique, GetUsableInvite, NoUsableInvite,
                CommitRegistration
  <1>2. ASSUME NEW r \in Requests, Administers(r) \/ Stop(r) PROVE FALSE
    BY <1>2 DEF Administers, Bootstrap, CreateUser, CommitUser, LoadUser, ApproveUser, DisableUser,
                SaveUser, Stop
  <1>3. ASSUME \/ \E i \in Invites : DisableInvite(i) \/ \E max \in 1..MaxUses : CreateInvite(i, max)
               \/ \E m \in Modes : ChangeMode(m)
               \/ UNCHANGED vars
        PROVE  FALSE
    BY <1>3 DEF DisableInvite, CreateInvite, ChangeMode, vars
  <1> QED BY <1>1, <1>2, <1>3 DEF Next

(* How a request that took a step reached its label. *)
LEMMA ReachedLabel ==
    ASSUME TypeOK, \A r \in Requests : Gathered(r), [Next]_vars, NEW r \in Requests, req'[r] # req[r]
    PROVE  /\ \A x \in Requests \ {r} : req'[x] = req[x]
           /\ \/ req'[r].pc \in {"idle", "pop", "mode", "unique", "invite"}
              \/ /\ req'[r].pc = "delete" /\ useRedis /\ UNCHANGED <<challenges, spent>>
                 /\ challenges[req'[r].challenge] = "stored"
              \/ req'[r].pc = "register" /\ req'[r].invite = None
              \/ \E i \in Invites : /\ GetUsableInvite(r, i) /\ req'[r].pc = "register"
                                    /\ req'[r].invite = i /\ req'[r].used = invites[i].used
              \/ \E n \in Names, c \in Creations : Bootstrap(r, n, c[1], c[2]) /\ req'[r].pc = "bootstrap"
              \/ \E n \in Names, c \in Creations : CreateUser(r, n, c[1], c[2]) /\ req'[r].pc = "create"
              \/ \E n \in Names, label \in {"approve", "disable"} :
                    /\ LoadUser(r, n, label) /\ req'[r].pc = label /\ req'[r].name = n
                    /\ req'[r].status = users[n].status /\ req'[r].active = users[n].active
  <1> DEFINE Reached ==
           \/ req'[r].pc \in {"idle", "pop", "mode", "unique", "invite"}
           \/ /\ req'[r].pc = "delete" /\ useRedis /\ UNCHANGED <<challenges, spent>>
              /\ challenges[req'[r].challenge] = "stored"
           \/ req'[r].pc = "register" /\ req'[r].invite = None
           \/ \E i \in Invites : /\ GetUsableInvite(r, i) /\ req'[r].pc = "register"
                                 /\ req'[r].invite = i /\ req'[r].used = invites[i].used
           \/ \E n \in Names, c \in Creations : Bootstrap(r, n, c[1], c[2]) /\ req'[r].pc = "bootstrap"
           \/ \E n \in Names, c \in Creations : CreateUser(r, n, c[1], c[2]) /\ req'[r].pc = "create"
           \/ \E n \in Names, label \in {"approve", "disable"} :
                 /\ LoadUser(r, n, label) /\ req'[r].pc = label /\ req'[r].name = n
                 /\ req'[r].status = users[n].status /\ req'[r].active = users[n].active
  <1>1. PICK y \in Requests, p \in Request : Becomes(y, p) /\ (Registers(y) \/ Administers(y) \/ Stop(y))
    BY RequestsMove
  <1>2. y = r /\ \A x \in Requests \ {r} : req'[x] = req[x]
    BY <1>1 DEF Becomes
  <1> SUFFICES Reached
    BY <1>2
  <1>3. ASSUME NEW q, Becomes(r, q) PROVE req'[r] = q
    BY <1>3 DEF Becomes
  <1>4. CASE Registers(r)
    <2>1. ASSUME NEW c \in Challenges, Register(r, c) PROVE Reached
      BY <1>3, <2>1, RegistrationSteps
    <2>2. ASSUME NEW good \in BOOLEAN, PopChallenge(r, good) PROVE Reached
      BY <1>3, <2>2, RegistrationSteps
    <2>3. ASSUME NEW good \in BOOLEAN, DeleteChallenge(r, good) PROVE Reached
      BY <1>3, <2>3, RegistrationSteps
    <2>4. ASSUME ReadMode(r) PROVE Reached
      BY <1>3, <2>4, RegistrationSteps
    <2>5. ASSUME NEW n \in Names, EnsureUserUnique(r, n) PROVE Reached
      <3>1. PICK q : /\ Becomes(r, q) /\ At(r, "unique")
                     /\ \/ q.pc = "idle"
                        \/ /\ q.invite = req[r].invite
                           /\ q.pc = IF q.mode = "invite" THEN "invite" ELSE "register"
        BY <2>5, RegistrationSteps
      <3>2. req[r].invite = None
        BY <3>1 DEF Gathered, At
      <3> QED BY <1>3, <3>1, <3>2
    <2>6. ASSUME NEW i \in Invites, GetUsableInvite(r, i) PROVE Reached
      BY <1>3, <2>6, RegistrationSteps
    <2>7. ASSUME NoUsableInvite(r) \/ CommitRegistration(r) PROVE Reached
      BY <1>3, <2>7, RegistrationSteps, IdleRequest
    <2> HIDE DEF Reached
    <2> QED BY <1>4, <2>1, <2>2, <2>3, <2>4, <2>5, <2>6, <2>7 DEF Registers
  <1>5. CASE Administers(r)
    <2>1. ASSUME NEW n \in Names, NEW c \in Creations, Bootstrap(r, n, c[1], c[2]) PROVE Reached
      BY <1>3, <2>1, AdministrationSteps
    <2>2. ASSUME NEW n \in Names, NEW c \in Creations, CreateUser(r, n, c[1], c[2]) PROVE Reached
      BY <1>3, <2>2, AdministrationSteps
    <2>3. ASSUME NEW n \in Names, NEW label \in {"approve", "disable"}, LoadUser(r, n, label) PROVE Reached
      BY <1>3, <2>3, AdministrationSteps
    <2>4. ASSUME CommitUser(r) \/ ApproveUser(r) \/ DisableUser(r) PROVE Reached
      BY <1>3, <2>4, AdministrationSteps, IdleRequest
    <2> HIDE DEF Reached
    <2> QED BY <1>5, <2>1, <2>2, <2>3, <2>4 DEF Administers
  <1>6. CASE Stop(r)
    <2>1. Becomes(r, Idle)
      BY <1>6, RegistrationSteps
    <2>2. req'[r].pc = "idle"
      BY <1>3, <2>1, IdleRequest
    <2> QED BY <2>2
  <1> QED BY <1>1, <1>2, <1>4, <1>5, <1>6

(* A request reaches "delete" by reading a stored challenge from Redis. *)
LEMMA ReadersOfStored ==
    ASSUME TypeOK, \A r \in Requests : Gathered(r), [Next]_vars,
           NEW r \in Requests, req'[r].pc = "delete", req'[r] # req[r]
    PROVE  useRedis /\ challenges[req'[r].challenge] = "stored" /\ UNCHANGED <<challenges, spent>>
  BY ReachedLabel

(* Every step keeps the count of who has passed or will. *)
LEMMA ChallengeCountedInductive ==
    ASSUME TypeOK, \A r \in Requests : Gathered(r), ChallengeCounted, [Next]_vars
    PROVE  ChallengeCounted'
  <1>1. TypeOK' /\ useRedis' = useRedis
    <2>1. useRedis' = useRedis
      BY DEF Next, Registers, Administers, Register, PopChallenge, DeleteChallenge, ReadMode,
             EnsureUserUnique, GetUsableInvite, NoUsableInvite, CommitRegistration, Bootstrap, CreateUser,
             CommitUser, LoadUser, ApproveUser, DisableUser, SaveUser, Stop, CreateChallenge,
             ExpireChallenge, DisableInvite, CreateInvite, ChangeMode, vars
    <2> QED BY <2>1, TypeInductive
  <1>2. ASSUME NEW c \in Challenges,
               challenges'[c] # "gone" => spent'[c] = 0,
               IF useRedis THEN spent'[c] + Cardinality(Readers(c)') <= Cardinality(Requests)
                           ELSE spent'[c] <= 1
        PROVE  /\ challenges'[c] # "gone" => spent'[c] = 0
               /\ IF useRedis' THEN spent'[c] + Cardinality(Readers(c)') <= Cardinality(Requests)
                               ELSE spent'[c] <= 1 /\ \A r \in Requests : ~At(r, "delete")'
    <2>1. ASSUME ~useRedis, NEW r \in Requests, At(r, "delete")' PROVE FALSE
      BY <2>1, ReadersOfStored DEF ChallengeCounted, At
    <2> QED BY <1>1, <1>2, <2>1
  <1>3. ASSUME NEW c \in Challenges, Readers(c)' \subseteq Readers(c), spent'[c] = spent[c],
               challenges'[c] # "gone" => challenges[c] # "gone"
        PROVE  /\ challenges'[c] # "gone" => spent'[c] = 0
               /\ IF useRedis THEN spent'[c] + Cardinality(Readers(c)') <= Cardinality(Requests)
                              ELSE spent'[c] <= 1
    <2>1. Readers(c) \subseteq Requests
      BY DEF Readers
    <2>2. /\ Cardinality(Readers(c)') \in Nat /\ Cardinality(Readers(c)) \in Nat
          /\ Cardinality(Requests) \in Nat
          /\ Cardinality(Readers(c)') <= Cardinality(Readers(c))
      BY <1>3, <2>1, Counting
    <2>3. spent[c] \in Nat
      BY DEF TypeOK
    <2> QED BY <1>3, <2>2, <2>3 DEF ChallengeCounted
  <1>4. ASSUME NEW c \in Challenges, ~(Readers(c)' \subseteq Readers(c))
        PROVE  /\ challenges'[c] # "gone" => spent'[c] = 0
               /\ IF useRedis THEN spent'[c] + Cardinality(Readers(c)') <= Cardinality(Requests)
                              ELSE spent'[c] <= 1
    <2>1. PICK r \in Requests : At(r, "delete")' /\ req'[r].challenge = c /\ r \notin Readers(c)
      BY <1>4 DEF Readers
    <2>2. req'[r].pc = "delete" /\ req'[r] # req[r]
      BY <2>1 DEF Readers, At
    <2>3. useRedis /\ challenges[c] = "stored" /\ UNCHANGED <<challenges, spent>>
      BY <2>1, <2>2, ReadersOfStored
    <2>4. spent'[c] = 0
      BY <2>3 DEF ChallengeCounted
    <2>5. Readers(c)' \subseteq Requests
      BY DEF Readers
    <2>6. /\ Cardinality(Readers(c)') \in Nat
          /\ Cardinality(Readers(c)') <= Cardinality(Requests)
      BY <2>5, Counting
    <2> QED BY <2>3, <2>4, <2>6
  <1>5. ASSUME NEW c \in Challenges, Readers(c)' \subseteq Readers(c), spent'[c] # spent[c]
        PROVE  /\ challenges'[c] # "gone" => spent'[c] = 0
               /\ IF useRedis THEN spent'[c] + Cardinality(Readers(c)') <= Cardinality(Requests)
                              ELSE spent'[c] <= 1
    <2>1. PICK r \in Requests, good \in BOOLEAN : PopChallenge(r, good) \/ DeleteChallenge(r, good)
      BY <1>5, ChallengesOfRegistrations DEF CreateChallenge, ExpireChallenge
    <2>2. spent[c] \in Nat /\ spent \in [Challenges -> Nat] /\ req[r].challenge \in Challenges
      BY <2>1 DEF TypeOK, PopChallenge, DeleteChallenge, Gathered, At
    <2>3. CASE PopChallenge(r, good)
      <3>1. /\ ~useRedis /\ challenges[req[r].challenge] = "stored"
            /\ challenges' = [challenges EXCEPT ![req[r].challenge] = "gone"]
            /\ spent' = [spent EXCEPT ![req[r].challenge] = @ + 1]
        BY <1>5, <2>3 DEF PopChallenge, Verify
      <3>2. req[r].challenge = c
        BY <1>5, <2>2, <3>1
      <3>3. spent[c] = 0 /\ challenges'[c] = "gone"
        BY <3>1, <3>2 DEF ChallengeCounted, TypeOK
      <3> QED BY <2>2, <3>1, <3>2, <3>3
    <2>4. CASE DeleteChallenge(r, good)
      <3>1. /\ At(r, "delete") /\ challenges' = [challenges EXCEPT ![req[r].challenge] = "gone"]
            /\ spent' = [spent EXCEPT ![req[r].challenge] = @ + 1]
        BY <1>5, <2>4 DEF DeleteChallenge, Verify
      <3>2. req[r].challenge = c
        BY <1>5, <2>2, <3>1
      <3>3. challenges'[c] = "gone" /\ spent'[c] = spent[c] + 1 /\ useRedis
        BY <2>2, <3>1, <3>2 DEF ChallengeCounted, TypeOK
      <3>4. r \in Readers(c) /\ Readers(c) \subseteq Requests
        BY <3>1, <3>2 DEF Readers
      <3>5. ~At(r, "delete")'
        BY <2>4, RegistrationSteps DEF Becomes, At
      <3>6. Readers(c)' \subseteq Readers(c) \ {r}
        BY <1>5, <3>5 DEF Readers
      <3>7. Readers(c) \ {r} \subseteq Requests
        BY <3>4
      <3>8. /\ Cardinality(Readers(c)') \in Nat /\ Cardinality(Readers(c)) \in Nat
            /\ Cardinality(Readers(c)') <= Cardinality(Readers(c) \ {r})
        BY <3>4, <3>6, <3>7, Counting
      <3>9. Cardinality(Readers(c) \ {r}) = Cardinality(Readers(c)) - 1
        BY <3>4, Counting
      <3>10. Cardinality(Requests) \in Nat
        BY <3>4, Counting
      <3> QED BY <2>2, <3>3, <3>8, <3>9, <3>10 DEF ChallengeCounted
    <2> QED BY <2>1, <2>3, <2>4
  <1>6. ASSUME NEW c \in Challenges, spent'[c] = spent[c], challenges'[c] # "gone"
        PROVE  challenges[c] # "gone"
    <2>1. challenges \in [Challenges -> {"none", "stored", "gone"}]
      BY DEF TypeOK
    <2>2. ASSUME NEW d \in Challenges, CreateChallenge(d) \/ ExpireChallenge(d) PROVE challenges[c] # "gone"
      BY <1>6, <2>1, <2>2 DEF CreateChallenge, ExpireChallenge
    <2>3. ASSUME NEW r \in Requests, NEW good \in BOOLEAN, PopChallenge(r, good) \/ DeleteChallenge(r, good)
          PROVE  challenges[c] # "gone"
      BY <1>6, <2>1, <2>3 DEF PopChallenge, DeleteChallenge
    <2> QED BY <1>6, <2>2, <2>3, ChallengesOfRegistrations
  <1>7. ASSUME NEW c \in Challenges
        PROVE  /\ challenges'[c] # "gone" => spent'[c] = 0
               /\ IF useRedis THEN spent'[c] + Cardinality(Readers(c)') <= Cardinality(Requests)
                              ELSE spent'[c] <= 1
    BY <1>3, <1>4, <1>5, <1>6
  <1> QED BY <1>2, <1>7 DEF ChallengeCounted
-----------------------------------------------------------------------------
(* An invite lets no more accounts in than it says. *)

(* Every step keeps the count of an invite. *)
LEMMA InviteCountedInductive ==
    ASSUME TypeOK, \A r \in Requests : Gathered(r), InviteCounted, [Next]_vars
    PROVE  InviteCounted'
  <1> DEFINE Counted(i) ==
           /\ invites'[i].used <= invites'[i].max
           /\ ~invites'[i].overlap =>
                 /\ redeemed'[i] <= invites'[i].used
                 /\ \A r \in Requests : req'[r].pc = "register" /\ req'[r].invite = i =>
                       /\ req'[r].used = invites'[i].used
                       /\ \A x \in Requests : req'[x].pc = "register" /\ req'[x].invite = i => x = r
  <1>1. SUFFICES ASSUME NEW i \in Invites PROVE Counted(i)
    BY DEF InviteCounted, HoldsInvite, At
  <1>2. i # None
    BY AccountsAssumption
  <1>3. ASSUME NEW r \in Requests, req'[r].pc = "register", req'[r].invite = i
        PROVE  \/ HoldsInvite(r, i) /\ req'[r] = req[r]
               \/ GetUsableInvite(r, i) /\ req'[r].used = invites[i].used
    <2>1. CASE req'[r] = req[r]
      BY <1>3, <2>1 DEF HoldsInvite, At
    <2>2. CASE req'[r] # req[r]
      BY <1>2, <1>3, <2>2, ReachedLabel
    <2> QED BY <2>1, <2>2
  <1>4. ASSUME \A r \in Requests : ~GetUsableInvite(r, i), redeemed'[i] = redeemed[i],
               invites'[i].used = invites[i].used, invites'[i].max = invites[i].max,
               invites'[i].overlap = invites[i].overlap
        PROVE  Counted(i)
    BY <1>3, <1>4 DEF InviteCounted, HoldsInvite, At
  <1>5. ASSUME NEW r \in Requests, CommitRegistration(r) PROVE Counted(i)
    <2>1. \A x \in Requests : ~GetUsableInvite(x, i)
      <3>1. ASSUME NEW x \in Requests, GetUsableInvite(x, i) PROVE FALSE
        <4>1. Becomes(r, Idle) /\ At(r, "register")
          BY <1>5, RegistrationSteps DEF CommitRegistration
        <4>2. At(x, "invite") /\ req'[x].pc = "register"
          BY <3>1, RegistrationSteps DEF Becomes
        <4>3. x # r /\ req'[x] = req[x]
          BY <4>1, <4>2 DEF Becomes, At
        <4> QED BY <4>2, <4>3 DEF At
      <3> QED BY <3>1
    <2>2. CASE i # req[r].invite \/ UNCHANGED <<invites, redeemed>>
      BY <1>4, <1>5, <2>1, <2>2, UsedInvite
    <2>3. CASE i = req[r].invite /\ ~UNCHANGED <<invites, redeemed>>
      <3>1. /\ HoldsInvite(r, i)
            /\ invites'[i].max = invites[i].max /\ invites'[i].used = req[r].used + 1
            /\ req[r].used + 1 <= invites[i].max /\ invites'[i].overlap = invites[i].overlap
            /\ redeemed'[i] = redeemed[i] + 1
        BY <1>5, <2>3, UsedInvite
      <3>2. req'[r].pc = "idle"
        BY <1>5, RegistrationSteps, IdleRequest DEF Becomes
      <3>3. invites[i].used \in Nat /\ redeemed[i] \in Nat
        BY DEF TypeOK, Invite
      <3>4. ASSUME ~invites[i].overlap
            PROVE  /\ redeemed[i] + 1 <= req[r].used + 1
                   /\ \A x \in Requests : ~(req'[x].pc = "register" /\ req'[x].invite = i)
        BY <1>3, <2>1, <3>1, <3>2, <3>3, <3>4 DEF InviteCounted
      <3> QED BY <3>1, <3>4
    <2> QED BY <2>2, <2>3
  <1>6. ASSUME NEW r \in Requests, NEW j \in Invites, GetUsableInvite(r, j) PROVE Counted(i)
    <2>1. redeemed' = redeemed
      BY <1>6 DEF GetUsableInvite
    <2>2. /\ req'[r].invite = j /\ req'[r].pc = "register" /\ At(r, "invite")
          /\ \A x \in Requests \ {r} : req'[x] = req[x]
      BY <1>6, RegistrationSteps DEF Becomes
    <2>3. ASSUME NEW x \in Requests, GetUsableInvite(x, i) PROVE x = r /\ i = j
      <3>1. At(x, "invite") /\ req'[x].pc = "register" /\ req'[x].invite = i
        BY <2>3, RegistrationSteps DEF Becomes
      <3> QED BY <2>2, <3>1 DEF At
    <2>4. CASE i # j
      BY <1>4, <1>6, <2>1, <2>3, <2>4, LoadedInvite
    <2>5. CASE i = j
      <3>1. /\ invites'[i].max = invites[i].max /\ invites'[i].used = invites[i].used
            /\ invites'[i].overlap = (invites[i].overlap \/ \E q \in Requests : HoldsInvite(q, i))
            /\ req'[r].used = invites[i].used
        <4>1. req'[r].used = invites[i].used
          BY <1>6, <2>5, RegistrationSteps DEF Becomes
        <4> QED BY <1>6, <2>5, <4>1, LoadedInvite
      <3>2. ASSUME ~invites'[i].overlap, NEW x \in Requests, req'[x].pc = "register", req'[x].invite = i
            PROVE  x = r
        BY <2>2, <3>1, <3>2 DEF HoldsInvite, At
      <3> QED BY <2>1, <3>1, <3>2 DEF InviteCounted
    <2> QED BY <2>4, <2>5
  <1>7. ASSUME NEW j \in Invites, DisableInvite(j) \/ \E max \in 1..MaxUses : CreateInvite(j, max)
        PROVE  Counted(i)
    <2>1. redeemed' = redeemed /\ req' = req
      BY <1>7 DEF DisableInvite, CreateInvite
    <2>2. \A x \in Requests : ~GetUsableInvite(x, i)
      BY <2>1, RegistrationSteps DEF Becomes, At
    <2>3. CASE DisableInvite(j)
      <3>1. /\ invites'[i].used = invites[i].used /\ invites'[i].max = invites[i].max
            /\ invites'[i].overlap = invites[i].overlap
        BY <2>3, AdministeredInvite
      <3> QED BY <1>4, <2>1, <2>2, <3>1
    <2>4. ASSUME NEW max \in 1..MaxUses, CreateInvite(j, max) PROVE Counted(i)
      <3>1. CASE i # j
        BY <1>4, <2>1, <2>2, <2>4, <3>1, AdministeredInvite
      <3>2. CASE i = j
        <4>1. /\ invites[i] = NoRow /\ invites'[i].max = max /\ invites'[i].used = 0
              /\ invites'[i].overlap = FALSE
          BY <2>4, <3>2, AdministeredInvite
        <4>2. invites[i].status = "none" /\ invites[i].overlap = FALSE /\ invites[i].used = 0
          BY <4>1 DEF NoRow
        <4>3. \A x \in Requests : ~HoldsInvite(x, i)
          BY <1>2, <4>2 DEF Gathered, HoldsInvite, At
        <4>4. redeemed[i] <= 0
          BY <4>2 DEF InviteCounted
        <4>5. \A x \in Requests : ~(req'[x].pc = "register" /\ req'[x].invite = i)
          BY <2>1, <4>3 DEF HoldsInvite, At
        <4> QED BY <2>1, <4>1, <4>4, <4>5
      <3> QED BY <3>1, <3>2
    <2> QED BY <1>7, <2>3, <2>4
  <1>8. ASSUME UNCHANGED <<invites, redeemed>>, \A r \in Requests : ~GetUsableInvite(r, i) PROVE Counted(i)
    BY <1>4, <1>8
  <1>9. ASSUME NEW r \in Requests, Registers(r), ~CommitRegistration(r),
               \A j \in Invites : ~GetUsableInvite(r, j)
        PROVE  UNCHANGED <<invites, redeemed>>
    BY <1>9 DEF Registers, Register, PopChallenge, DeleteChallenge, ReadMode, EnsureUserUnique, NoUsableInvite
  <1>10. ASSUME NEW r \in Requests, Administers(r) \/ Stop(r) PROVE UNCHANGED <<invites, redeemed>>
    BY <1>10 DEF Administers, Bootstrap, CreateUser, CommitUser, LoadUser, ApproveUser, DisableUser,
                 SaveUser, Stop
  <1>11. ASSUME \/ \E c \in Challenges : CreateChallenge(c) \/ ExpireChallenge(c)
                \/ \E m \in Modes : ChangeMode(m)
                \/ UNCHANGED vars
         PROVE  UNCHANGED <<invites, redeemed>>
    BY <1>11 DEF CreateChallenge, ExpireChallenge, ChangeMode, vars
  <1> HIDE DEF Counted
  <1> QED BY <1>5, <1>6, <1>7, <1>8, <1>9, <1>10, <1>11 DEF Next
-----------------------------------------------------------------------------
(* Who can use an account was let in. *)

(* What committing a registration or a creation does to the accounts. *)
LEMMA NewAccount ==
    ASSUME TypeOK, \A r \in Requests : Gathered(r),
           NEW r \in Requests, CommitRegistration(r) \/ CommitUser(r)
    PROVE  \/ users' = users
           \/ LET n == req[r].name
              IN /\ n \in Names /\ ~Exists(n) /\ users'[n].role # "none"
                 /\ users'[n].active <=> users'[n].status # "disabled"
                 /\ users'[n].admitted <=> users'[n].status = "active"
                 /\ users'[n].role = IF At(r, "register") THEN "user" ELSE req[r].role
                 /\ \A m \in Names \ {n} : users'[m] = users[m]
  <1> DEFINE n == req[r].name
  <1>0. users \in [Names -> User] /\ req[r] \in Request
    BY DEF TypeOK
  <1>1. n \in Names
    BY DEF Gathered, CommitRegistration, CommitUser, At
  <1>2. CASE CommitRegistration(r) /\ ~Exists(n)
    <2> DEFINE s == IF req[r].mode = "invite" THEN "active" ELSE "pending_approval"
               b == req[r].invite # None
    <2>1. InsertUser(n, "user", s, b) /\ At(r, "register")
      BY <1>2 DEF CommitRegistration
    <2>2. b <=> s = "active"
      BY <2>1, AccountsAssumption DEF Gathered, At
    <2>3. s # "disabled" /\ s \in Statuses /\ b \in BOOLEAN
      BY DEF Statuses
    <2> HIDE DEF s, b, n
    <2>4. /\ users'[n].role = "user" /\ users'[n].status = s /\ users'[n].active = (s # "disabled")
          /\ users'[n].admitted = b /\ \A m \in Names \ {n} : users'[m] = users[m]
      BY <1>0, <1>1, <2>1, <2>3 DEF InsertUser
    <2> QED BY <1>1, <1>2, <2>1, <2>2, <2>3, <2>4 DEF n
  <1>3. CASE CommitUser(r) /\ ~Exists(n)
    <2> DEFINE s == req[r].status
               b == req[r].status = "active"
    <2>1. /\ InsertUser(n, req[r].role, s, b) /\ ~At(r, "register") /\ b \in BOOLEAN
          /\ s \in Statuses /\ req[r].role \in Roles
      BY <1>0, <1>3 DEF CommitUser, At, Request
    <2>2. b <=> s = "active"
      OBVIOUS
    <2> HIDE DEF s, b, n
    <2>4. /\ users'[n].role = req[r].role /\ users'[n].status = s /\ users'[n].active = (s # "disabled")
          /\ users'[n].admitted = b /\ \A m \in Names \ {n} : users'[m] = users[m]
      BY <1>0, <1>1, <2>1 DEF InsertUser
    <2>5. users'[n].role # "none"
      BY <2>1, <2>4 DEF Roles
    <2> QED BY <1>1, <1>3, <2>1, <2>2, <2>4, <2>5 DEF n
  <1>4. CASE Exists(n)
    BY <1>4 DEF CommitRegistration, CommitUser
  <1> QED BY <1>2, <1>3, <1>4
(* Only these steps touch accounts. *)
LEMMA AccountSteps ==
    ASSUME [Next]_vars, users' # users
    PROVE  \E r \in Requests :
              \/ CommitRegistration(r) \/ CommitUser(r)
              \/ \E n \in Names, label \in {"approve", "disable"} : LoadUser(r, n, label)
              \/ ApproveUser(r) \/ DisableUser(r)
  <1>1. ASSUME NEW r \in Requests, Registers(r), ~CommitRegistration(r) PROVE FALSE
    BY <1>1 DEF Registers, Register, PopChallenge, DeleteChallenge, ReadMode, EnsureUserUnique,
                GetUsableInvite, NoUsableInvite
  <1>2. ASSUME NEW r \in Requests, NEW n \in Names, NEW role, NEW status,
               Bootstrap(r, n, role, status) \/ CreateUser(r, n, role, status)
        PROVE  FALSE
    BY <1>2 DEF Bootstrap, CreateUser
  <1>3. ASSUME NEW r \in Requests, Stop(r) PROVE FALSE
    BY <1>3 DEF Stop
  <1>4. ASSUME \/ \E c \in Challenges : CreateChallenge(c) \/ ExpireChallenge(c)
               \/ \E i \in Invites : DisableInvite(i) \/ \E max \in 1..MaxUses : CreateInvite(i, max)
               \/ \E m \in Modes : ChangeMode(m)
               \/ UNCHANGED vars
        PROVE  FALSE
    BY <1>4 DEF CreateChallenge, ExpireChallenge, DisableInvite, CreateInvite, ChangeMode, vars
  <1> QED BY <1>1, <1>2, <1>3, <1>4 DEF Next, Administers

(* Every step keeps accounts in agreement with what was decided. *)
LEMMA AgreesInductive ==
    ASSUME TypeOK, \A r \in Requests : Gathered(r), \A n \in Names : Agrees(n), [Next]_vars
    PROVE  \A n \in Names : Agrees(n)'
  <1> SUFFICES ASSUME NEW n \in Names PROVE Agrees(n)'
    OBVIOUS
  <1>0. users \in [Names -> User] /\ req \in [Requests -> Request]
    BY DEF TypeOK
  <1>1. ASSUME NEW r \in Requests, HasLoaded(r, n)', req'[r] # req[r]
        PROVE  /\ \E label \in {"approve", "disable"} : LoadUser(r, n, label)
               /\ req'[r].status = users[n].status /\ req'[r].active = users[n].active
    <2>1. req'[r].pc \in {"approve", "disable"} /\ req'[r].name = n
      BY <1>1 DEF HasLoaded
    <2> QED BY <1>1, <2>1, ReachedLabel
  <1>2. ASSUME users'[n] = users[n], \A r \in Requests : HasLoaded(r, n)' => req'[r] = req[r]
        PROVE  Agrees(n)'
    BY <1>2 DEF Agrees, Exists, Usable, HasLoaded
  <1>3. ASSUME NEW r \in Requests, NEW m \in Names, NEW label \in {"approve", "disable"},
               LoadUser(r, m, label)
        PROVE  Agrees(n)'
    <2>1. /\ At(r, "idle") /\ req'[r].pc = label /\ req'[r].name = m
          /\ req'[r].status = users[m].status /\ req'[r].active = users[m].active
          /\ \A x \in Requests \ {r} : req'[x] = req[x]
      BY <1>3, AdministrationSteps DEF Becomes
    <2>2. CASE m # n
      BY <1>2, <1>3, <2>1, <2>2, LoadedUser DEF HasLoaded
    <2>3. CASE m = n
      <3>1. /\ users'[n].role = users[n].role /\ users'[n].status = users[n].status
            /\ users'[n].active = users[n].active /\ users'[n].admitted = users[n].admitted
            /\ users'[n].overlap = (users[n].overlap \/ \E q \in Requests : HasLoaded(q, n))
        BY <1>3, <2>3, LoadedUser
      <3>2. ASSUME ~users'[n].overlap, NEW x \in Requests, HasLoaded(x, n)' PROVE x = r
        BY <2>1, <3>1, <3>2 DEF HasLoaded
      <3> QED BY <2>1, <2>3, <3>1, <3>2 DEF Agrees, Exists, Usable
    <2> QED BY <2>2, <2>3
  <1>4. ASSUME NEW r \in Requests, Becomes(r, Idle) PROVE \A x \in Requests : HasLoaded(x, n)' => x # r /\ req'[x] = req[x]
    BY <1>4, IdleRequest DEF Becomes, HasLoaded
  <1>5. ASSUME NEW r \in Requests, CommitRegistration(r) \/ CommitUser(r) PROVE Agrees(n)'
    <2>1. Becomes(r, Idle)
      BY <1>5, RegistrationSteps, AdministrationSteps
    <2>2. CASE users'[n] = users[n]
      BY <1>2, <1>4, <2>1, <2>2
    <2>3. CASE users'[n] # users[n]
      <3>1. /\ req[r].name = n /\ ~Exists(n)
            /\ users'[n].active <=> users'[n].status # "disabled"
            /\ users'[n].admitted <=> users'[n].status = "active"
        BY <1>5, <2>3, NewAccount
      <3>2. \A x \in Requests : ~HasLoaded(x, n)
        BY <3>1 DEF Gathered, HasLoaded
      <3>3. \A x \in Requests : ~HasLoaded(x, n)'
        BY <1>4, <2>1, <3>2 DEF HasLoaded
      <3> QED BY <3>1, <3>3 DEF Agrees, Usable
    <2> QED BY <2>2, <2>3
  <1>6. ASSUME NEW r \in Requests, ApproveUser(r) \/ DisableUser(r) PROVE Agrees(n)'
    <2>1. Becomes(r, Idle)
      BY <1>6, AdministrationSteps
    <2>2. PICK s \in Statuses, a \in BOOLEAN : /\ SaveUser(r, s, a)
                                               /\ (s = "active" /\ a) \/ (s = "disabled" /\ ~a)
      BY <1>6 DEF ApproveUser, DisableUser, Statuses
    <2>3. HasLoaded(r, req[r].name) /\ req[r].name \in Names /\ Exists(req[r].name)
      BY <1>6 DEF ApproveUser, DisableUser, At, HasLoaded, Gathered
    <2>4. CASE n # req[r].name
      BY <1>2, <1>4, <2>1, <2>2, <2>3, <2>4, SavedUser
    <2>5. CASE n = req[r].name
      <3>1. /\ users'[n].status = Write(req[r].status, s, users[n].status)
            /\ users'[n].active = Write(req[r].active, a, users[n].active)
            /\ users'[n].admitted = a /\ users'[n].overlap = users[n].overlap
        BY <2>2, <2>3, <2>5, SavedUser
      <3>2. ASSUME ~users[n].overlap
            PROVE  /\ users'[n].status = s /\ users'[n].active = a
                   /\ \A x \in Requests : ~HasLoaded(x, n)'
        <4>1. req[r].status = users[n].status /\ req[r].active = users[n].active
          BY <2>3, <2>5, <3>2 DEF Agrees
        <4>2. \A x \in Requests : HasLoaded(x, n) => x = r
          BY <2>3, <2>5, <3>2 DEF Agrees
        <4>3. \A x \in Requests : ~HasLoaded(x, n)'
          BY <1>4, <2>1, <4>2 DEF HasLoaded
        <4> QED BY <3>1, <4>1, <4>3 DEF Write
      <3> QED BY <2>2, <3>1, <3>2 DEF Agrees, Usable
    <2> QED BY <2>4, <2>5
  <1>7. CASE users' = users /\ \A r \in Requests, label \in {"approve", "disable"} : ~LoadUser(r, n, label)
    BY <1>1, <1>2, <1>7
  <1> QED BY <1>3, <1>5, <1>6, <1>7, AccountSteps

-----------------------------------------------------------------------------
(* Bootstrap closes. *)

(* Every step keeps the count of bootstrap calls. *)
LEMMA BootCountedInductive ==
    ASSUME TypeOK, \A r \in Requests : Gathered(r), BootCounted, [Next]_vars
    PROVE  BootCounted'
  <1>0. booted \in Nat /\ booted' \in Nat
    BY TypeInductive DEF TypeOK
  <1>1. ~NoUsers => ~NoUsers'
    BY AccountsStay DEF NoUsers
  <1>2. Booting \subseteq Requests /\ Booting' \subseteq Requests
    BY DEF Booting
  <1>3. ASSUME booted' # booted
        PROVE  /\ booted' = booted + 1 /\ ~NoUsers'
               /\ \E r \in Booting : Booting' \subseteq Booting \ {r}
    <2>1. PICK r \in Requests : CommitUser(r)
      BY <1>3 DEF Next, Registers, Administers, Register, PopChallenge, DeleteChallenge, ReadMode,
             EnsureUserUnique, GetUsableInvite, NoUsableInvite, CommitRegistration, Bootstrap, CreateUser,
             LoadUser, ApproveUser, DisableUser, SaveUser, Stop, CreateChallenge,
             ExpireChallenge, DisableInvite, CreateInvite, ChangeMode, vars
    <2>2. booted' = booted + 1 /\ At(r, "bootstrap") /\ ~Exists(req[r].name) /\ req[r].name \in Names
      BY <1>3, <2>1 DEF CommitUser, Gathered
    <2>3. Becomes(r, Idle)
      BY <2>1, AdministrationSteps
    <2>4. r \in Booting /\ Booting' \subseteq Booting \ {r}
      BY <2>2, <2>3, IdleRequest DEF Booting, Becomes, At
    <2>5. ~NoUsers'
      <3>1. req[r].role # "none"
        BY DEF TypeOK, Request, Roles
      <3>2. users'[req[r].name].role = req[r].role
        BY <2>1, <2>2 DEF CommitUser, InsertUser, TypeOK
      <3> QED BY <2>2, <3>1, <3>2 DEF NoUsers, Exists
    <2> QED BY <2>2, <2>4, <2>5
  <1>4. CASE booted' # booted
    <2>1. PICK r \in Booting : Booting' \subseteq Booting \ {r}
      BY <1>3, <1>4
    <2>2. Cardinality(Booting \ {r}) = Cardinality(Booting) - 1 /\ Cardinality(Booting) \in Nat
      BY <1>2, Counting
    <2>3. Cardinality(Booting') <= Cardinality(Booting \ {r}) /\ Cardinality(Booting') \in Nat
      BY <1>2, <2>1, Counting
    <2>4. Cardinality(Requests) \in Nat
      BY Counting
    <2> QED BY <1>0, <1>3, <1>4, <2>2, <2>3, <2>4 DEF BootCounted
  <1>5. CASE booted' = booted /\ Booting' \subseteq Booting
    <2>1. /\ Cardinality(Booting') <= Cardinality(Booting) /\ Cardinality(Booting') \in Nat
          /\ Cardinality(Booting) \in Nat
      BY <1>2, <1>5, Counting
    <2>2. Cardinality(Requests) \in Nat
      BY Counting
    <2> QED BY <1>0, <1>1, <1>5, <2>1, <2>2 DEF BootCounted
  <1>6. CASE booted' = booted /\ ~(Booting' \subseteq Booting)
    <2>1. PICK r \in Requests : At(r, "bootstrap")' /\ ~At(r, "bootstrap")
      BY <1>6 DEF Booting
    <2>2. NoUsers
      BY <2>1, ReachedLabel DEF At, Bootstrap
    <2>3. booted = 0
      BY <1>0, <2>2 DEF BootCounted
    <2>4. Cardinality(Booting') <= Cardinality(Requests) /\ Cardinality(Booting') \in Nat
      BY <1>2, Counting
    <2> QED BY <1>6, <2>3, <2>4 DEF BootCounted
  <1> QED BY <1>4, <1>5, <1>6
-----------------------------------------------------------------------------
(* The invariant, and what follows from it. *)

(* The invariant holds at the start and every step keeps it. *)
LEMMA AccountsInvariant == Spec => []AccountsInv
  <1>1. Init => AccountsInv
    <2> SUFFICES ASSUME Init PROVE AccountsInv
      OBVIOUS
    <2>1. TypeOK
      BY IdleRequest, AccountsAssumption DEF Init, TypeOK, Invite, NoRow, User, Nobody, Statuses
    <2>2. \A r \in Requests : req[r].pc = "idle"
      BY IdleRequest DEF Init
    <2>3. \A r \in Requests : Gathered(r)
      BY <2>2 DEF Gathered
    <2>4. \A c : Readers(c) = {}
      BY <2>2 DEF Readers, At
    <2>5. Booting = {}
      BY <2>2 DEF Booting, At
    <2>6. Cardinality({}) = 0 /\ Cardinality(Requests) \in Nat
      BY FS_EmptySet, Counting
    <2>7. ChallengeCounted
      BY <2>2, <2>4, <2>6 DEF ChallengeCounted, Init, At
    <2>8. InviteCounted
      <3>1. \A i \in Invites : invites[i].used = 0 /\ invites[i].max = 0 /\ redeemed[i] = 0
        BY DEF Init, NoRow
      <3> QED BY <2>2, <3>1 DEF InviteCounted, HoldsInvite, At
    <2>9. \A n \in Names : Agrees(n)
      BY DEF Agrees, Init, Exists, Nobody
    <2>10. BootCounted
      BY <2>5, <2>6 DEF BootCounted, Init
    <2> QED BY <2>1, <2>3, <2>7, <2>8, <2>9, <2>10 DEF AccountsInv
  <1>2. AccountsInv /\ [Next]_vars => AccountsInv'
    <2> SUFFICES ASSUME AccountsInv, [Next]_vars PROVE AccountsInv'
      OBVIOUS
    <2>1. /\ TypeOK /\ (\A r \in Requests : Gathered(r))
          /\ ChallengeCounted /\ InviteCounted
          /\ (\A n \in Names : Agrees(n)) /\ BootCounted
      BY DEF AccountsInv
    <2>2. TypeOK' /\ \A r \in Requests : Gathered(r)'
      BY <2>1, TypeInductive, GatheredInductive
    <2>3. ChallengeCounted' /\ InviteCounted'
      BY <2>1, ChallengeCountedInductive, InviteCountedInductive
    <2>4. (\A n \in Names : Agrees(n)') /\ BootCounted'
      BY <2>1, AgreesInductive, BootCountedInductive
    <2> QED BY <2>2, <2>3, <2>4 DEF AccountsInv
  <1> QED BY <1>1, <1>2, PTL DEF Spec

(* A challenge of the process's own store lets one registration pass, and   *)
(* one kept in Redis no more than had read it before the first of them      *)
(* deleted it: no more than run at a time.                                  *)
THEOREM ChallengesAreSpent == Spec => []ChallengeSpentOnce
  <1>1. AccountsInv => ChallengeSpentOnce
    <2> SUFFICES ASSUME AccountsInv, NEW c \in Challenges
                 PROVE  spent[c] <= IF useRedis THEN Cardinality(Requests) ELSE 1
      BY DEF ChallengeSpentOnce
    <2>1. /\ spent[c] \in Nat
          /\ IF useRedis THEN spent[c] + Cardinality(Readers(c)) <= Cardinality(Requests) ELSE spent[c] <= 1
      BY DEF AccountsInv, TypeOK, ChallengeCounted
    <2>2. Readers(c) \subseteq Requests
      BY DEF Readers
    <2>3. Cardinality(Readers(c)) \in Nat /\ Cardinality(Requests) \in Nat
      BY <2>2, Counting
    <2> QED BY <2>1, <2>3
  <1> QED BY <1>1, AccountsInvariant, PTL

(* used_count never exceeds max_uses, and an invite lets in no more         *)
(* accounts than it says unless two registrations held it at a time.        *)
THEOREM InvitesAreLimited == Spec => []InviteWithinLimit
  <1>1. AccountsInv => InviteWithinLimit
    <2> SUFFICES ASSUME AccountsInv, NEW i \in Invites
                 PROVE  /\ invites[i].used <= invites[i].max
                        /\ redeemed[i] > invites[i].max => invites[i].overlap
      BY DEF InviteWithinLimit
    <2>1. redeemed[i] \in Nat /\ invites[i].used \in Nat /\ invites[i].max \in Nat
      BY AccountsAssumption DEF AccountsInv, TypeOK, Invite
    <2>2. /\ invites[i].used <= invites[i].max
          /\ ~invites[i].overlap => redeemed[i] <= invites[i].used
      BY DEF AccountsInv, InviteCounted
    <2> QED BY <2>1, <2>2
  <1> QED BY <1>1, AccountsInvariant, PTL

(* An account can be used exactly when the last decision about it was to    *)
(* let its owner in, unless administrators' requests for it overlapped.     *)
THEOREM OnlyTheAdmittedGetIn == Spec => []UsableIsAdmitted
  <1>1. AccountsInv => UsableIsAdmitted
    BY DEF AccountsInv, Agrees, UsableIsAdmitted
  <1> QED BY <1>1, AccountsInvariant, PTL

(* Bootstrap creates no more accounts than calls of it ran at a time. *)
THEOREM BootstrapIsOver == Spec => []BootstrapCloses
  <1>1. AccountsInv => BootstrapCloses
    <2> SUFFICES ASSUME AccountsInv PROVE BootstrapCloses
      OBVIOUS
    <2>1. booted \in Nat /\ booted + Cardinality(Booting) <= Cardinality(Requests)
      BY DEF AccountsInv, TypeOK, BootCounted
    <2>2. Booting \subseteq Requests
      BY DEF Booting
    <2>3. Cardinality(Booting) \in Nat /\ Cardinality(Requests) \in Nat
      BY <2>2, Counting
    <2> QED BY <2>1, <2>3 DEF BootstrapCloses
  <1> QED BY <1>1, AccountsInvariant, PTL

-----------------------------------------------------------------------------
(* Locked out is for ever. *)

(* No step of anybody makes an administrator out of none. *)
LEMMA NoNewAdministrator ==
    ASSUME TypeOK, \A r \in Requests : Gathered(r), LockedOut, [Next]_vars
    PROVE  LockedOut'
  <1>1. \E n \in Names : Exists(n)'
    BY AccountsStay DEF LockedOut
  <1>2. ASSUME NEW r \in Requests PROVE req'[r].pc \notin {"bootstrap", "create", "approve"}
    <2>1. CASE req'[r] = req[r]
      BY <2>1 DEF LockedOut
    <2>2. CASE req'[r] # req[r]
      <3>1. ASSUME NEW n \in Names, NEW c \in Creations, Bootstrap(r, n, c[1], c[2]) PROVE FALSE
        BY <3>1 DEF Bootstrap, NoUsers, LockedOut
      <3>2. ASSUME NEW n \in Names, NEW c \in Creations, CreateUser(r, n, c[1], c[2]) PROVE FALSE
        BY <3>2 DEF CreateUser, LockedOut
      <3>3. ASSUME NEW n \in Names, NEW label \in {"approve", "disable"}, LoadUser(r, n, label) PROVE FALSE
        BY <3>3 DEF LoadUser, LockedOut
      <3> QED BY <2>2, <3>1, <3>2, <3>3, ReachedLabel
    <2> QED BY <2>1, <2>2
  <1>3. ASSUME NEW n \in Names, users'[n].role = "admin", users'[n].status = "active", users'[n].active
        PROVE  FALSE
    <2>1. CASE users'[n] = users[n]
      BY <1>3, <2>1 DEF LockedOut, SomeAdmin, Usable
    <2>2. ASSUME NEW r \in Requests, CommitRegistration(r), users'[n] # users[n] PROVE FALSE
      <3>1. users'[n].role = "user"
        BY <2>2, NewAccount DEF CommitRegistration
      <3> QED BY <1>3, <3>1
    <2>3. ASSUME NEW r \in Requests, CommitUser(r) PROVE FALSE
      BY <2>3 DEF CommitUser, LockedOut
    <2>4. ASSUME NEW r \in Requests, NEW m \in Names, NEW label \in {"approve", "disable"},
                 LoadUser(r, m, label)
          PROVE  FALSE
      BY <2>4 DEF LoadUser, LockedOut
    <2>5. ASSUME NEW r \in Requests, ApproveUser(r) PROVE FALSE
      BY <2>5 DEF ApproveUser, At, LockedOut
    <2>6. ASSUME NEW r \in Requests, DisableUser(r), users'[n] # users[n] PROVE FALSE
      <3>1. req[r].name \in Names /\ SaveUser(r, "disabled", FALSE) /\ "disabled" \in Statuses
        BY <2>6 DEF DisableUser, Gathered, At, Statuses
      <3>2. /\ n = req[r].name /\ users'[n].role = users[n].role
            /\ users'[n].status = Write(req[r].status, "disabled", users[n].status)
            /\ users'[n].active = Write(req[r].active, FALSE, users[n].active)
        BY <2>6, <3>1, SavedUser
      <3>3. users[n].status = "active" /\ users[n].active /\ users[n].role = "admin"
        BY <1>3, <3>2 DEF Write
      <3> QED BY <3>3 DEF LockedOut, SomeAdmin, Usable
    <2> QED BY <2>1, <2>2, <2>3, <2>4, <2>5, <2>6, AccountSteps
  <1>4. ~SomeAdmin'
    BY <1>3 DEF SomeAdmin, Usable
  <1> QED BY <1>1, <1>2, <1>4 DEF LockedOut

(* When there are accounts but no administrator that can be used, and no    *)
(* request is under way that one had let in, there never will be one.       *)
THEOREM LockoutStays == Spec => LockoutIsFinal
  <1>1. AccountsInv /\ [Next]_vars => [LockedOut => LockedOut']_vars
    BY NoNewAdministrator DEF AccountsInv
  <1> QED BY <1>1, AccountsInvariant, PTL DEF Spec, LockoutIsFinal

(* The rows and the requests are well formed in every reachable state. *)
THEOREM TypeCorrect == Spec => []TypeOK
  <1>1. AccountsInv => TypeOK
    BY DEF AccountsInv
  <1> QED BY <1>1, AccountsInvariant, PTL
=============================================================================
