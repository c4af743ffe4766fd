------------------------ MODULE RequestLimitsProofs -------------------------
(* Proofs about RequestLimits: how far concurrent handlers can exceed the   *)
(* limit of a key, and what a block can be ended by, for any number of      *)
(* handlers, names and addresses, any limit and any length of a window.     *)
EXTENDS RequestLimits, FiniteSetTheorems, TLAPS

IsChallenge(k) == \E a \in Addresses : k = ChallengeKey(a)

(* The handlers that passed the check of a key and have not returned. *)
Working(k) == {r \in Requests : k \in admitted[r].keys}

(* A handler that works on a key that is blocked passed before the block.   *)
(* Challenges are counted as they are checked: nobody works on their keys.  *)
LateKnown == \A r \in Requests : \A k \in admitted[r].keys :
                ~IsChallenge(k) /\ (Blocked(states[k]) => k \in admitted[r].late)

(* A window of a key at which w handlers work and n may at once, after c of *)
(* its blocks have run out: an attempt that starts the next one was         *)
(* admitted when there were none, or is one of those at work by then.       *)
Fits(s, w, c, n) ==
    /\ c * Block <= Window
    /\ IF Blocked(s) \/ Over(s)
       THEN /\ s.attempts + w <= Attempts - 1 + (c + 1) * n
            /\ Over(s) \/ c * Block + Block - s.left <= s.age
       ELSE /\ s.attempts <= Attempts - 1 + c * n
            /\ c * Block <= s.age

Bounded(s, w, n) == \E c \in 0..Window : Fits(s, w, c, n)

Limited(k) == Bounded(states[k], Cardinality(Working(k)), AtOnce(k))

LateInv  == TypeOK /\ LateKnown
CountInv == LateInv /\ \A k \in Keys : Limited(k)
-----------------------------------------------------------------------------
(* Windows and blocks.                                                      *)

(* The time a step adds to a window and takes from a block. *)
Older(s) == IF s = NoState THEN NoState
            ELSE [s EXCEPT !.age = IF @ > Window THEN @ ELSE @ + 1,
                           !.left = IF @ = 0 THEN 0 ELSE @ - 1]

(* An entry that is empty is a state without attempts. *)
LEMMA EmptyState == /\ NoState \in States /\ NoState.attempts = 0 /\ NoState.age = 0
                    /\ NoState.left = 0 /\ ~Blocked(NoState)
  BY LimitsAssumption DEF NoState, States, Blocked

(* A check changes nothing, or drops a window that is over and not blocked; *)
(* what it leaves without a block is a window that is not over.             *)
LEMMA CheckedState ==
    ASSUME NEW s \in States
    PROVE  /\ Checked(s) \in States
           /\ Checked(s) = s \/ (Checked(s) = NoState /\ ~Blocked(s))
           /\ Blocked(Checked(s)) <=> Blocked(s)
           /\ ~Blocked(s) => (Checked(s).age <= Window /\ Checked(s).left = 0)
  <1>1. s.age \in 0..(Window + 1) /\ s.left \in 0..Block
    BY DEF States
  <1>2. CASE ~Blocked(s) /\ Over(s)
    BY <1>2, EmptyState, LimitsAssumption DEF Checked
  <1>3. CASE ~(~Blocked(s) /\ Over(s))
    <2>1. Checked(s) = s
      BY <1>3 DEF Checked
    <2>2. ~Blocked(s) => s.age <= Window /\ s.left = 0
      BY <1>1, <1>3, LimitsAssumption DEF Blocked, Over
    <2> QED BY <2>1, <2>2
  <1> QED BY <1>2, <1>3

(* A failure is counted in the window there is, or is the first of a new    *)
(* one, and starts a block at the limit.                                    *)
LEMMA FailedState ==
    ASSUME NEW s \in States
    PROVE  /\ Failed(s) \in States
           /\ Failed(s).attempts \in {1, s.attempts + 1}
           /\ Failed(s).attempts >= Attempts => Failed(s).left = Block
  <1> DEFINE new == s = NoState \/ Over(s)
             n   == IF new THEN 1 ELSE s.attempts + 1
             f   == Failed(s)
  <1>1. /\ s.attempts \in Nat /\ s.age \in 0..(Window + 1) /\ s.left \in 0..Block
        /\ n \in Nat /\ n \in {1, s.attempts + 1}
    BY DEF States
  <1>2. f = [attempts |-> n, age |-> IF new THEN 0 ELSE s.age,
             left |-> IF n >= Attempts THEN Block ELSE IF new THEN 0 ELSE s.left]
    BY DEF Failed
  <1>3. (IF n >= Attempts THEN Block ELSE IF new THEN 0 ELSE s.left) \in 0..Block
    <2> HIDE DEF n, new
    <2> QED BY <1>1, LimitsAssumption
  <1>4. (IF new THEN 0 ELSE s.age) \in 0..(Window + 1)
    <2> HIDE DEF new
    <2> QED BY <1>1, LimitsAssumption
  <1> HIDE DEF n, new
  <1> QED BY <1>1, <1>2, <1>3, <1>4 DEF States

(* Time does not count attempts, and does not start blocks. *)
LEMMA OlderState ==
    ASSUME NEW s \in States
    PROVE  /\ Older(s) \in States
           /\ Older(s).attempts = s.attempts
           /\ Blocked(Older(s)) => Blocked(s)
           /\ Blocked(s) => s.left = 1 \/ Blocked(Older(s))
           /\ s.left + s.age > Window => s = NoState \/ Older(s).left + Older(s).age > Window
  <1>1. CASE s = NoState
    BY <1>1, EmptyState DEF Older
  <1>2. CASE s # NoState
    <2> DEFINE age == IF s.age > Window THEN s.age ELSE s.age + 1
               left == IF s.left = 0 THEN 0 ELSE s.left - 1
    <2>1. s.attempts \in Nat /\ s.age \in 0..(Window + 1) /\ s.left \in 0..Block
      BY DEF States
    <2>2. age \in 0..(Window + 1) /\ left \in 0..Block
      BY <2>1, LimitsAssumption
    <2>3. Older(s) = [s EXCEPT !.age = age, !.left = left]
      BY <1>2 DEF Older
    <2>4. /\ Older(s) \in States /\ Older(s).attempts = s.attempts
          /\ Older(s).age = age /\ Older(s).left = left
      <3> HIDE DEF age, left
      <3> QED BY <2>2, <2>3 DEF States
    <2> QED BY <2>1, <2>4, LimitsAssumption DEF Blocked
  <1> QED BY <1>1, <1>2

(* A key is the address of a challenge, or a key of logins and submissions. *)
LEMMA KeysOf ==
    ASSUME NEW u \in Users, NEW a \in Addresses, NEW invited \in BOOLEAN
    PROVE  /\ LoginKeys(u, a) \subseteq Keys /\ SubmitKeys(u, a, invited) \subseteq Keys
           /\ ChallengeKey(a) \in Keys
           /\ \A k \in LoginKeys(u, a) \cup SubmitKeys(u, a, invited) : ~IsChallenge(k)
  <1>1. ASSUME NEW x \in Users, NEW b \in Addresses
        PROVE  LoginKeys(x, b) \cup SubmitKeys(x, b, TRUE) \cup {ChallengeKey(b)} \subseteq Keys
    <2> DEFINE Of(y, c) == LoginKeys(y, c) \cup SubmitKeys(y, c, TRUE) \cup {ChallengeKey(c)}
    <2>1. Keys = UNION {Of(y, c) : y \in Users, c \in Addresses}
      BY DEF Keys
    <2> HIDE DEF Of
    <2>2. Of(x, b) \in {Of(y, c) : y \in Users, c \in Addresses}
      OBVIOUS
    <2>3. Of(x, b) \subseteq Keys
      BY <2>1, <2>2
    <2> QED BY <2>3 DEF Of
  <1>2. SubmitKeys(u, a, invited) \subseteq SubmitKeys(u, a, TRUE)
    BY DEF SubmitKeys
  <1>3. ASSUME NEW k \in LoginKeys(u, a) \cup SubmitKeys(u, a, invited) PROVE ~IsChallenge(k)
    <2>1. \E l \in {"user", "ip", "submit ip", "submit username", "submit email", "submit invite"} :
             \E x : k = <<l, x>>
      BY <1>3 DEF LoginKeys, SubmitKeys
    <2>2. k[1] # "challenge ip"
      <3>1. PICK l \in {"user", "ip", "submit ip", "submit username", "submit email",
                        "submit invite"} : \E x : k = <<l, x>>
        BY <2>1
      <3>2. PICK x : k = <<l, x>>
        BY <3>1
      <3>3. k[1] = l
        BY <3>2
      <3> QED BY <3>3
    <2>3. \A b : ChallengeKey(b)[1] = "challenge ip"
      BY DEF ChallengeKey
    <2> QED BY <2>2, <2>3 DEF IsChallenge
  <1> QED BY <1>1, <1>2, <1>3
-----------------------------------------------------------------------------
(* What the steps do.                                                       *)

Admissions == [Requests -> [keys : SUBSET Keys, late : SUBSET Keys]]

(* A handler that returns, and the others as they were. *)
Returns(r) == /\ admitted' \in Admissions /\ admitted'[r] = Nobody
              /\ \A q \in Requests \ {r} : admitted'[q].keys = admitted[q].keys

(* Only the keys of a request are looked at; one that is blocked ends it.   *)
LEMMA EnterEffect ==
    ASSUME TypeOK, NEW r \in Requests, NEW keys \in SUBSET Keys, Enter(r, keys)
    PROVE  /\ admitted[r].keys = {} /\ limiter' = limiter
           /\ states' \in [Keys -> States]
           /\ \A k \in Keys : states'[k] = IF k \in keys THEN Checked(states[k]) ELSE states[k]
           /\ admitted' \in Admissions
           /\ admitted'[r].keys \in {{}, keys}
           /\ admitted'[r].keys # {} => \A k \in keys : ~Blocked(states[k])
           /\ \A q \in Requests \ {r} : admitted'[q] = admitted[q]
  <1>1. admitted[r].keys = {} /\ admitted[r].late = {} /\ limiter' = limiter
    BY DEF Enter, Nobody
  <1>2. states' = [k \in Keys |-> IF k \in keys THEN Checked(states[k]) ELSE states[k]]
    BY DEF Enter, OnKeys
  <1>3. states' \in [Keys -> States]
    BY <1>2, CheckedState DEF TypeOK
  <1> DEFINE ks == IF \E k \in keys : Blocked(states[k]) THEN {} ELSE keys
             q  == [admitted[r] EXCEPT !.keys = ks]
  <1>4. ks \in {{}, keys} /\ (ks # {} => \A k \in keys : ~Blocked(states[k]))
    OBVIOUS
  <1>5. admitted' = [admitted EXCEPT ![r] = q]
    BY DEF Enter
  <1>6. q \in [keys : SUBSET Keys, late : SUBSET Keys] /\ q.keys = ks
    <2> HIDE DEF ks
    <2> QED BY <1>4 DEF TypeOK
  <1> HIDE DEF ks, q
  <1> QED BY <1>1, <1>2, <1>3, <1>4, <1>5, <1>6 DEF TypeOK, Admissions

(* A failure is counted under every key of the request. *)
LEMMA FailEffect ==
    ASSUME TypeOK, NEW r \in Requests, Fail(r)
    PROVE  /\ admitted[r] # Nobody /\ limiter' = limiter
           /\ states' \in [Keys -> States]
           /\ \A k \in Keys :
                 states'[k] = IF k \in admitted[r].keys THEN Failed(states[k]) ELSE states[k]
           /\ Returns(r)
           /\ \A q \in Requests \ {r} : admitted'[q].late =
                 admitted[q].late \cup {k \in admitted[q].keys : Blocked(states'[k])}
  <1>1. states' = [k \in Keys |-> IF k \in admitted[r].keys THEN Failed(states[k]) ELSE states[k]]
    BY DEF Fail, OnKeys
  <1>2. states' \in [Keys -> States]
    BY <1>1, FailedState DEF TypeOK
  <1> DEFINE Late(q) == admitted[q].late \cup {k \in admitted[q].keys : Blocked(states'[k])}
             new(q) == [admitted[q] EXCEPT !.late = Late(q)]
  <1>3. admitted' = [q \in Requests |-> IF q = r THEN Nobody ELSE new(q)]
    BY DEF Fail
  <1>4. ASSUME NEW q \in Requests
        PROVE  /\ new(q) \in [keys : SUBSET Keys, late : SUBSET Keys]
               /\ new(q).keys = admitted[q].keys /\ new(q).late = Late(q)
    <2>1. Late(q) \subseteq Keys
      BY DEF TypeOK
    <2> HIDE DEF Late
    <2> QED BY <2>1 DEF TypeOK
  <1>5. Nobody \in [keys : SUBSET Keys, late : SUBSET Keys]
    BY DEF Nobody
  <1>6. /\ Returns(r)
        /\ \A q \in Requests \ {r} : admitted'[q].late = Late(q)
    <2> HIDE DEF new, Late
    <2> QED BY <1>3, <1>4, <1>5 DEF Returns, Admissions
  <1> QED BY <1>1, <1>2, <1>6 DEF Fail

(* A success forgets the keys of the request, an exception changes nothing. *)
LEMMA ReturnEffect ==
    ASSUME TypeOK, NEW r \in Requests, Succeed(r) \/ Abort(r)
    PROVE  /\ limiter' = limiter
           /\ states' \in [Keys -> States]
           /\ \A k \in Keys : \/ states'[k] = states[k]
                              \/ k \in admitted[r].keys /\ states'[k] = NoState
           /\ Returns(r)
           /\ \A q \in Requests \ {r} : admitted'[q] = admitted[q]
  <1>1. /\ states' \in [Keys -> States]
        /\ \A k \in Keys : \/ states'[k] = states[k]
                           \/ k \in admitted[r].keys /\ states'[k] = NoState
    <2>1. CASE Succeed(r)
      <3>1. states' = [k \in Keys |-> IF k \in admitted[r].keys THEN NoState ELSE states[k]]
        BY <2>1 DEF Succeed, OnKeys, Succeeded
      <3> QED BY <3>1, EmptyState DEF TypeOK
    <2>2. CASE Abort(r)
      BY <2>2 DEF Abort, TypeOK
    <2> QED BY <2>1, <2>2
  <1>2. admitted' = [admitted EXCEPT ![r] = Nobody] /\ limiter' = limiter
    BY DEF Succeed, Abort
  <1>3. Nobody \in [keys : SUBSET Keys, late : SUBSET Keys]
    BY DEF Nobody
  <1> QED BY <1>1, <1>2, <1>3 DEF Returns, Admissions, TypeOK

(* A challenge is checked and counted at once. *)
LEMMA ChallengeEffect ==
    ASSUME TypeOK, NEW a \in Addresses, RegisterChallenge(a)
    PROVE  /\ UNCHANGED <<limiter, admitted>>
           /\ states' \in [Keys -> States]
           /\ \A k \in Keys :
                 \/ states'[k] = states[k]
                 \/ /\ IsChallenge(k) /\ ~Blocked(states[k])
                    /\ states'[k] = Failed(Checked(states[k]))
  <1> DEFINE c == ChallengeKey(a)
             s == IF Blocked(states[c]) THEN states[c] ELSE Failed(Checked(states[c]))
  <1>1. states' = [states EXCEPT ![c] = s] /\ UNCHANGED <<limiter, admitted>> /\ IsChallenge(c)
    BY DEF RegisterChallenge, IsChallenge
  <1>2. ASSUME c \in Keys PROVE s \in States
    BY <1>2, CheckedState, FailedState DEF TypeOK
  <1>3. /\ states' \in [Keys -> States]
        /\ \A k \in Keys : states'[k] = IF k = c THEN s ELSE states[k]
    <2> HIDE DEF c, s
    <2> QED BY <1>1, <1>2 DEF TypeOK
  <1> QED BY <1>1, <1>3

(* Time passes for every key. *)
LEMMA TickEffect ==
    ASSUME TypeOK, Tick
    PROVE  /\ UNCHANGED <<limiter, admitted>>
           /\ states' \in [Keys -> States]
           /\ \A k \in Keys : states'[k] = Older(states[k])
  <1>1. states' = [k \in Keys |-> Older(states[k])] /\ UNCHANGED <<limiter, admitted>>
    BY DEF Tick, Older
  <1>2. \A k \in Keys : Older(states[k]) \in States
    BY OlderState DEF TypeOK
  <1> QED BY <1>1, <1>2
(* The steps there are. *)
LEMMA Steps ==
    ASSUME TypeOK, Next
    PROVE  \/ \E r \in Requests, keys \in SUBSET Keys :
                 Enter(r, keys) /\ \A k \in keys : ~IsChallenge(k)
           \/ \E r \in Requests : Fail(r) \/ Succeed(r) \/ Abort(r)
           \/ \E a \in Addresses : RegisterChallenge(a)
           \/ Tick
  <1>1. ASSUME NEW r \in Requests, NEW u \in Users, NEW a \in Addresses, Login(r, u, a)
        PROVE  \E keys \in SUBSET Keys : Enter(r, keys) /\ \A k \in keys : ~IsChallenge(k)
    <2>1. /\ Enter(r, LoginKeys(u, a)) /\ LoginKeys(u, a) \subseteq Keys
          /\ \A k \in LoginKeys(u, a) : ~IsChallenge(k)
      BY <1>1, KeysOf DEF Login
    <2> QED BY <2>1
  <1>2. ASSUME NEW r \in Requests, NEW u \in Users, NEW a \in Addresses, NEW invited \in BOOLEAN,
               Register(r, u, a, invited)
        PROVE  \E keys \in SUBSET Keys : Enter(r, keys) /\ \A k \in keys : ~IsChallenge(k)
    <2>1. /\ Enter(r, SubmitKeys(u, a, invited)) /\ SubmitKeys(u, a, invited) \subseteq Keys
          /\ \A k \in SubmitKeys(u, a, invited) : ~IsChallenge(k)
      BY <1>2, KeysOf DEF Register
    <2> QED BY <2>1
  <1> QED BY <1>1, <1>2 DEF Next
-----------------------------------------------------------------------------
(* Blocks.                                                                  *)

(* Types are kept, and so is LateKnown: a failure that starts a block makes *)
(* everybody who works on the key a late one.                               *)
LEMMA LateInductive == LateInv /\ [Next]_vars => LateInv'
  <1> SUFFICES ASSUME LateInv, [Next]_vars PROVE LateInv'
    OBVIOUS
  <1>1. /\ TypeOK /\ admitted \in Admissions /\ states \in [Keys -> States]
        /\ limiter \in {"login", "register", "challenge"} /\ LateKnown
    BY DEF LateInv, TypeOK, Admissions
  <1>2. TypeOK' <=> /\ limiter' \in {"login", "register", "challenge"}
                    /\ states' \in [Keys -> States] /\ admitted' \in Admissions
    BY DEF TypeOK, Admissions
  <1> DEFINE Known(q) == \A k \in admitted'[q].keys :
                            ~IsChallenge(k) /\ (Blocked(states'[k]) => k \in admitted'[q].late)
  <1>3. LateKnown' <=> \A q \in Requests : Known(q)
    BY DEF LateKnown, IsChallenge, ChallengeKey, Blocked
  <1>4. \A q \in Requests : admitted[q].keys \subseteq Keys
    BY <1>1 DEF Admissions
  <1>5. ASSUME NEW q \in Requests, admitted'[q] = admitted[q],
               \A k \in admitted[q].keys : Blocked(states'[k]) => Blocked(states[k])
        PROVE  Known(q)
    BY <1>1, <1>5 DEF LateKnown
  <1>6. ASSUME NEW r \in Requests, NEW keys \in SUBSET Keys, Enter(r, keys),
               \A k \in keys : ~IsChallenge(k)
        PROVE  LateInv'
    <2>1. /\ limiter' = limiter /\ states' \in [Keys -> States] /\ admitted' \in Admissions
          /\ \A k \in Keys : states'[k] = IF k \in keys THEN Checked(states[k]) ELSE states[k]
          /\ admitted'[r].keys \in {{}, keys}
          /\ admitted'[r].keys # {} => \A k \in keys : ~Blocked(states[k])
          /\ \A q \in Requests \ {r} : admitted'[q] = admitted[q]
      BY <1>1, <1>6, EnterEffect
    <2>2. \A k \in Keys : Blocked(states'[k]) => Blocked(states[k])
      BY <1>1, <2>1, CheckedState
    <2>3. Known(r)
      BY <1>6, <2>1, <2>2
    <2>4. \A q \in Requests \ {r} : Known(q)
      <3> HIDE DEF Known
      <3> QED BY <1>4, <1>5, <2>1, <2>2
    <2> HIDE DEF Known
    <2> QED BY <1>1, <1>2, <1>3, <2>1, <2>3, <2>4 DEF LateInv
  <1>7. ASSUME NEW r \in Requests, Fail(r) PROVE LateInv'
    <2>1. /\ limiter' = limiter /\ states' \in [Keys -> States] /\ Returns(r)
          /\ \A q \in Requests \ {r} : admitted'[q].late =
                 admitted[q].late \cup {k \in admitted[q].keys : Blocked(states'[k])}
      BY <1>1, <1>7, FailEffect
    <2>2. Known(r)
      BY <2>1 DEF Returns, Nobody
    <2>3. ASSUME NEW q \in Requests \ {r} PROVE Known(q)
      <3>1. admitted'[q].keys = admitted[q].keys
        BY <2>1 DEF Returns
      <3> QED BY <1>1, <2>1, <3>1 DEF LateKnown
    <2> HIDE DEF Known
    <2> QED BY <1>1, <1>2, <1>3, <2>1, <2>2, <2>3 DEF LateInv, Returns
  <1>8. ASSUME NEW r \in Requests, Succeed(r) \/ Abort(r) PROVE LateInv'
    <2>1. /\ limiter' = limiter /\ states' \in [Keys -> States] /\ Returns(r)
          /\ \A k \in Keys : states'[k] \in {states[k], NoState}
          /\ \A q \in Requests \ {r} : admitted'[q] = admitted[q]
      BY <1>1, <1>8, ReturnEffect
    <2>2. \A k \in Keys : Blocked(states'[k]) => Blocked(states[k])
      BY <2>1, EmptyState
    <2>3. Known(r)
      BY <2>1 DEF Returns, Nobody
    <2>4. \A q \in Requests \ {r} : Known(q)
      <3> HIDE DEF Known
      <3> QED BY <1>4, <1>5, <2>1, <2>2
    <2> HIDE DEF Known
    <2> QED BY <1>1, <1>2, <1>3, <2>1, <2>3, <2>4 DEF LateInv, Returns
  <1>9. ASSUME NEW a \in Addresses, RegisterChallenge(a) PROVE LateInv'
    <2>1. /\ UNCHANGED <<limiter, admitted>> /\ states' \in [Keys -> States]
          /\ \A k \in Keys : states'[k] = states[k] \/ IsChallenge(k)
      BY <1>1, <1>9, ChallengeEffect
    <2>2. \A q \in Requests : Known(q)
      BY <1>1, <1>4, <2>1 DEF LateKnown
    <2> HIDE DEF Known
    <2> QED BY <1>1, <1>2, <1>3, <2>1, <2>2 DEF LateInv
  <1>10. ASSUME Tick PROVE LateInv'
    <2>1. /\ UNCHANGED <<limiter, admitted>> /\ states' \in [Keys -> States]
          /\ \A k \in Keys : Blocked(states'[k]) => Blocked(states[k])
      BY <1>1, <1>10, TickEffect, OlderState
    <2>2. \A q \in Requests : Known(q)
      <3> HIDE DEF Known
      <3> QED BY <1>4, <1>5, <2>1
    <2> HIDE DEF Known
    <2> QED BY <1>1, <1>2, <1>3, <2>1, <2>2 DEF LateInv
  <1>11. ASSUME UNCHANGED vars PROVE LateInv'
    BY <1>1, <1>11 DEF vars, LateInv, TypeOK, LateKnown, IsChallenge, ChallengeKey, Blocked
  <1> QED BY <1>1, <1>6, <1>7, <1>8, <1>9, <1>10, <1>11, Steps

(* The invariant holds at first and every step keeps it. *)
LEMMA LateInvariant == Spec => []LateInv
  <1>1. Init => LateInv
    BY EmptyState DEF Init, LateInv, TypeOK, LateKnown, Nobody
  <1> QED BY <1>1, LateInductive, PTL DEF Spec

(* The dictionary and the handlers keep their types. *)
THEOREM TypeCorrect == Spec => []TypeOK
  <1>1. LateInv => TypeOK
    BY DEF LateInv
  <1> QED BY <1>1, LateInvariant, PTL

(* BlockIsServed: a block is ended by time when it has run out, and before  *)
(* by a handler that passed the check before it, and by nobody else.        *)
THEOREM BlocksAreServed == Spec => BlockIsServed
  <1> DEFINE Served(k) == \/ Tick /\ states[k].left = 1
                          \/ \E r \in Requests : k \in admitted[r].late /\ admitted'[r] = Nobody
  <1>1. ASSUME LateInv, [Next]_vars, NEW k \in Keys, Blocked(states[k]), ~Blocked(states'[k])
        PROVE  Served(k)
    <2>1. TypeOK /\ states[k] \in States /\ Blocked(states[k]) /\ states[k].left \in Nat
      BY <1>1 DEF LateInv, TypeOK, States, Blocked
    <2>2. ASSUME NEW r \in Requests, k \in admitted[r].keys, Returns(r)
          PROVE  k \in admitted[r].late /\ admitted'[r] = Nobody
      BY <1>1, <2>1, <2>2 DEF LateInv, LateKnown, Returns
    <2>3. ASSUME NEW r \in Requests, NEW keys \in SUBSET Keys, Enter(r, keys) PROVE FALSE
      <3>1. states'[k] \in {states[k], Checked(states[k])}
        BY <2>1, <2>3, EnterEffect
      <3> QED BY <1>1, <2>1, <3>1, CheckedState
    <2>4. ASSUME NEW r \in Requests, Fail(r) PROVE k \in admitted[r].keys /\ Returns(r)
      BY <1>1, <2>1, <2>4, FailEffect
    <2>5. ASSUME NEW r \in Requests, Succeed(r) \/ Abort(r)
          PROVE  k \in admitted[r].keys /\ Returns(r)
      BY <1>1, <2>1, <2>5, ReturnEffect
    <2>6. ASSUME NEW a \in Addresses, RegisterChallenge(a) PROVE FALSE
      BY <1>1, <2>1, <2>6, ChallengeEffect
    <2>7. ASSUME Tick PROVE states[k].left = 1
      <3>1. states'[k] = Older(states[k])
        BY <2>1, <2>7, TickEffect
      <3> QED BY <1>1, <2>1, <3>1, OlderState
    <2>8. CASE UNCHANGED vars
      BY <1>1, <2>1, <2>8 DEF vars
    <2> QED BY <1>1, <2>1, <2>2, <2>3, <2>4, <2>5, <2>6, <2>7, <2>8, Steps
  <1>2. LateInv /\ [Next]_vars =>
           [\A k \in Keys : Blocked(states[k]) /\ ~Blocked(states'[k]) => Served(k)]_vars
    BY <1>1
  <1> QED BY <1>2, LateInvariant, PTL DEF Spec, BlockIsServed
-----------------------------------------------------------------------------
(* Limits.                                                                  *)

(* The arithmetic of rounds. *)
LEMMA Round ==
    ASSUME NEW c \in Nat, NEW n \in Nat
    PROVE  /\ c * n \in Nat /\ (c + 1) * n = c * n + n
           /\ 0 * n = 0 /\ (0 + 1) * n = n
           /\ n >= 1 => c <= c * n
  <1>1. c * n \in Nat /\ (c + 1) * n = c * n + n /\ 0 * n = 0 /\ (0 + 1) * n = n
    OBVIOUS
  <1>2. ASSUME n >= 1 PROVE c <= c * n
    BY <1>2
  <1> QED BY <1>1, <1>2

(* So many blocks fit into a window. *)
LEMMA RoundsOfWindow ==
    ASSUME NEW c \in Nat, c * Block <= Window
    PROVE  Window \div Block \in Nat /\ c <= Window \div Block
  <1> DEFINE q == Window \div Block
  <1>1. Window \in Nat /\ Block \in Nat /\ Block > 0
    BY LimitsAssumption
  <1>2. q \in Nat /\ q * Block <= Window /\ Window < q * Block + Block
    BY <1>1
  <1> HIDE DEF q
  <1>3. ASSUME c > q PROVE FALSE
    <2>1. PICK d \in Nat : c = q + 1 + d
      <3>1. c - q - 1 \in Nat /\ c = q + 1 + (c - q - 1)
        BY <1>2, <1>3
      <3> QED BY <3>1
    <2>2. c * Block = q * Block + Block + d * Block /\ d * Block >= 0
      BY <1>1, <1>2, <2>1
    <2> QED BY <1>1, <1>2, <2>2
  <1> QED BY <1>2, <1>3 DEF q

(* The handlers at work on a key are finitely many, and not more than can   *)
(* be at once.                                                              *)
LEMMA FewAtOnce ==
    ASSUME NEW k, NEW working \in SUBSET Requests, IsChallenge(k) => working = {}
    PROVE  /\ IsFiniteSet(working) /\ Cardinality(working) \in Nat
           /\ AtOnce(k) \in Nat /\ Cardinality(working) <= AtOnce(k)
  <1>1. IsFiniteSet(Requests)
    BY LimitsAssumption
  <1>2. /\ IsFiniteSet(working) /\ Cardinality(working) \in Nat /\ Cardinality(Requests) \in Nat
        /\ Cardinality(working) <= Cardinality(Requests)
    BY <1>1, FS_Subset, FS_CardinalityType
  <1>3. CASE IsChallenge(k)
    BY <1>2, <1>3, FS_EmptySet DEF AtOnce, IsChallenge
  <1>4. CASE ~IsChallenge(k)
    BY <1>2, <1>4 DEF AtOnce, IsChallenge
  <1> QED BY <1>3, <1>4

(* A key that has no entry is in its first round. *)
LEMMA EmptyFits ==
    ASSUME NEW w \in Nat, NEW n \in Nat, w <= n PROVE Bounded(NoState, w, n)
  <1>1. 0 \in 0..Window /\ Block \in Nat /\ Attempts \in Nat /\ Attempts >= 1 /\ Window \in Nat
    BY LimitsAssumption
  <1>2. Fits(NoState, w, 0, n)
    BY <1>1, EmptyState, Round DEF Fits, Over
  <1> QED BY <1>1, <1>2 DEF Bounded

(* A handler that returns leaves room. *)
LEMMA FewerFit ==
    ASSUME NEW s \in States, NEW w \in Nat, NEW v \in Nat, NEW n \in Nat, v <= w, Bounded(s, w, n)
    PROVE  Bounded(s, v, n)
  <1>1. PICK c \in 0..Window : Fits(s, w, c, n)
    BY DEF Bounded
  <1>2. s.attempts \in Nat /\ c \in Nat /\ (c + 1) * n \in Nat /\ Attempts \in Nat
    BY LimitsAssumption, Round DEF States
  <1>3. Fits(s, v, c, n)
    <2> DEFINE m == (c + 1) * n
    <2>1. s.attempts + w <= Attempts - 1 + m => s.attempts + v <= Attempts - 1 + m
      <3> HIDE DEF m
      <3> QED BY <1>2 DEF m
    <2> QED BY <1>1, <2>1 DEF Fits
  <1> QED BY <1>3 DEF Bounded

(* A handler is let in where there is no block, and with it all that can be *)
(* at work at once.                                                         *)
LEMMA CheckedFits ==
    ASSUME NEW s \in States, NEW w \in Nat, NEW v \in Nat, NEW n \in Nat, v <= n,
           Bounded(s, w, n), ~Blocked(s)
    PROVE  Bounded(Checked(s), v, n)
  <1>1. CASE Over(s)
    BY <1>1, EmptyFits DEF Checked
  <1>2. CASE ~Over(s)
    <2>1. PICK c \in 0..Window : Fits(s, w, c, n)
      BY DEF Bounded
    <2>2. Checked(s) = s
      BY <1>2 DEF Checked
    <2>3. Fits(s, v, c, n)
      BY <1>2, <2>1 DEF Fits
    <2> QED BY <2>2, <2>3 DEF Bounded
  <1> QED BY <1>1, <1>2

(* A failure takes the handler that reports it off the key. *)
LEMMA FailedFits ==
    ASSUME NEW s \in States, NEW w \in Nat, NEW n \in Nat, 1 <= w, w <= n, Bounded(s, w, n)
    PROVE  Bounded(Failed(s), w - 1, n)
  <1> DEFINE new == s = NoState \/ Over(s)
             f   == Failed(s)
  <1>1. PICK c \in 0..Window : Fits(s, w, c, n)
    BY DEF Bounded
  <1>2. /\ s.attempts \in Nat /\ s.age \in 0..(Window + 1) /\ s.left \in 0..Block
        /\ c \in Nat /\ Attempts \in Nat /\ Attempts >= 1 /\ Window \in Nat /\ Block \in Nat /\ Block >= 1
    BY LimitsAssumption DEF States
  <1>3. CASE new
    <2>1. f = [attempts |-> 1, age |-> 0, left |-> IF 1 >= Attempts THEN Block ELSE 0]
      BY <1>3 DEF Failed
    <2>2. f.attempts = 1 /\ f.age = 0 /\ f.left = (IF 1 >= Attempts THEN Block ELSE 0)
      BY <2>1
    <2>3. Fits(f, w - 1, 0, n)
      <3> HIDE DEF f, new
      <3>1. 0 * n = 0 /\ (0 + 1) * n = n /\ 0 * Block = 0
        BY <1>2, Round
      <3> QED BY <1>2, <2>2, <3>1 DEF Fits, Blocked, Over
    <2> QED BY <1>2, <2>3 DEF Bounded
  <1>4. CASE ~new
    <2>1. f = [attempts |-> s.attempts + 1, age |-> s.age,
               left |-> IF s.attempts + 1 >= Attempts THEN Block ELSE s.left]
      BY <1>4 DEF Failed
    <2>2. /\ f.attempts = s.attempts + 1 /\ f.age = s.age
          /\ f.left = (IF s.attempts + 1 >= Attempts THEN Block ELSE s.left)
      BY <2>1
    <2>3. ~Over(s) /\ ~Over(f)
      <3>1. ~Over(s)
        BY <1>4
      <3> HIDE DEF f, new
      <3> QED BY <2>2, <3>1 DEF Over
    <2> DEFINE m == c * n
               b == c * Block
    <2>4. c * n = m /\ c * Block = b /\ m \in Nat /\ b \in Nat /\ (c + 1) * n = m + n
      BY <1>2, Round
    <2> HIDE DEF f, new, m, b
    <2>5. CASE Blocked(s)
      <3>1. b <= Window /\ s.attempts + w <= Attempts - 1 + (m + n) /\ b + Block - s.left <= s.age
        BY <1>1, <2>3, <2>4, <2>5 DEF Fits
      <3>2. Blocked(f)
        BY <1>2, <2>2, <2>5 DEF Blocked
      <3>3. f.attempts + (w - 1) <= Attempts - 1 + (m + n) /\ b + Block - f.left <= f.age
        BY <1>2, <2>2, <2>4, <3>1
      <3>4. Fits(f, w - 1, c, n)
        BY <2>4, <3>1, <3>2, <3>3 DEF Fits
      <3> QED BY <3>4 DEF Bounded, f
    <2>6. CASE ~Blocked(s)
      <3>1. b <= Window /\ s.attempts <= Attempts - 1 + m /\ b <= s.age /\ s.left = 0
        BY <1>1, <1>2, <2>3, <2>4, <2>6 DEF Fits, Blocked
      <3>2. CASE s.attempts + 1 >= Attempts
        <4>1. Blocked(f) /\ f.left = Block
          BY <1>2, <2>2, <3>2 DEF Blocked
        <4>2. f.attempts + (w - 1) <= Attempts - 1 + (m + n) /\ b + Block - f.left <= f.age
          BY <1>2, <2>2, <2>4, <3>1, <4>1
        <4>3. Fits(f, w - 1, c, n)
          BY <2>4, <3>1, <4>1, <4>2 DEF Fits
        <4> QED BY <4>3 DEF Bounded, f
      <3>3. CASE ~(s.attempts + 1 >= Attempts)
        <4>1. ~Blocked(f) /\ f.attempts <= Attempts - 1 + m /\ b <= f.age
          BY <1>2, <2>2, <2>4, <3>1, <3>3 DEF Blocked
        <4>2. Fits(f, w - 1, c, n)
          BY <2>3, <2>4, <3>1, <4>1 DEF Fits
        <4> QED BY <4>2 DEF Bounded, f
      <3> QED BY <3>2, <3>3
    <2> QED BY <2>5, <2>6
  <1> QED BY <1>3, <1>4

(* Time takes a block away only when it has lasted, which makes a round.    *)
LEMMA OlderFits ==
    ASSUME NEW s \in States, NEW w \in Nat, NEW n \in Nat, w <= n, Bounded(s, w, n)
    PROVE  Bounded(Older(s), w, n)
  <1>1. CASE s = NoState
    BY <1>1 DEF Older
  <1>2. CASE s # NoState
    <2> DEFINE o == Older(s)
    <2>1. PICK c \in 0..Window : Fits(s, w, c, n)
      BY DEF Bounded
    <2>2. /\ s.attempts \in Nat /\ s.age \in 0..(Window + 1) /\ s.left \in 0..Block
          /\ c \in Nat /\ Attempts \in Nat /\ Window \in Nat /\ Block \in Nat /\ Block >= 1
      BY LimitsAssumption DEF States
    <2>3. /\ o.attempts = s.attempts
          /\ o.age = (IF s.age > Window THEN s.age ELSE s.age + 1)
          /\ o.left = (IF s.left = 0 THEN 0 ELSE s.left - 1)
      BY <1>2, OlderState DEF Older, States
    <2> DEFINE m == c * n
               b == c * Block
    <2>4. /\ c * n = m /\ c * Block = b /\ m \in Nat /\ b \in Nat
          /\ (c + 1) * n = m + n /\ (c + 1) * Block = b + Block
          /\ c + 1 \in Nat /\ c + 1 <= (c + 1) * Block
      BY <2>2, Round
    <2>5. b <= Window
      BY <2>1, <2>4 DEF Fits
    <2> HIDE DEF o, m, b
    <2>6. CASE Over(s)
      <3>1. s.attempts + w <= Attempts - 1 + (m + n)
        BY <2>1, <2>4, <2>6 DEF Fits
      <3>2. Over(o)
        BY <2>2, <2>3, <2>6 DEF Over
      <3> QED BY <2>3, <2>4, <2>5, <3>1, <3>2 DEF Fits, Bounded, o
    <2>7. CASE ~Over(s) /\ Blocked(s)
      <3>1. s.attempts + w <= Attempts - 1 + (m + n) /\ b + Block - s.left <= s.age
        BY <2>1, <2>4, <2>7 DEF Fits
      <3>2. o.age = s.age + 1 /\ o.left = s.left - 1 /\ s.age <= Window
        BY <2>2, <2>3, <2>7 DEF Over, Blocked
      <3>3. CASE Blocked(o) \/ Over(o)
        <4>1. b + Block - o.left <= o.age
          BY <2>2, <2>4, <3>1, <3>2
        <4> QED BY <2>3, <2>4, <2>5, <3>1, <3>3, <4>1 DEF Fits, Bounded, o
      <3>4. CASE ~Blocked(o) /\ ~Over(o)
        <4>1. o.left = 0 /\ o.age <= Window
          BY <2>2, <2>7, <3>2, <3>4 DEF Blocked, Over
        <4>2. b + Block <= o.age /\ c + 1 <= Window
          BY <2>2, <2>4, <3>1, <3>2, <4>1
        <4>3. o.attempts <= Attempts - 1 + (m + n)
          BY <2>2, <2>3, <2>4, <3>1
        <4>4. Fits(o, w, c + 1, n)
          BY <2>2, <2>4, <3>2, <3>4, <4>1, <4>2, <4>3 DEF Fits
        <4>5. c + 1 \in 0..Window
          BY <2>2, <4>2
        <4> QED BY <4>4, <4>5 DEF Bounded, o
      <3> QED BY <3>3, <3>4
    <2>8. CASE ~Over(s) /\ ~Blocked(s)
      <3>1. s.attempts <= Attempts - 1 + m /\ b <= s.age
        BY <2>1, <2>4, <2>8 DEF Fits
      <3>2. o.age = s.age + 1 /\ o.left = 0
        BY <2>2, <2>3, <2>8 DEF Over, Blocked
      <3>3. /\ b <= o.age /\ o.attempts <= Attempts - 1 + m /\ ~Blocked(o)
            /\ o.attempts + w <= Attempts - 1 + (m + n)
        BY <2>2, <2>3, <2>4, <3>1, <3>2 DEF Blocked
      <3> QED BY <2>4, <2>5, <3>3 DEF Fits, Bounded, o
    <2> QED BY <2>6, <2>7, <2>8
  <1> QED BY <1>1, <1>2

(* Limited is kept: a handler is let in where there is no block, and a      *)
(* failure takes the handler that reports it off the key.                   *)
LEMMA CountInductive ==
    ASSUME CountInv, [Next]_vars PROVE CountInv'
  <1>1. LateInv' /\ LateInv /\ TypeOK /\ \A k \in Keys : Limited(k) /\ states[k] \in States
    BY LateInductive DEF CountInv, LateInv, TypeOK
  <1>2. SUFFICES ASSUME NEW k \in Keys PROVE Limited(k)'
    BY <1>1 DEF CountInv
  <1> DEFINE w == Cardinality(Working(k))
             v == Cardinality(Working(k)')
             n == AtOnce(k)
  <1>3. /\ w \in Nat /\ n \in Nat /\ w <= n /\ v \in Nat /\ v <= n
        /\ IsFiniteSet(Working(k)) /\ states[k] \in States /\ Bounded(states[k], w, n)
    <2>1. /\ Working(k) \subseteq Requests /\ Working(k)' \subseteq Requests
          /\ IsChallenge(k) => Working(k) = {} /\ Working(k)' = {}
      BY <1>1 DEF LateInv, LateKnown, Working, IsChallenge, ChallengeKey
    <2> QED BY <1>1, <2>1, FewAtOnce DEF Limited
  <1>4. Limited(k)' <=> Bounded(states'[k], v, n)
    BY DEF Limited, Bounded, Fits, Blocked, Over, AtOnce, ChallengeKey
  <1> HIDE DEF n
  <1>5. ASSUME states'[k] = states[k], v <= w PROVE Limited(k)'
    BY <1>3, <1>4, <1>5, FewerFit
  <1>6. ASSUME NEW r \in Requests, Returns(r)
        PROVE  v <= w /\ (k \in admitted[r].keys => (w >= 1 /\ v = w - 1))
    <2>1. Working(k)' = Working(k) \ {r} /\ (r \in Working(k) <=> k \in admitted[r].keys)
      BY <1>6 DEF Working, Returns, Nobody
    <2>2. CASE r \in Working(k)
      <3>1. Cardinality(Working(k) \ {r}) = w - 1
        BY <1>3, <2>2, FS_RemoveElement
      <3>2. v = w - 1
        BY <2>1, <3>1
      <3> HIDE DEF w, v
      <3> QED BY <1>3, <3>2
    <2>3. CASE r \notin Working(k)
      <3>1. v = w
        BY <2>1, <2>3
      <3> HIDE DEF w, v
      <3> QED BY <1>3, <2>1, <2>3, <3>1
    <2> QED BY <2>2, <2>3
  <1>7. ASSUME NEW r \in Requests, NEW keys \in SUBSET Keys, Enter(r, keys) PROVE Limited(k)'
    <2>1. /\ admitted[r].keys = {}
          /\ states'[k] = IF k \in keys THEN Checked(states[k]) ELSE states[k]
          /\ admitted'[r].keys \in {{}, keys}
          /\ admitted'[r].keys # {} => \A key \in keys : ~Blocked(states[key])
          /\ \A q \in Requests \ {r} : admitted'[q] = admitted[q]
      BY <1>1, <1>7, EnterEffect
    <2>2. CASE k \in keys /\ ~Blocked(states[k])
      BY <1>3, <1>4, <2>1, <2>2, CheckedFits
    <2>3. CASE ~(k \in keys /\ ~Blocked(states[k]))
      <3>1. states'[k] = states[k]
        BY <1>3, <2>1, <2>3, CheckedState
      <3>2. k \notin admitted'[r].keys
        BY <2>1, <2>3
      <3>3. Working(k)' = Working(k)
        BY <2>1, <3>2 DEF Working
      <3> QED BY <1>3, <1>5, <3>1, <3>3
    <2> QED BY <2>2, <2>3
  <1>8. ASSUME NEW r \in Requests, Fail(r) PROVE Limited(k)'
    <2>1. /\ Returns(r)
          /\ states'[k] = IF k \in admitted[r].keys THEN Failed(states[k]) ELSE states[k]
      BY <1>1, <1>8, FailEffect
    <2>2. CASE k \in admitted[r].keys
      <3>1. w >= 1 /\ v = w - 1
        BY <1>6, <2>1, <2>2
      <3> HIDE DEF w, v
      <3> QED BY <1>3, <1>4, <2>1, <2>2, <3>1, FailedFits
    <2> QED BY <1>5, <1>6, <2>1, <2>2
  <1>9. ASSUME NEW r \in Requests, Succeed(r) \/ Abort(r) PROVE Limited(k)'
    <2>1. Returns(r) /\ states'[k] \in {states[k], NoState}
      BY <1>1, <1>9, ReturnEffect
    <2> HIDE DEF w, v
    <2> QED BY <1>3, <1>4, <1>5, <1>6, <2>1, EmptyFits
  <1>10. ASSUME NEW a \in Addresses, RegisterChallenge(a) PROVE Limited(k)'
    <2>1. /\ admitted' = admitted
          /\ \/ states'[k] = states[k]
             \/ /\ IsChallenge(k) /\ ~Blocked(states[k])
                /\ states'[k] = Failed(Checked(states[k]))
      BY <1>1, <1>10, ChallengeEffect
    <2>2. Working(k)' = Working(k)
      BY <2>1 DEF Working
    <2>3. CASE states'[k] = states[k]
      BY <1>3, <1>5, <2>2, <2>3
    <2>4. CASE /\ IsChallenge(k) /\ ~Blocked(states[k])
               /\ states'[k] = Failed(Checked(states[k]))
      <3>1. v = 0 /\ n = 1
        <4>1. Working(k) = {}
          BY <1>1, <2>4 DEF LateInv, LateKnown, Working
        <4> QED BY <2>2, <2>4, <4>1, FS_EmptySet DEF AtOnce, IsChallenge, n
      <3>2. Bounded(Checked(states[k]), 1, 1) /\ Checked(states[k]) \in States
        BY <1>3, <2>4, <3>1, CheckedFits, CheckedState
      <3>3. Bounded(Failed(Checked(states[k])), 1 - 1, 1)
        BY <3>2, FailedFits
      <3> QED BY <1>4, <2>4, <3>1, <3>3
    <2> QED BY <2>1, <2>3, <2>4
  <1>11. ASSUME Tick PROVE Limited(k)'
    <2>1. states'[k] = Older(states[k]) /\ admitted' = admitted
      BY <1>1, <1>11, TickEffect
    <2>2. Working(k)' = Working(k)
      BY <2>1 DEF Working
    <2> QED BY <1>3, <1>4, <2>1, <2>2, OlderFits
  <1>12. ASSUME UNCHANGED vars PROVE Limited(k)'
    <2>1. states' = states /\ Working(k)' = Working(k)
      BY <1>12 DEF vars, Working
    <2> QED BY <1>3, <1>5, <2>1
  <1> QED BY <1>1, <1>7, <1>8, <1>9, <1>10, <1>11, <1>12, Steps

(* OvershootBounded: a key exceeds its limit at most by the handlers that   *)
(* were at work when it was reached, once for every block that fits into a  *)
(* window and once more; for a challenge a handler is one.                  *)
THEOREM LimitsHold == Spec => []OvershootBounded
  <1>1. Init => CountInv
    <2> SUFFICES ASSUME Init PROVE CountInv
      OBVIOUS
    <2>1. LateInv
      BY EmptyState DEF Init, LateInv, TypeOK, LateKnown, Nobody
    <2>2. ASSUME NEW k \in Keys PROVE Limited(k)
      <3>1. Working(k) = {} /\ states[k] = NoState
        BY DEF Init, Working, Nobody
      <3> QED BY <3>1, FewAtOnce, EmptyFits DEF Limited
    <2> QED BY <2>1, <2>2 DEF CountInv
  <1>2. CountInv /\ [Next]_vars => CountInv'
    BY CountInductive
  <1>3. CountInv => OvershootBounded
    <2> SUFFICES ASSUME CountInv, NEW k \in Keys
                 PROVE  states[k].attempts <= Attempts - 1 + (1 + Window \div Block) * AtOnce(k)
      BY DEF OvershootBounded
    <2>1. /\ Limited(k) /\ states[k] \in States
          /\ Working(k) \subseteq Requests /\ (IsChallenge(k) => Working(k) = {})
      BY DEF CountInv, LateInv, TypeOK, LateKnown, Working
    <2> DEFINE w == Cardinality(Working(k))
               n == AtOnce(k)
               q == Window \div Block
    <2>2. w \in Nat /\ n \in Nat
      BY <2>1, FewAtOnce
    <2>3. PICK c \in 0..Window : Fits(states[k], w, c, n)
      BY <2>1 DEF Limited, Bounded
    <2>4. q \in Nat /\ c \in Nat /\ c <= q
      BY <2>3, LimitsAssumption, RoundsOfWindow DEF Fits
    <2> HIDE DEF w, n, q
    <2>5. c * n \in Nat /\ (c + 1) * n = c * n + n /\ (1 + q) * n = q * n + n /\ c * n <= q * n
      <3>1. PICK d \in Nat : q = c + d
        <4>1. q - c \in Nat /\ q = c + (q - c)
          BY <2>4
        <4> QED BY <4>1
      <3>2. q * n = c * n + d * n /\ d * n \in Nat
        BY <2>2, <2>4, <3>1
      <3> QED BY <2>2, <2>4, <3>2
    <2> DEFINE m == c * n
               p == q * n
    <2>6. states[k].attempts <= Attempts - 1 + (m + n)
      <3>1. CASE Blocked(states[k]) \/ Over(states[k])
        <4>1. states[k].attempts + w <= Attempts - 1 + (m + n)
          BY <2>3, <2>5, <3>1 DEF Fits
        <4> HIDE DEF m
        <4> QED BY <2>1, <2>2, <2>5, <4>1, LimitsAssumption DEF States, m
      <3>2. CASE ~(Blocked(states[k]) \/ Over(states[k]))
        <4>1. states[k].attempts <= Attempts - 1 + m
          BY <2>3, <3>2 DEF Fits
        <4> HIDE DEF m
        <4> QED BY <2>1, <2>2, <2>5, <4>1, LimitsAssumption DEF States, m
      <3> QED BY <3>1, <3>2
    <2>7. m \in Nat /\ p \in Int /\ m <= p /\ (1 + q) * n = p + n
      BY <2>2, <2>4, <2>5
    <2> HIDE DEF m, p
    <2>8. states[k].attempts <= Attempts - 1 + (p + n)
      BY <2>1, <2>2, <2>6, <2>7, LimitsAssumption DEF States
    <2> QED BY <2>7, <2>8 DEF n, q
  <1> QED BY <1>1, <1>2, <1>3, PTL DEF Spec
=============================================================================
