--------------------------- MODULE RequestLimits ----------------------------
(* The limiters in front of login, registration and its challenges.  Each   *)
(* is a dictionary of fixed windows, one for each key of a request; the     *)
(* process that keeps it runs its handlers on one event loop, so that they  *)
(* interleave only where they await: between the check and the record.      *)
(*                                                                          *)
(* Time is relative: a window has an age, a block has time left.  The three *)
(* limiters share nothing, so a behaviour follows one of them.              *)
EXTENDS Naturals, FiniteSets

CONSTANTS Requests,   \* handlers running at a time
          Users,      \* the names clients give (and the e-mail that goes with it)
          Addresses,  \* the addresses they come from
          Attempts,   \* failures that start a block
          Window,     \* length of a window
          Block       \* length of a block

ASSUME LimitsAssumption == /\ IsFiniteSet(Requests)
                           /\ Attempts \in Nat \ {0}
                           /\ Window \in Nat \ {0}
                           /\ Block \in Nat \ {0}

(* login_rate_limit_keys *)
LoginKeys(u, a) == {<<"user", u>>, <<"ip", a>>}

(* registration_submit_rate_limit_keys, without and with an invite code *)
SubmitKeys(u, a, invited) ==
    {<<"submit ip", a>>, <<"submit username", u>>, <<"submit email", u>>}
    \cup (IF invited THEN {<<"submit invite", "code">>} ELSE {})

(* registration_challenge_rate_limit_key *)
ChallengeKey(a) == <<"challenge ip", a>>

Keys == UNION {LoginKeys(u, a) \cup SubmitKeys(u, a, TRUE) \cup {ChallengeKey(a)} :
                 u \in Users, a \in Addresses}

VARIABLES limiter, \* the limiter followed, by the endpoint it is for
          states,  \* its dictionary
          admitted \* for each handler that passed its check: its keys, and history:
                   \* those of them that were blocked meanwhile

vars == <<limiter, states, admitted>>

(* No entry has no attempts. *)
States  == [attempts : Nat, age : 0..(Window + 1), left : 0..Block]
NoState == [attempts |-> 0, age |-> 0, left |-> 0]

TypeOK == /\ limiter \in {"login", "register", "challenge"}
          /\ states \in [Keys -> States]
          /\ admitted \in [Requests -> [keys : SUBSET Keys, late : SUBSET Keys]]

Nobody == [keys |-> {}, late |-> {}]

Init == /\ limiter \in {"login", "register", "challenge"}
        /\ states = [k \in Keys |-> NoState]
        /\ admitted = [r \in Requests |-> Nobody]

-----------------------------------------------------------------------------
(* InMemoryRateLimiter *)

Blocked(s) == s.left > 0
Over(s)    == s.age > Window

(* Variant: a window that is over is dropped with the block it led to. *)
Checked_WindowFirst(s) == IF Over(s) THEN NoState ELSE s

(* Variant: an attempt that is turned away starts the block again. *)
Checked_Renews(s) == IF Blocked(s) THEN [s EXCEPT !.left = Block]
                     ELSE IF Over(s) THEN NoState ELSE s

(* retry_after drops a window that is over, unless it is blocked. *)
Checked(s) == IF ~Blocked(s) /\ Over(s) THEN NoState ELSE s

(* Variant: the limit is reached by the next failure only. *)
Failed_Beyond(s) ==
    LET new == s = NoState \/ Over(s)
        n   == IF new THEN 1 ELSE s.attempts + 1
    IN [attempts |-> n,
        age  |-> IF new THEN 0 ELSE s.age,
        left |-> IF n > Attempts THEN Block ELSE IF new THEN 0 ELSE s.left]

(* record_failure: a new window has no block yet. *)
Failed(s) ==
    LET new == s = NoState \/ Over(s)
        n   == IF new THEN 1 ELSE s.attempts + 1
    IN [attempts |-> n,
        age  |-> IF new THEN 0 ELSE s.age,
        left |-> IF n >= Attempts THEN Block ELSE IF new THEN 0 ELSE s.left]

(* record_success *)
Succeeded(s) == NoState

OnKeys(F(_), keys) == [k \in Keys |-> IF k \in keys THEN F(states[k]) ELSE states[k]]

-----------------------------------------------------------------------------
(* The check of every key of a request; a handler goes on if none blocks.   *)
Enter(r, keys) ==
    /\ admitted[r] = Nobody
    /\ states' = OnKeys(Checked, keys)
    /\ admitted' = [admitted EXCEPT ![r].keys =
                        IF \E k \in keys : Blocked(states[k]) THEN {} ELSE keys]
    /\ UNCHANGED limiter

(* POST /login *)
Login(r, u, a) == limiter = "login" /\ Enter(r, LoginKeys(u, a))

(* POST /register *)
Register(r, u, a, invited) == limiter = "register" /\ Enter(r, SubmitKeys(u, a, invited))

(* The password is wrong, the account is not active; the challenge, the     *)
(* invite or the name is rejected.                                          *)
Fail(r) ==
    /\ admitted[r] # Nobody
    /\ states' = OnKeys(Failed, admitted[r].keys)
    /\ admitted' = [q \in Requests |->
                       IF q = r THEN Nobody
                       ELSE [admitted[q] EXCEPT !.late =
                                @ \cup {k \in admitted[q].keys : Blocked(states'[k])}]]
    /\ UNCHANGED limiter

Succeed(r) ==
    /\ admitted[r] # Nobody
    /\ states' = OnKeys(Succeeded, admitted[r].keys)
    /\ admitted' = [admitted EXCEPT ![r] = Nobody]
    /\ UNCHANGED limiter

(* An exception the handler does not catch (the database, the unique index  *)
(* on the name) leaves the limiter as it is.                                *)
Abort(r) ==
    /\ admitted[r] # Nobody
    /\ admitted' = [admitted EXCEPT ![r] = Nobody]
    /\ UNCHANGED <<limiter, states>>

(* GET /register/challenge: checked and counted without an await between.  *)
RegisterChallenge(a) ==
    LET k == ChallengeKey(a)
    IN /\ limiter = "challenge"
       /\ states' = [states EXCEPT ![k] = IF Blocked(@) THEN @ ELSE Failed(Checked(@))]
       /\ UNCHANGED <<limiter, admitted>>

Tick ==
    /\ \E k \in Keys : states[k] # NoState
    /\ states' = [k \in Keys |->
                    IF states[k] = NoState THEN NoState
                    ELSE [states[k] EXCEPT !.age  = IF @ > Window THEN @ ELSE @ + 1,
                                           !.left = IF @ = 0 THEN 0 ELSE @ - 1]]
    /\ UNCHANGED <<limiter, admitted>>

-----------------------------------------------------------------------------
Next == \/ \E r \in Requests :
              \/ \E u \in Users, a \in Addresses : Login(r, u, a)
              \/ \E u \in Users, a \in Addresses, invited \in BOOLEAN : Register(r, u, a, invited)
              \/ Fail(r)
              \/ Succeed(r)
              \/ Abort(r)
        \/ \E a \in Addresses : RegisterChallenge(a)
        \/ Tick

Spec == Init /\ [][Next]_vars

(* Time passes, and every handler returns. *)
FairSpec == /\ Spec
            /\ WF_vars(Tick)
            /\ \A r \in Requests : WF_vars(Fail(r) \/ Succeed(r) \/ Abort(r))

-----------------------------------------------------------------------------
(* Properties.                                                              *)

(* How many find a key below its limit at one time. *)
AtOnce(k) == IF \E a \in Addresses : k = ChallengeKey(a) THEN 1 ELSE Cardinality(Requests)

(* Checking before and counting after lets a key fail more often than the   *)
(* limit, but only by the handlers that were at work at the same time; a    *)
(* challenge is checked and counted at once and counts as one.  A block     *)
(* that is not longer than its window runs out within it, and the next      *)
(* handlers find the attempts still counted: so much more for every block   *)
(* that fits into the window.                                               *)
OvershootBounded ==
    \A k \in Keys :
        states[k].attempts <= Attempts - 1 + (1 + Window \div Block) * AtOnce(k)

(* A block ends when its time has run out.  Before, it ends only through a  *)
(* handler that was at work on the key when it began: it succeeds, or it    *)
(* fails in a new window.                                                   *)
BlockIsServed ==
    [][\A k \in Keys : Blocked(states[k]) /\ ~Blocked(states'[k])
         => \/ Tick /\ states[k].left = 1
            \/ \E r \in Requests : k \in admitted[r].late /\ admitted'[r] = Nobody]_vars

(* The key of an address in the limiter followed. *)
AddressKey(a) == CASE limiter = "login"     -> <<"ip", a>>
                   [] limiter = "register"  -> <<"submit ip", a>>
                   [] limiter = "challenge" -> ChallengeKey(a)

(* The block of an address, which everybody behind it shares, ends:         *)
(* attempts that it turns away do not prolong it.                           *)
BlocksEnd ==
    \A a \in Addresses : Blocked(states[AddressKey(a)]) ~> ~Blocked(states[AddressKey(a)])
=============================================================================
