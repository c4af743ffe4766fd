-------------------------- MODULE TaskQueueProofs ---------------------------
(* Theorems about TaskQueue, for any number of tasks and workers and any    *)
(* values of the bounds.                                                    *)
EXTENDS TaskQueue, FiniteSetTheorems, SequenceTheorems, TLAPS

-----------------------------------------------------------------------------
(* Sequences of envelopes. *)

(* No two positions of s hold an envelope of the same task. *)
Distinct(s) == \A i, j \in DOMAIN s : s[i].id = s[j].id => i = j

(* Appending an envelope adds it to those of the list, and keeps the list   *)
(* distinct if its task was not there.                                      *)
LEMMA AppendedEnvelope ==
    ASSUME NEW s \in Seq(Envelope), NEW e \in Envelope
    PROVE  /\ Append(s, e) \in Seq(Envelope)
           /\ ToSet(Append(s, e)) = ToSet(s) \cup {e}
           /\ Distinct(s) /\ (\A f \in ToSet(s) : f.id # e.id) => Distinct(Append(s, e))
  <1>1. /\ Append(s, e) \in Seq(Envelope)
        /\ DOMAIN Append(s, e) = 1..(Len(s) + 1)
        /\ \A i \in 1..Len(s) : Append(s, e)[i] = s[i]
        /\ Append(s, e)[Len(s) + 1] = e
        /\ DOMAIN s = 1..Len(s) /\ Len(s) \in Nat
    OBVIOUS
  <1> QED BY <1>1 DEF ToSet, Distinct

(* The head of a distinct list is the only envelope the tail lacks. *)
LEMMA HeadTailEnvelope ==
    ASSUME NEW s \in Seq(Envelope), s # <<>>, Distinct(s)
    PROVE  /\ Head(s) \in ToSet(s) /\ Head(s) \in Envelope
           /\ Tail(s) \in Seq(Envelope) /\ Distinct(Tail(s))
           /\ ToSet(Tail(s)) = ToSet(s) \ {Head(s)}
           /\ \A f \in ToSet(Tail(s)) : f.id # Head(s).id
  <1>1. /\ Tail(s) \in Seq(Envelope)
        /\ Len(s) \in Nat \ {0} /\ DOMAIN s = 1..Len(s)
        /\ Head(s) = s[1] /\ s[1] \in Envelope
        /\ DOMAIN Tail(s) = 1..(Len(s) - 1)
        /\ \A i \in 1..(Len(s) - 1) : Tail(s)[i] = s[i + 1]
    OBVIOUS
  <1>2. \A i \in DOMAIN Tail(s) : i + 1 \in DOMAIN s /\ Tail(s)[i] = s[i + 1]
    BY <1>1
  <1>3. \A i \in DOMAIN s : i = 1 \/ (i - 1 \in DOMAIN Tail(s) /\ Tail(s)[i - 1] = s[i])
    BY <1>1
  <1>4. Distinct(Tail(s)) /\ \A i \in DOMAIN Tail(s) : Tail(s)[i].id # s[1].id
    BY <1>1, <1>2 DEF Distinct
  <1>5. ToSet(Tail(s)) \subseteq ToSet(s)
    BY <1>2 DEF ToSet
  <1>6. ToSet(s) \subseteq ToSet(Tail(s)) \cup {s[1]}
    BY <1>3 DEF ToSet
  <1>7. \A f \in ToSet(Tail(s)) : f.id # s[1].id
    BY <1>4 DEF ToSet
  <1>8. s[1] \in ToSet(s)
    BY <1>1 DEF ToSet
  <1> QED BY <1>1, <1>4, <1>5, <1>6, <1>7, <1>8

-----------------------------------------------------------------------------
(* The inductive invariant. *)

(* The envelopes in Redis that a worker can take. *)
Queued == ToSet(ready) \cup delayed

(* A task of which the queue or a process still has the envelope. *)
Placed(t) == \/ t \in created
             \/ \E e \in Queued : e.id = t
             \/ \E w \in Workers : Holds(w, t)

(* No two places have an envelope of the same task. *)
Apart ==
    /\ Distinct(ready)
    /\ \A e, f \in delayed : e.id = f.id => e = f
    /\ \A e \in ToSet(ready), f \in delayed : e.id # f.id
    /\ \A e \in Queued : e.id \notin created
    /\ \A w \in Workers : worker[w] # Idle =>
          /\ worker[w].task.id \notin created
          /\ \A e \in Queued : e.id # worker[w].task.id
          /\ \A x \in Workers : Holds(x, worker[w].task.id) => x = w

(* Only tasks that have a row are anywhere. *)
Enlisted ==
    /\ \A t \in Tasks : Placed(t) => row[t] # "none"
    /\ \A t \in ToSet(dead) : row[t] # "none" /\ ~Placed(t)

(* How often a task was started is bounded by the attempts its envelope     *)
(* counts.                                                                  *)
StartsCounted ==
    /\ \A t \in Tasks : /\ starts[t] <= MaxAttempts
                        /\ row[t] = "none" \/ t \in created => starts[t] = 0
    /\ \A e \in Queued : e.attempts < MaxAttempts /\ starts[e.id] <= e.attempts
    /\ \A w \in Workers : worker[w] # Idle =>
          /\ worker[w].task.attempts < MaxAttempts
          /\ starts[worker[w].task.id] <= worker[w].task.attempts + 1
          /\ worker[w].pc \in {"moving", "popped"} =>
                starts[worker[w].task.id] <= worker[w].task.attempts
          /\ At(w, "retrying") => worker[w].task.attempts + 1 < MaxAttempts

(* A task that is going to be handled has been handled no more often than   *)
(* calls have failed.                                                       *)
EndsCounted ==
    /\ \A t \in Tasks : /\ completions[t] <= 1 + faults
                        /\ row[t] = "none" \/ t \in created => completions[t] = 0
    /\ \A e \in Queued : completions[e.id] <= faults
    /\ \A w \in Workers : worker[w] # Idle /\ worker[w].pc \notin {"handled", "succeeded"} =>
          completions[worker[w].task.id] <= faults

(* Where the row and the place of a task belong together. *)
Recorded ==
    /\ \A w \in Workers : worker[w] # Idle =>
          /\ At(w, "burying") <=> row[worker[w].task.id] = "dead"
          /\ At(w, "succeeded") => row[worker[w].task.id] = "succeeded"
    /\ \A e \in Queued : row[e.id] # "dead"
    /\ \A t \in created : row[t] # "dead"
    /\ \A t \in Tasks : row[t] \notin {"none", "succeeded", "dead"} => Placed(t) \/ t \in lost

QueueInv == TypeOK /\ Apart /\ Enlisted /\ StartsCounted /\ EndsCounted /\ Recorded /\ DeadIsBuried
-----------------------------------------------------------------------------
(* Steps of the workers. *)

(* A worker at a label has an envelope. *)
LEMMA BusyWorker ==
    ASSUME TypeOK, NEW w \in Workers, worker[w] # Idle
    PROVE  /\ worker[w] \in [pc : Labels, task : Envelope, retryable : BOOLEAN]
           /\ worker[w].task \in Envelope /\ worker[w].task.id \in Tasks
  BY DEF TypeOK, Envelope

(* A worker goes on with the envelope it has. *)
GoesOn(w) ==
    /\ worker[w] # Idle
    /\ \E pc \in Labels, retryable \in BOOLEAN :
          worker' = [worker EXCEPT ![w] = [pc |-> pc, task |-> worker[w].task,
                                           retryable |-> retryable]]
    /\ UNCHANGED <<created, ready, delayed, dead, lost>>

LEMMA StepsThatGoOn ==
    ASSUME TypeOK, NEW w \in Workers,
           \/ MarkRunning(w) \/ HandlerSucceeds(w) \/ MarkSucceeded(w) \/ MarkFailed(w) \/ CallFails(w)
           \/ \E retryable \in BOOLEAN : HandlerFails(w, retryable)
    PROVE  GoesOn(w)
  <1>1. worker[w] # Idle
    BY DEF MarkRunning, HandlerSucceeds, MarkSucceeded, MarkFailed, CallFails, HandlerFails, At, Idle
  <1>2. worker[w] \in [pc : Labels, task : Envelope, retryable : BOOLEAN]
    BY <1>1, BusyWorker
  <1>3. ASSUME NEW pc \in Labels, Goto(w, pc)
        PROVE  worker' = [worker EXCEPT ![w] = [pc |-> pc, task |-> worker[w].task,
                                                retryable |-> worker[w].retryable]]
    <2>1. [worker[w] EXCEPT !.pc = pc] =
             [pc |-> pc, task |-> worker[w].task, retryable |-> worker[w].retryable]
      BY <1>2
    <2> QED BY <2>1, <1>3 DEF Goto, TypeOK
  <1>4. CASE MarkRunning(w)
    BY <1>1, <1>2, <1>3, <1>4 DEF MarkRunning, GoesOn, Labels
  <1>5. CASE HandlerSucceeds(w)
    BY <1>1, <1>2, <1>3, <1>5 DEF HandlerSucceeds, GoesOn, Labels
  <1>6. CASE MarkSucceeded(w)
    BY <1>1, <1>2, <1>3, <1>6 DEF MarkSucceeded, GoesOn, Labels
  <1>7. CASE MarkFailed(w)
    BY <1>1, <1>2, <1>3, <1>7 DEF MarkFailed, GoesOn, Labels
  <1>8. CASE CallFails(w)
    BY <1>1, <1>2, <1>3, <1>8 DEF CallFails, GoesOn, Labels
  <1>9. ASSUME NEW r \in BOOLEAN, HandlerFails(w, r) PROVE GoesOn(w)
    <2>1. worker' = [worker EXCEPT ![w] = [pc |-> "failing", task |-> worker[w].task, retryable |-> r]]
      <3>1. [worker[w] EXCEPT !.pc = "failing", !.retryable = r] =
               [pc |-> "failing", task |-> worker[w].task, retryable |-> r]
        <4> DEFINE x == [worker[w] EXCEPT !.pc = "failing"]
        <4>1. x \in [pc : Labels, task : Envelope, retryable : BOOLEAN]
              /\ x.pc = "failing" /\ x.task = worker[w].task
          BY <1>2 DEF Labels
        <4> HIDE DEF x
        <4>2. [x EXCEPT !.retryable = r] = [pc |-> "failing", task |-> worker[w].task, retryable |-> r]
          BY <4>1
        <4> QED BY <4>2 DEF x
      <3> QED BY <3>1, <1>9 DEF HandlerFails, TypeOK
    <2> QED BY <1>1, <2>1, <1>9 DEF HandlerFails, GoesOn, Labels
  <1> QED BY <1>4, <1>5, <1>6, <1>7, <1>8, <1>9

-----------------------------------------------------------------------------
(* Type correctness. *)

(* Every step keeps the types. *)
LEMMA TypeInductive == TypeOK /\ [Next]_vars => TypeOK'
  <1> SUFFICES ASSUME TypeOK, [Next]_vars PROVE TypeOK'
    OBVIOUS
  <1>1. ASSUME NEW t \in Tasks, NEW s \in {"queued", "delayed"}, Enqueue(t, s) PROVE TypeOK'
    BY <1>1 DEF Enqueue, TypeOK, Statuses
  <1>2. ASSUME NEW t \in Tasks, PushCreated(t) PROVE TypeOK'
    <2>1. [id |-> t, attempts |-> 0] \in Envelope
      BY DEF Envelope
    <2> QED BY <1>2, <2>1, AppendedEnvelope DEF PushCreated, Push, TypeOK
  <1>3. ASSUME NEW t \in Tasks, ProducerFails(t) PROVE TypeOK'
    BY <1>3 DEF ProducerFails, TypeOK
  <1>4. ASSUME NEW w \in Workers, NEW e \in delayed, TakeDue(w, e) PROVE TypeOK'
    BY <1>4 DEF TakeDue, TypeOK, Job, Labels
  <1>5. ASSUME NEW w \in Workers, Promote(w) PROVE TypeOK'
    <2>1. worker[w] # Idle
      BY <1>5 DEF Promote, At, Idle
    <2> QED BY <1>5, <2>1, BusyWorker, AppendedEnvelope DEF Promote, Rest, TypeOK
  <1>6. ASSUME NEW w \in Workers, Pop(w) PROVE TypeOK'
    <2>1. Head(ready) \in Envelope /\ Tail(ready) \in Seq(Envelope)
      BY <1>6 DEF Pop, TypeOK
    <2> QED BY <1>6, <2>1 DEF Pop, TypeOK, Job, Labels
  <1>7. ASSUME NEW w \in Workers, EndTask(w) PROVE TypeOK'
    BY <1>7 DEF EndTask, Rest, TypeOK
  <1>8. ASSUME NEW w \in Workers, PushFailed(w) PROVE TypeOK'
    <2>1. worker[w] # Idle
      BY <1>8 DEF PushFailed, At, Idle
    <2>2. worker[w].task \in Envelope
      BY <2>1, BusyWorker
    <2>3. [worker[w].task EXCEPT !.attempts = @ + 1] \in Envelope
      BY <2>2 DEF Envelope
    <2>4. dead' \in Seq(Tasks)
      <3>1. worker[w].task.id \in Tasks /\ dead \in Seq(Tasks)
        BY <2>2 DEF Envelope, TypeOK
      <3>2. dead' = dead \/ dead' = Append(dead, worker[w].task.id)
        BY <1>8 DEF PushFailed
      <3> QED BY <3>1, <3>2
    <2> QED BY <1>8, <2>3, <2>4, AppendedEnvelope DEF PushFailed, Push, Rest, TypeOK
  <1>9. ASSUME NEW w \in Workers, Crash(w) PROVE TypeOK'
    BY <1>9, BusyWorker DEF Crash, Rest, TypeOK
  <1>10. ASSUME NEW w \in Workers, GoesOn(w) PROVE worker' \in [Workers -> [pc : Labels, task : Envelope, retryable : BOOLEAN] \cup {Idle}]
    BY <1>10, BusyWorker DEF GoesOn, TypeOK
  <1>11. ASSUME NEW w \in Workers,
                \/ MarkRunning(w) \/ HandlerSucceeds(w) \/ MarkSucceeded(w) \/ MarkFailed(w) \/ CallFails(w)
                \/ \E retryable \in BOOLEAN : HandlerFails(w, retryable)
         PROVE  TypeOK'
    <2>1. worker[w] # Idle /\ worker[w].task.id \in Tasks
      BY <1>11, StepsThatGoOn, BusyWorker DEF GoesOn
    <2>2. worker' \in [Workers -> [pc : Labels, task : Envelope, retryable : BOOLEAN] \cup {Idle}]
      BY <1>10, <1>11, StepsThatGoOn
    <2>3. CASE MarkRunning(w)
      BY <2>1, <2>2, <2>3 DEF MarkRunning, TypeOK, Statuses
    <2>4. CASE HandlerSucceeds(w)
      BY <2>1, <2>2, <2>4 DEF HandlerSucceeds, TypeOK
    <2>5. CASE MarkSucceeded(w)
      BY <2>1, <2>2, <2>5 DEF MarkSucceeded, TypeOK, Statuses
    <2>6. CASE MarkFailed(w)
      BY <2>1, <2>2, <2>6 DEF MarkFailed, TypeOK, Statuses
    <2>7. CASE CallFails(w)
      BY <2>2, <2>7 DEF CallFails, TypeOK
    <2>8. CASE \E retryable \in BOOLEAN : HandlerFails(w, retryable)
      BY <2>2, <2>8 DEF HandlerFails, TypeOK
    <2> QED BY <1>11, <2>3, <2>4, <2>5, <2>6, <2>7, <2>8
  <1>12. CASE UNCHANGED vars
    BY <1>12 DEF vars, TypeOK
  <1> QED BY <1>1, <1>2, <1>3, <1>4, <1>5, <1>6, <1>7, <1>8, <1>9, <1>11, <1>12 DEF Next, WorkerStep

(* The rows, the Redis structures and the workers' envelopes are well       *)
(* formed in every reachable state.                                         *)
THEOREM TypeCorrect == Spec => []TypeOK
  <1>1. Init => TypeOK
    BY DEF Init, TypeOK, Statuses
  <1> QED BY <1>1, TypeInductive, PTL DEF Spec
-----------------------------------------------------------------------------
(* A task is in one place. *)

(* What moving an envelope into the list or the sorted set does to the      *)
(* envelopes in Redis.                                                      *)
LEMMA PushedEnvelope ==
    ASSUME TypeOK, Apart, NEW e \in Envelope, NEW d \in BOOLEAN, Push(e, d),
           \A f \in Queued : f.id # e.id
    PROVE  /\ Queued' = Queued \cup {e}
           /\ Distinct(ready')
           /\ \A f, g \in delayed' : f.id = g.id => f = g
           /\ \A f \in ToSet(ready'), g \in delayed' : f.id # g.id
  <1>1. ready \in Seq(Envelope)
    BY DEF TypeOK
  <1>2. CASE d
    BY <1>2 DEF Push, Queued, Apart
  <1>3. CASE ~d
    <2>1. ready' = Append(ready, e) /\ delayed' = delayed
      BY <1>3 DEF Push
    <2>2. ToSet(ready') = ToSet(ready) \cup {e} /\ Distinct(ready')
      BY <1>1, <2>1, AppendedEnvelope DEF Apart, Queued
    <2> QED BY <2>1, <2>2 DEF Queued, Apart
  <1> QED BY <1>2, <1>3

(* A step of one worker. *)
OnlyWorker(w) == \A x \in Workers \ {w} : worker'[x] = worker[x]

(* A new task moves from its producer into Redis. *)
LEMMA PushedByProducer ==
    ASSUME TypeOK, Apart, NEW t \in Tasks, PushCreated(t)
    PROVE  \E e \in Envelope :
              /\ e.id = t /\ e.attempts = 0
              /\ Queued' = Queued \cup {e}
              /\ Distinct(ready')
              /\ \A f, g \in delayed' : f.id = g.id => f = g
              /\ \A f \in ToSet(ready'), g \in delayed' : f.id # g.id
  <1> DEFINE e == [id |-> t, attempts |-> 0]
  <1>1. e \in Envelope /\ e.id = t /\ e.attempts = 0
    BY DEF Envelope
  <1>2. \A f \in Queued : f.id # e.id
    BY <1>1 DEF PushCreated, Apart
  <1>3. Push(e, row[t] = "delayed")
    BY DEF PushCreated
  <1> HIDE DEF e
  <1> QED BY <1>1, <1>2, <1>3, PushedEnvelope

(* An envelope moves from a worker into Redis. *)
LEMMA PushedByWorker ==
    ASSUME TypeOK, Apart, NEW w \in Workers,
           Promote(w) \/ (At(w, "retrying") /\ PushFailed(w))
    PROVE  /\ worker[w] # Idle /\ worker'[w] = Idle /\ OnlyWorker(w)
           /\ UNCHANGED <<row, created, dead, completions, starts, faults, lost>>
           /\ \E e \in Envelope :
                 /\ e.id = worker[w].task.id
                 /\ e.attempts = worker[w].task.attempts + (IF At(w, "retrying") THEN 1 ELSE 0)
                 /\ Queued' = Queued \cup {e}
                 /\ Distinct(ready')
                 /\ \A f, g \in delayed' : f.id = g.id => f = g
                 /\ \A f \in ToSet(ready'), g \in delayed' : f.id # g.id
  <1>1. /\ worker[w] # Idle /\ worker'[w] = Idle /\ OnlyWorker(w)
        /\ UNCHANGED <<row, created, dead, completions, starts, faults, lost>>
    BY DEF Promote, PushFailed, At, Idle, Rest, OnlyWorker, TypeOK
  <1>2. worker[w].task \in Envelope /\ \A f \in Queued : f.id # worker[w].task.id
    BY <1>1, BusyWorker DEF Apart
  <1>3. CASE Promote(w)
    <2>1. Push(worker[w].task, FALSE) /\ ~At(w, "retrying")
      BY <1>3 DEF Promote, Push, At
    <2>2. worker[w].task.attempts + 0 = worker[w].task.attempts
      BY <1>2 DEF Envelope
    <2> QED BY <1>1, <1>2, <2>1, <2>2, PushedEnvelope
  <1>4. CASE At(w, "retrying") /\ PushFailed(w)
    <2> DEFINE e == [worker[w].task EXCEPT !.attempts = @ + 1]
    <2>1. e \in Envelope /\ e.id = worker[w].task.id /\ e.attempts = worker[w].task.attempts + 1
      BY <1>2 DEF Envelope
    <2>2. Push(e, RetryDelayed)
      BY <1>4 DEF PushFailed, At
    <2>3. \A f \in Queued : f.id # e.id
      BY <1>2, <2>1
    <2> HIDE DEF e
    <2> QED BY <1>1, <1>4, <2>1, <2>2, <2>3, PushedEnvelope, QueueAssumption
  <1> QED BY <1>3, <1>4

(* An envelope moves from Redis to a worker. *)
LEMMA TakenByWorker ==
    ASSUME TypeOK, Apart, NEW w \in Workers, Pop(w) \/ \E e \in delayed : TakeDue(w, e)
    PROVE  /\ worker[w] = Idle /\ worker'[w] # Idle /\ OnlyWorker(w)
           /\ worker'[w].pc \in {"moving", "popped"}
           /\ worker'[w].task \in Queued
           /\ Queued' = Queued \ {worker'[w].task}
           /\ \A f \in Queued' : f.id # worker'[w].task.id
           /\ Distinct(ready') /\ ToSet(ready') \subseteq ToSet(ready) /\ delayed' \subseteq delayed
           /\ UNCHANGED <<row, created, dead, completions, starts, faults, lost>>
  <1>1. ASSUME NEW e \in delayed, TakeDue(w, e)
        PROVE  /\ worker[w] = Idle /\ worker'[w] = Job("moving", e) /\ OnlyWorker(w)
               /\ delayed' = delayed \ {e} /\ ready' = ready
               /\ UNCHANGED <<row, created, dead, completions, starts, faults, lost>>
    BY <1>1 DEF TakeDue, OnlyWorker, TypeOK
  <1>2. CASE \E e \in delayed : TakeDue(w, e)
    <2>1. PICK e \in delayed : TakeDue(w, e)
      BY <1>2
    <2>2. worker'[w] = Job("moving", e)
      BY <1>1, <2>1
    <2>3. worker'[w].task = e /\ worker'[w].pc = "moving" /\ worker'[w] # Idle
      BY <2>2 DEF Job, Idle
    <2> QED BY <1>1, <2>1, <2>3 DEF Queued, Apart
  <1>3. CASE Pop(w)
    <2> DEFINE e == Head(ready)
    <2>1. /\ worker[w] = Idle /\ worker'[w] = Job("popped", e) /\ OnlyWorker(w)
          /\ delayed' = delayed /\ ready # <<>> /\ ready' = Tail(ready)
          /\ UNCHANGED <<row, created, dead, completions, starts, faults, lost>>
      BY <1>3 DEF Pop, OnlyWorker, TypeOK
    <2>2. worker'[w].task = e /\ worker'[w].pc = "popped" /\ worker'[w] # Idle
      BY <2>1 DEF Job, Idle
    <2>3. /\ e \in ToSet(ready) /\ Distinct(ready') /\ ToSet(ready') = ToSet(ready) \ {e}
          /\ \A f \in ToSet(ready') : f.id # e.id
      BY <2>1, HeadTailEnvelope DEF TypeOK, Apart
    <2> HIDE DEF e
    <2> QED BY <2>1, <2>2, <2>3 DEF Queued, Apart
  <1> QED BY <1>2, <1>3

(* A worker that rests has nothing. *)
Rests(w) == /\ worker' = [worker EXCEPT ![w] = Idle]
            /\ UNCHANGED <<created, ready, delayed>>

(* Every step leaves each task in one place. *)
LEMMA ApartInductive == TypeOK /\ Apart /\ Enlisted /\ [Next]_vars => Apart'
  <1> SUFFICES ASSUME TypeOK, Apart, Enlisted, [Next]_vars PROVE Apart'
    OBVIOUS
  <1>1. ASSUME NEW t \in Tasks, NEW s \in {"queued", "delayed"}, Enqueue(t, s) PROVE Apart'
    <2>1. ~Placed(t)
      BY <1>1 DEF Enqueue, Enlisted
    <2> QED BY <1>1, <2>1 DEF Enqueue, Apart, Placed, Queued, Holds
  <1>2. ASSUME NEW t \in Tasks, PushCreated(t) PROVE Apart'
    <2>1. t \in created /\ created' = created \ {t} /\ worker' = worker
      BY <1>2 DEF PushCreated
    <2> QED BY <1>2, <2>1, PushedByProducer DEF Apart, Holds
  <1>3. ASSUME NEW t \in Tasks, ProducerFails(t) PROVE Apart'
    BY <1>3 DEF ProducerFails, Apart, Queued, Holds
  <1>4. ASSUME NEW w \in Workers, Pop(w) \/ \E e \in delayed : TakeDue(w, e) PROVE Apart'
    BY <1>4, TakenByWorker DEF Apart, Holds, OnlyWorker, Queued
  <1>5. ASSUME NEW w \in Workers, Promote(w) \/ (At(w, "retrying") /\ PushFailed(w)) PROVE Apart'
    BY <1>5, PushedByWorker DEF Apart, Holds, OnlyWorker
  <1>7. ASSUME NEW w \in Workers, Rests(w) PROVE Apart'
    <2>1. worker'[w] = Idle /\ \A x \in Workers \ {w} : worker'[x] = worker[x]
      BY <1>7 DEF Rests, TypeOK
    <2> QED BY <1>7, <2>1 DEF Rests, Apart, Queued, Holds
  <1>8. ASSUME NEW w \in Workers, PushFailed(w) PROVE Apart'
    BY <1>5, <1>7, <1>8 DEF PushFailed, Rests, Rest, At
  <1>9. ASSUME NEW w \in Workers, GoesOn(w) PROVE Apart'
    <2>1. /\ worker[w] # Idle /\ worker'[w] # Idle /\ worker'[w].task = worker[w].task
          /\ \A x \in Workers \ {w} : worker'[x] = worker[x]
      BY <1>9 DEF GoesOn, Idle, TypeOK
    <2> QED BY <1>9, <2>1 DEF GoesOn, Apart, Queued, Holds
  <1>10. CASE UNCHANGED vars
    BY <1>10 DEF vars, Apart, Queued, Holds
  <1> QED BY <1>1, <1>2, <1>3, <1>4, <1>5, <1>7, <1>8, <1>9, <1>10, StepsThatGoOn
          DEF Next, WorkerStep, EndTask, Crash, Rest, Rests
-----------------------------------------------------------------------------
(* Where tasks come from and where they go. *)

(* A task is somewhere only after it was enqueued, and ceases to be         *)
(* anywhere only when it is lost, or when its worker has recorded the end.  *)
LEMMA ComingAndGoing ==
    ASSUME TypeOK, Apart, [Next]_vars, NEW t \in Tasks
    PROVE  /\ row[t] # "none" => row'[t] # "none"
           /\ Placed(t)' /\ ~Placed(t) => row[t] = "none" /\ row'[t] # "none"
           /\ Placed(t) /\ ~Placed(t)' =>
                 \/ t \in lost'
                 \/ /\ row' = row
                    /\ \E w \in Workers : /\ Holds(w, t)
                                          /\ At(w, "succeeded") \/ (At(w, "burying") /\ PushFailed(w))
  <1> DEFINE Goal == /\ row[t] # "none" => row'[t] # "none"
                     /\ Placed(t)' /\ ~Placed(t) => row[t] = "none" /\ row'[t] # "none"
                     /\ Placed(t) /\ ~Placed(t)' =>
                           \/ t \in lost'
                           \/ /\ row' = row
                              /\ \E w \in Workers :
                                    /\ Holds(w, t)
                                    /\ At(w, "succeeded") \/ (At(w, "burying") /\ PushFailed(w))
  <1> SUFFICES Goal
    OBVIOUS
  <1>1. ASSUME NEW u \in Tasks, NEW s \in {"queued", "delayed"}, Enqueue(u, s) PROVE Goal
    BY <1>1 DEF Enqueue, Placed, Queued, Holds, TypeOK
  <1>2. ASSUME NEW u \in Tasks, PushCreated(u) PROVE Goal
    <2>1. u \in created /\ created' = created \ {u} /\ worker' = worker /\ row' = row
      BY <1>2 DEF PushCreated
    <2> QED BY <1>2, <2>1, PushedByProducer DEF Placed, Holds
  <1>3. ASSUME NEW u \in Tasks, ProducerFails(u) PROVE Goal
    BY <1>3 DEF ProducerFails, Placed, Queued, Holds
  <1>4. ASSUME NEW w \in Workers, Pop(w) \/ \E e \in delayed : TakeDue(w, e) PROVE Goal
    BY <1>4, TakenByWorker DEF Placed, Holds, OnlyWorker
  <1>5. ASSUME NEW w \in Workers, Promote(w) \/ (At(w, "retrying") /\ PushFailed(w)) PROVE Goal
    BY <1>5, PushedByWorker DEF Placed, Holds, OnlyWorker
  <1>7. ASSUME NEW w \in Workers, Rests(w) PROVE \A u \in Tasks : Placed(u)' => Placed(u)
    <2>1. worker'[w] = Idle /\ \A x \in Workers \ {w} : worker'[x] = worker[x]
      BY <1>7 DEF Rests, TypeOK
    <2> QED BY <1>7, <2>1 DEF Rests, Placed, Queued, Holds
  <1>8. ASSUME NEW w \in Workers, Rests(w), Placed(t), ~Placed(t)' PROVE Holds(w, t)
    <2>1. worker'[w] = Idle /\ \A x \in Workers \ {w} : worker'[x] = worker[x]
      BY <1>8 DEF Rests, TypeOK
    <2> QED BY <1>8, <2>1 DEF Rests, Placed, Queued, Holds
  <1>9. ASSUME NEW w \in Workers, EndTask(w) PROVE Goal
    BY <1>7, <1>8, <1>9 DEF EndTask, Rests, Rest
  <1>10. ASSUME NEW w \in Workers, Crash(w) PROVE Goal
    BY <1>7, <1>8, <1>10 DEF Crash, Rests, Rest, Holds
  <1>11. ASSUME NEW w \in Workers, PushFailed(w) PROVE Goal
    BY <1>5, <1>7, <1>8, <1>11 DEF PushFailed, Rests, Rest, At
  <1>12. ASSUME NEW w \in Workers, GoesOn(w) PROVE Placed(t)' <=> Placed(t)
    <2>1. /\ worker[w] # Idle /\ worker'[w] # Idle /\ worker'[w].task = worker[w].task
          /\ \A x \in Workers \ {w} : worker'[x] = worker[x]
      BY <1>12 DEF GoesOn, Idle, TypeOK
    <2> QED BY <1>12, <2>1 DEF GoesOn, Placed, Queued, Holds
  <1>13. ASSUME NEW w \in Workers,
                \/ MarkRunning(w) \/ HandlerSucceeds(w) \/ MarkSucceeded(w) \/ MarkFailed(w) \/ CallFails(w)
                \/ \E retryable \in BOOLEAN : HandlerFails(w, retryable)
         PROVE  Goal
    <2>1. Placed(t)' <=> Placed(t)
      BY <1>12, <1>13, StepsThatGoOn
    <2>2. row[t] # "none" => row'[t] # "none"
      BY <1>13 DEF MarkRunning, HandlerSucceeds, MarkSucceeded, MarkFailed, CallFails, HandlerFails, TypeOK
    <2> QED BY <2>1, <2>2
  <1>14. CASE UNCHANGED vars
    BY <1>14 DEF vars, Placed, Queued, Holds
  <1> HIDE DEF Goal
  <1> QED BY <1>1, <1>2, <1>3, <1>4, <1>5, <1>9, <1>10, <1>11, <1>13, <1>14 DEF Next, WorkerStep

(* Only a worker that buries a task changes the dead-letter list. *)
LEMMA Burial ==
    ASSUME [Next]_vars, dead' # dead
    PROVE  \E w \in Workers : /\ At(w, "burying") /\ PushFailed(w)
                              /\ dead' = Append(dead, worker[w].task.id)
  BY DEF Next, WorkerStep, vars, Enqueue, PushCreated, ProducerFails, TakeDue, Promote, Pop, MarkRunning,
         HandlerSucceeds, HandlerFails, MarkSucceeded, EndTask, MarkFailed, PushFailed, CallFails, Crash, At

(* What burying a task does to the dead-letter list and to the task. *)
LEMMA BuriedTask ==
    ASSUME TypeOK, Apart, NEW w \in Workers, At(w, "burying"), PushFailed(w)
    PROVE  /\ worker[w] # Idle /\ worker[w].task.id \in Tasks
           /\ dead' = Append(dead, worker[w].task.id)
           /\ ToSet(dead') = ToSet(dead) \cup {worker[w].task.id}
           /\ IsInjective(dead) /\ worker[w].task.id \notin ToSet(dead) => IsInjective(dead')
           /\ \A t \in Tasks : Holds(w, t) => ~Placed(t)'
           /\ row' = row
  <1>1. worker[w] # Idle
    BY DEF At, Idle
  <1>2. worker[w].task.id \in Tasks
    BY <1>1, BusyWorker
  <1>3. /\ dead' = Append(dead, worker[w].task.id) /\ row' = row
        /\ Rest(w) /\ UNCHANGED <<created, ready, delayed>>
    BY DEF PushFailed, At
  <1>4. dead \in Seq(Tasks)
    BY DEF TypeOK
  <1>5. /\ DOMAIN dead' = 1..(Len(dead) + 1) /\ DOMAIN dead = 1..Len(dead) /\ Len(dead) \in Nat
        /\ \A i \in 1..Len(dead) : dead'[i] = dead[i]
        /\ dead'[Len(dead) + 1] = worker[w].task.id
    BY <1>2, <1>3, <1>4
  <1>6. ToSet(dead') = ToSet(dead) \cup {worker[w].task.id}
    BY <1>5 DEF ToSet
  <1>7. ASSUME IsInjective(dead), worker[w].task.id \notin ToSet(dead) PROVE IsInjective(dead')
    BY <1>5, <1>7 DEF IsInjective, ToSet
  <1>8. worker'[w] = Idle /\ \A x \in Workers \ {w} : worker'[x] = worker[x]
    BY <1>3 DEF Rest, TypeOK
  <1>9. ASSUME NEW t \in Tasks, Holds(w, t) PROVE ~Placed(t)'
    BY <1>1, <1>3, <1>8, <1>9 DEF Apart, Placed, Queued, Holds
  <1> QED BY <1>1, <1>2, <1>3, <1>6, <1>7, <1>9

(* What is in Redis are envelopes. *)
LEMMA QueuedEnvelopes == TypeOK => Queued \subseteq Envelope
  <1> SUFFICES ASSUME TypeOK PROVE Queued \subseteq Envelope
    OBVIOUS
  <1>1. ready \in Seq(Envelope)
    BY DEF TypeOK
  <1>2. \A i \in DOMAIN ready : ready[i] \in Envelope
    BY <1>1
  <1> QED BY <1>2 DEF TypeOK, Queued, ToSet

(* Only tasks that have a row are anywhere, and the dead are nowhere. *)
LEMMA EnlistedInductive == TypeOK /\ Apart /\ Enlisted /\ [Next]_vars => Enlisted'
  <1> SUFFICES ASSUME TypeOK, Apart, Enlisted, [Next]_vars PROVE Enlisted'
    OBVIOUS
  <1>1. ASSUME NEW t \in Tasks, Placed(t)' PROVE row'[t] # "none"
    BY <1>1, ComingAndGoing DEF Enlisted
  <1>2. ASSUME NEW t \in ToSet(dead) PROVE row'[t] # "none" /\ ~Placed(t)'
    <2>1. t \in Tasks
      BY DEF TypeOK, ToSet
    <2> QED BY <2>1, ComingAndGoing DEF Enlisted
  <1>3. ASSUME NEW t \in ToSet(dead'), t \notin ToSet(dead) PROVE row'[t] # "none" /\ ~Placed(t)'
    <2>1. PICK w \in Workers : At(w, "burying") /\ PushFailed(w)
      BY <1>3, Burial
    <2>2. t \in Tasks /\ Holds(w, t) /\ row' = row
      BY <1>3, <2>1, BuriedTask DEF Holds
    <2>3. Placed(t)
      BY <2>2 DEF Placed
    <2> QED BY <2>1, <2>2, <2>3, BuriedTask DEF Enlisted
  <1> QED BY <1>1, <1>2, <1>3 DEF Enlisted

-----------------------------------------------------------------------------
(* Rows and places belong together. *)

(* Only the worker that has a task, or its producer, changes its row. *)
LEMMA RowsOfOthers ==
    ASSUME TypeOK, [Next]_vars, NEW t \in Tasks, row'[t] # row[t]
    PROVE  \/ row[t] = "none" /\ \E s \in {"queued", "delayed"} : Enqueue(t, s)
           \/ \E w \in Workers : /\ Holds(w, t)
                                 /\ MarkRunning(w) \/ MarkSucceeded(w) \/ MarkFailed(w)
  <1>1. ASSUME NEW u \in Tasks, NEW s \in {"queued", "delayed"}, Enqueue(u, s)
        PROVE  u = t /\ row[t] = "none"
    BY <1>1 DEF Enqueue, TypeOK
  <1>2. ASSUME NEW w \in Workers, MarkRunning(w) \/ MarkSucceeded(w) \/ MarkFailed(w) PROVE Holds(w, t)
    BY <1>2 DEF MarkRunning, MarkSucceeded, MarkFailed, TypeOK, Holds, At, Idle
  <1>3. ASSUME NEW w \in Workers,
               \/ Promote(w) \/ Pop(w) \/ HandlerSucceeds(w) \/ EndTask(w) \/ PushFailed(w)
               \/ CallFails(w) \/ Crash(w) \/ \E r \in BOOLEAN : HandlerFails(w, r)
               \/ \E e \in delayed : TakeDue(w, e)
        PROVE  FALSE
    BY <1>3 DEF Promote, Pop, HandlerSucceeds, EndTask, PushFailed, CallFails, Crash, HandlerFails, TakeDue
  <1>4. ASSUME NEW u \in Tasks, PushCreated(u) \/ ProducerFails(u) PROVE FALSE
    BY <1>4 DEF PushCreated, ProducerFails
  <1> QED BY <1>1, <1>2, <1>3, <1>4 DEF Next, WorkerStep, vars

(* Rows and places belong together after every step. *)
LEMMA RecordedInductive ==
    TypeOK /\ Apart /\ Enlisted /\ Recorded /\ [Next]_vars => Recorded'
  <1> SUFFICES ASSUME TypeOK, Apart, Enlisted, Recorded, [Next]_vars PROVE Recorded'
    OBVIOUS
  <1>1. ASSUME NEW t \in Tasks, row'[t] \notin {"none", "succeeded", "dead"}
        PROVE  Placed(t)' \/ t \in lost'
    <2>1. lost \subseteq lost'
      BY DEF Next, WorkerStep, vars, Enqueue, PushCreated, ProducerFails, TakeDue, Promote, Pop,
             MarkRunning, HandlerSucceeds, HandlerFails, MarkSucceeded, EndTask, MarkFailed, PushFailed,
             CallFails, Crash
    <2>2. CASE row'[t] = row[t]
      <3>1. ASSUME NEW w \in Workers, Holds(w, t) PROVE ~At(w, "succeeded") /\ ~At(w, "burying")
        BY <1>1, <2>2, <3>1 DEF Recorded, Holds
      <3> QED BY <1>1, <2>1, <2>2, <3>1, ComingAndGoing DEF Recorded
    <2>3. ASSUME NEW w \in Workers, Holds(w, t), MarkRunning(w) \/ MarkSucceeded(w) \/ MarkFailed(w)
          PROVE  Placed(t)'
      <3>1. GoesOn(w)
        BY <2>3, StepsThatGoOn
      <3>2. worker'[w] # Idle /\ worker'[w].task = worker[w].task
        BY <3>1 DEF GoesOn, Idle, TypeOK
      <3> QED BY <2>3, <3>2 DEF Placed, Holds
    <2>4. ASSUME NEW s \in {"queued", "delayed"}, Enqueue(t, s) PROVE Placed(t)'
      BY <2>4 DEF Enqueue, Placed
    <2> QED BY <2>2, <2>3, <2>4, RowsOfOthers
  <1> DEFINE Rest1 == /\ \A w \in Workers : worker[w] # Idle =>
                            /\ At(w, "burying") <=> row[worker[w].task.id] = "dead"
                            /\ At(w, "succeeded") => row[worker[w].task.id] = "succeeded"
                      /\ \A e \in Queued : row[e.id] # "dead"
                      /\ \A t \in created : row[t] # "dead"
  <1>2. Rest1'
    <2>1. Rest1
      BY DEF Recorded
    <2>2. ASSUME NEW t \in Tasks, NEW s \in {"queued", "delayed"}, Enqueue(t, s) PROVE Rest1'
      <3>1. \A w \in Workers : worker[w] # Idle => worker[w].task.id # t
        BY <2>2 DEF Enqueue, Enlisted, Placed, Holds
      <3>2. \A e \in Queued : e.id # t
        BY <2>2 DEF Enqueue, Enlisted, Placed
      <3>3. row'[t] = s /\ \A u \in Tasks \ {t} : row'[u] = row[u]
        BY <2>2 DEF Enqueue, TypeOK
      <3>4. \A w \in Workers : worker[w] # Idle => worker[w].task.id \in Tasks
        BY BusyWorker
      <3>5. \A e \in Queued : e.id \in Tasks
        BY QueuedEnvelopes DEF Envelope
      <3>6. created \subseteq Tasks
        BY DEF TypeOK
      <3> QED BY <2>1, <2>2, <3>1, <3>2, <3>3, <3>4, <3>5, <3>6 DEF Enqueue, Queued, At
    <2>3. ASSUME NEW t \in Tasks, PushCreated(t) PROVE Rest1'
      <3>1. t \in created /\ created' = created \ {t} /\ worker' = worker /\ row' = row
        BY <2>3 DEF PushCreated
      <3> QED BY <2>1, <2>3, <3>1, PushedByProducer DEF At
    <2>4. ASSUME NEW t \in Tasks, ProducerFails(t) PROVE Rest1'
      BY <2>1, <2>4 DEF ProducerFails, Queued, At
    <2>5. ASSUME NEW w \in Workers, Pop(w) \/ \E e \in delayed : TakeDue(w, e) PROVE Rest1'
      BY <2>1, <2>5, TakenByWorker DEF At, OnlyWorker
    <2>6. ASSUME NEW w \in Workers, Promote(w) \/ (At(w, "retrying") /\ PushFailed(w)) PROVE Rest1'
      <3>1. worker[w] # Idle /\ ~At(w, "burying")
        BY <2>6, PushedByWorker DEF Promote, At
      <3> QED BY <2>1, <2>6, <3>1, PushedByWorker DEF At, OnlyWorker
    <2>8. ASSUME NEW w \in Workers, Rests(w), row' = row PROVE Rest1'
      <3>1. worker'[w] = Idle /\ \A x \in Workers \ {w} : worker'[x] = worker[x]
        BY <2>8 DEF Rests, TypeOK
      <3> QED BY <2>1, <2>8, <3>1 DEF Rests, Queued, At
    <2>9. ASSUME NEW w \in Workers, PushFailed(w) PROVE Rest1'
      BY <2>6, <2>8, <2>9 DEF PushFailed, Rests, Rest, At
    <2>10. ASSUME NEW w \in Workers,
                  \/ MarkRunning(w) \/ HandlerSucceeds(w) \/ MarkSucceeded(w) \/ MarkFailed(w) \/ CallFails(w)
                  \/ \E retryable \in BOOLEAN : HandlerFails(w, retryable)
           PROVE  Rest1'
      <3> DEFINE u == worker[w].task.id
      <3>1. GoesOn(w)
        BY <2>10, StepsThatGoOn
      <3>2. /\ worker[w] # Idle /\ worker'[w].task = worker[w].task
            /\ \A x \in Workers \ {w} : worker'[x] = worker[x]
            /\ Queued' = Queued /\ created' = created
        BY <3>1 DEF GoesOn, TypeOK, Queued
      <3>3. \A t \in Tasks \ {u} : row'[t] = row[t]
        BY <2>10 DEF MarkRunning, HandlerSucceeds, MarkSucceeded, MarkFailed, CallFails, HandlerFails, TypeOK
      <3>4. u \in Tasks
        BY <3>2, BusyWorker
      <3>5. /\ worker'[w].pc = "burying" <=> row'[u] = "dead"
            /\ worker'[w].pc = "succeeded" => row'[u] = "succeeded"
        <4>1. worker[w].pc = "burying" <=> row[u] = "dead"
          BY <2>1, <3>2 DEF At
        <4>2. CASE MarkRunning(w)
          BY <3>4, <4>2 DEF MarkRunning, Goto, TypeOK
        <4>3. CASE MarkSucceeded(w)
          BY <3>4, <4>3 DEF MarkSucceeded, Goto, TypeOK
        <4>4. CASE MarkFailed(w)
          BY <3>4, <4>4 DEF MarkFailed, Goto, TypeOK
        <4>5. CASE HandlerSucceeds(w)
          BY <4>1, <4>5 DEF HandlerSucceeds, Goto, TypeOK, At
        <4>6. CASE CallFails(w)
          BY <4>1, <4>6 DEF CallFails, Goto, TypeOK, At
        <4>7. CASE \E retryable \in BOOLEAN : HandlerFails(w, retryable)
          BY <4>1, <4>7 DEF HandlerFails, TypeOK, At
        <4> QED BY <2>10, <4>2, <4>3, <4>4, <4>5, <4>6, <4>7
      <3>6. \A x \in Workers \ {w} : worker[x] # Idle => worker[x].task.id \in Tasks \ {u}
        BY <3>2, BusyWorker DEF Apart, Holds
      <3>7. \A e \in Queued : e.id \in Tasks \ {u}
        BY <3>2, QueuedEnvelopes DEF Apart, Envelope
      <3>8. created \subseteq Tasks \ {u}
        BY <3>2 DEF Apart, TypeOK
      <3> HIDE DEF u
      <3>9. ASSUME NEW x \in Workers, worker'[x] # Idle
            PROVE  /\ worker'[x].pc = "burying" <=> row'[worker'[x].task.id] = "dead"
                   /\ worker'[x].pc = "succeeded" => row'[worker'[x].task.id] = "succeeded"
        <4>1. CASE x = w
          BY <3>2, <3>5, <4>1 DEF u
        <4>2. CASE x # w
          BY <2>1, <3>2, <3>3, <3>6, <3>9, <4>2 DEF At
        <4> QED BY <4>1, <4>2
      <3> QED BY <2>1, <3>2, <3>3, <3>7, <3>8, <3>9 DEF At
    <2>11. CASE UNCHANGED vars
      BY <2>1, <2>11 DEF vars, Queued, At
    <2>12. ASSUME NEW w \in Workers, EndTask(w) \/ Crash(w) PROVE Rest1'
      BY <2>8, <2>12 DEF EndTask, Crash, Rest, Rests
    <2> HIDE DEF Rest1
    <2> QED BY <2>2, <2>3, <2>4, <2>5, <2>6, <2>9, <2>10, <2>11, <2>12 DEF Next, WorkerStep
  <1> QED BY <1>1, <1>2 DEF Recorded
-----------------------------------------------------------------------------
(* Starts and completions are counted. *)

(* A worker that goes on keeps its envelope, and every other place stays    *)
(* what it is.                                                              *)
LEMMA GoingOn ==
    ASSUME TypeOK, Apart, NEW w \in Workers, GoesOn(w)
    PROVE  /\ worker[w] # Idle /\ worker'[w] # Idle /\ OnlyWorker(w)
           /\ worker'[w].task = worker[w].task
           /\ Queued' = Queued /\ created' = created
           /\ worker[w].task.id \in Tasks /\ worker[w].task.attempts \in Nat
           /\ \A e \in Queued : e.id \in Tasks \ {worker[w].task.id}
           /\ created \subseteq Tasks \ {worker[w].task.id}
           /\ \A x \in Workers \ {w} : worker[x] # Idle =>
                 worker[x].task.id \in Tasks \ {worker[w].task.id}
  <1>1. /\ worker[w] # Idle /\ worker'[w] # Idle /\ OnlyWorker(w)
        /\ worker'[w].task = worker[w].task /\ Queued' = Queued /\ created' = created
    BY DEF GoesOn, TypeOK, Queued, OnlyWorker, Idle
  <1>2. worker[w].task.id \in Tasks /\ worker[w].task.attempts \in Nat
    BY <1>1, BusyWorker DEF Envelope
  <1>3. \A e \in Queued : e.id \in Tasks \ {worker[w].task.id}
    BY <1>1, QueuedEnvelopes DEF Apart, Envelope
  <1>4. created \subseteq Tasks \ {worker[w].task.id}
    BY <1>1 DEF Apart, TypeOK
  <1>5. \A x \in Workers \ {w} : worker[x] # Idle => worker[x].task.id \in Tasks \ {worker[w].task.id}
    BY <1>1, BusyWorker DEF Apart, Holds
  <1> QED BY <1>1, <1>2, <1>3, <1>4, <1>5

(* Every step keeps the count of starts within the attempts. *)
LEMMA StartsCountedInductive ==
    TypeOK /\ Apart /\ Enlisted /\ StartsCounted /\ [Next]_vars => StartsCounted'
  <1> SUFFICES ASSUME TypeOK, Apart, Enlisted, StartsCounted, [Next]_vars PROVE StartsCounted'
    OBVIOUS
  <1>1. ASSUME NEW t \in Tasks, NEW s \in {"queued", "delayed"}, Enqueue(t, s) PROVE StartsCounted'
    <2>1. row[t] = "none" /\ row'[t] # "none" /\ \A u \in Tasks \ {t} : row'[u] = row[u]
      BY <1>1 DEF Enqueue, TypeOK
    <2>2. created' = created \cup {t} /\ Queued' = Queued /\ worker' = worker /\ starts' = starts
      BY <1>1 DEF Enqueue, Queued
    <2> QED BY <2>1, <2>2 DEF StartsCounted, At
  <1>2. ASSUME NEW t \in Tasks, PushCreated(t) PROVE StartsCounted'
    <2>1. t \in created /\ created' = created \ {t} /\ UNCHANGED <<worker, row, starts>>
      BY <1>2 DEF PushCreated
    <2>2. PICK e \in Envelope : e.id = t /\ e.attempts = 0 /\ Queued' = Queued \cup {e}
      BY <1>2, PushedByProducer
    <2>3. starts[e.id] <= e.attempts /\ e.attempts < MaxAttempts
      BY <2>1, <2>2, QueueAssumption DEF StartsCounted, TypeOK
    <2> QED BY <2>1, <2>2, <2>3 DEF StartsCounted, At
  <1>3. ASSUME NEW t \in Tasks, ProducerFails(t) PROVE StartsCounted'
    BY <1>3 DEF ProducerFails, StartsCounted, Queued, At
  <1>4. ASSUME NEW w \in Workers, Pop(w) \/ \E e \in delayed : TakeDue(w, e) PROVE StartsCounted'
    <2> DEFINE e == worker'[w].task
    <2>1. /\ e \in Queued /\ Queued' \subseteq Queued /\ OnlyWorker(w)
          /\ worker'[w].pc \in {"moving", "popped"}
          /\ UNCHANGED <<row, created, starts>>
      BY <1>4, TakenByWorker
    <2>2. e.attempts < MaxAttempts /\ starts[e.id] <= e.attempts
      BY <2>1 DEF StartsCounted
    <2>3. e \in Envelope
      BY <2>1, QueuedEnvelopes
    <2>4. starts[e.id] <= e.attempts + 1
      BY <2>2, <2>3 DEF TypeOK, Envelope
    <2> HIDE DEF e
    <2>5. ASSUME NEW x \in Workers, worker'[x] # Idle
          PROVE  /\ worker'[x].task.attempts < MaxAttempts
                 /\ starts'[worker'[x].task.id] <= worker'[x].task.attempts + 1
                 /\ worker'[x].pc \in {"moving", "popped"} =>
                       starts'[worker'[x].task.id] <= worker'[x].task.attempts
                 /\ worker'[x].pc = "retrying" => worker'[x].task.attempts + 1 < MaxAttempts
      <3>1. CASE x = w
        BY <2>1, <2>2, <2>4, <3>1 DEF e
      <3>2. CASE x # w
        BY <2>1, <2>5, <3>2 DEF OnlyWorker, StartsCounted, At
      <3> QED BY <3>1, <3>2
    <2> QED BY <2>1, <2>5 DEF StartsCounted, At
  <1>5. ASSUME NEW w \in Workers, Promote(w) \/ (At(w, "retrying") /\ PushFailed(w)) PROVE StartsCounted'
    <2>1. /\ worker[w] # Idle /\ worker'[w] = Idle /\ OnlyWorker(w) /\ UNCHANGED <<row, created, starts>>
      BY <1>5, PushedByWorker
    <2>2. PICK e \in Envelope :
             /\ e.id = worker[w].task.id
             /\ e.attempts = worker[w].task.attempts + (IF At(w, "retrying") THEN 1 ELSE 0)
             /\ Queued' = Queued \cup {e}
      BY <1>5, PushedByWorker
    <2>3. worker[w].task \in Envelope
      BY <2>1, BusyWorker
    <2>4. e.attempts < MaxAttempts /\ starts[e.id] <= e.attempts
      <3>1. CASE Promote(w)
        <4>1. At(w, "moving") /\ ~At(w, "retrying")
          BY <3>1 DEF Promote, At
        <4> QED BY <2>1, <2>2, <2>3, <4>1 DEF StartsCounted, Envelope, At
      <3>2. CASE At(w, "retrying")
        BY <2>1, <2>2, <3>2 DEF StartsCounted
      <3> QED BY <1>5, <3>1, <3>2
    <2> QED BY <2>1, <2>2, <2>4 DEF StartsCounted, OnlyWorker, At
  <1>7. ASSUME NEW w \in Workers, Rests(w), UNCHANGED <<row, starts>> PROVE StartsCounted'
    <2>1. worker'[w] = Idle /\ OnlyWorker(w)
      BY <1>7 DEF Rests, TypeOK, OnlyWorker
    <2> QED BY <1>7, <2>1 DEF Rests, OnlyWorker, StartsCounted, Queued, At
  <1>8. ASSUME NEW w \in Workers, PushFailed(w) \/ EndTask(w) \/ Crash(w) PROVE StartsCounted'
    BY <1>5, <1>7, <1>8 DEF PushFailed, EndTask, Crash, Rests, Rest, At
  <1>9. ASSUME NEW w \in Workers, GoesOn(w),
               \A t \in Tasks \ {worker[w].task.id} : starts'[t] = starts[t],
               \A t \in Tasks : row'[t] = "none" => row[t] = "none",
               starts'[worker[w].task.id] <= worker[w].task.attempts + 1,
               worker'[w].pc \notin {"moving", "popped"},
               worker'[w].pc = "retrying" => worker[w].task.attempts + 1 < MaxAttempts,
               row'[worker[w].task.id] # "none"
        PROVE  StartsCounted'
    <2> DEFINE u == worker[w].task.id
    <2>1. /\ worker[w] # Idle /\ OnlyWorker(w) /\ worker'[w].task = worker[w].task
          /\ Queued' = Queued /\ created' = created
          /\ u \in Tasks /\ worker[w].task.attempts \in Nat
          /\ \A e \in Queued : e.id \in Tasks \ {u}
          /\ created \subseteq Tasks \ {u}
          /\ \A x \in Workers \ {w} : worker[x] # Idle => worker[x].task.id \in Tasks \ {u}
      BY <1>9, GoingOn
    <2>2. starts' \in [Tasks -> Nat]
      BY TypeInductive DEF TypeOK
    <2>3. worker[w].task.attempts < MaxAttempts /\ starts'[u] <= MaxAttempts
      BY <1>9, <2>1, <2>2, QueueAssumption DEF StartsCounted
    <2> HIDE DEF u
    <2>4. ASSUME NEW t \in Tasks
          PROVE  /\ starts'[t] <= MaxAttempts
                 /\ row'[t] = "none" \/ t \in created' => starts'[t] = 0
      <3>1. CASE t = u
        BY <1>9, <2>1, <2>3, <3>1 DEF u
      <3>2. CASE t # u
        BY <1>9, <2>1, <3>2 DEF u, StartsCounted
      <3> QED BY <3>1, <3>2
    <2>5. ASSUME NEW e \in Queued' PROVE e.attempts < MaxAttempts /\ starts'[e.id] <= e.attempts
      BY <1>9, <2>1, <2>5 DEF u, StartsCounted
    <2>6. ASSUME NEW x \in Workers, worker'[x] # Idle
          PROVE  /\ worker'[x].task.attempts < MaxAttempts
                 /\ starts'[worker'[x].task.id] <= worker'[x].task.attempts + 1
                 /\ worker'[x].pc \in {"moving", "popped"} =>
                       starts'[worker'[x].task.id] <= worker'[x].task.attempts
                 /\ worker'[x].pc = "retrying" => worker'[x].task.attempts + 1 < MaxAttempts
      <3>1. CASE x = w
        BY <1>9, <2>1, <2>3, <3>1 DEF u
      <3>2. CASE x # w
        BY <1>9, <2>1, <2>6, <3>2 DEF u, OnlyWorker, StartsCounted, At
      <3> QED BY <3>1, <3>2
    <2> QED BY <2>4, <2>5, <2>6 DEF StartsCounted, At
  <1>10. ASSUME NEW w \in Workers,
                \/ MarkRunning(w) \/ HandlerSucceeds(w) \/ MarkSucceeded(w) \/ MarkFailed(w) \/ CallFails(w)
                \/ \E retryable \in BOOLEAN : HandlerFails(w, retryable)
         PROVE  StartsCounted'
    <2> DEFINE u == worker[w].task.id
    <2>1. GoesOn(w)
      BY <1>10, StepsThatGoOn
    <2>2. worker[w] # Idle /\ u \in Tasks /\ worker[w].task.attempts \in Nat
      BY <2>1, GoingOn
    <2>3. \A t \in Tasks : row'[t] = "none" => row[t] = "none"
      BY ComingAndGoing
    <2>4. row'[u] # "none"
      BY <2>2, ComingAndGoing DEF Enlisted, Placed, Holds
    <2>5. starts[u] <= worker[w].task.attempts + 1 /\ starts[u] \in Nat
      BY <2>2 DEF StartsCounted, TypeOK
    <2>6. CASE MarkRunning(w)
      <3>1. starts' = [starts EXCEPT ![u] = @ + 1] /\ worker'[w].pc = "running"
        BY <1>10, <2>6 DEF MarkRunning, Goto, TypeOK
      <3>2. starts[u] <= worker[w].task.attempts
        BY <2>2, <2>6 DEF MarkRunning, StartsCounted, At
      <3>3. starts'[u] <= worker[w].task.attempts + 1 /\ \A t \in Tasks \ {u} : starts'[t] = starts[t]
        BY <2>2, <2>5, <3>1, <3>2 DEF TypeOK
      <3> QED BY <1>9, <2>1, <2>3, <2>4, <3>1, <3>3
    <2>7. CASE MarkFailed(w)
      <3>1. starts' = starts /\ worker'[w].pc \in {"burying", "retrying"}
            /\ (worker'[w].pc = "retrying" => ~LastAttempt(w))
        BY <2>7 DEF MarkFailed, Goto, TypeOK
      <3>2. worker'[w].pc = "retrying" => worker[w].task.attempts + 1 < MaxAttempts
        BY <2>2, <3>1, QueueAssumption DEF LastAttempt
      <3> QED BY <1>9, <2>1, <2>3, <2>4, <2>5, <3>1, <3>2
    <2>8. CASE ~MarkRunning(w) /\ ~MarkFailed(w)
      <3>1. starts' = starts /\ worker'[w].pc \in {"handled", "succeeded", "failing"}
        <4>1. CASE HandlerSucceeds(w)
          BY <4>1 DEF HandlerSucceeds, Goto, TypeOK
        <4>2. CASE MarkSucceeded(w)
          BY <4>2 DEF MarkSucceeded, Goto, TypeOK
        <4>3. CASE CallFails(w)
          BY <4>3 DEF CallFails, Goto, TypeOK
        <4>4. CASE \E retryable \in BOOLEAN : HandlerFails(w, retryable)
          BY <4>4 DEF HandlerFails, TypeOK
        <4> QED BY <1>10, <2>8, <4>1, <4>2, <4>3, <4>4
      <3> QED BY <1>9, <2>1, <2>3, <2>4, <2>5, <3>1
    <2> QED BY <2>6, <2>7, <2>8
  <1>11. CASE UNCHANGED vars
    BY <1>11 DEF vars, StartsCounted, Queued, At
  <1> QED BY <1>1, <1>2, <1>3, <1>4, <1>5, <1>8, <1>10, <1>11 DEF Next, WorkerStep
(* Every step keeps the count of completions within the failed calls. *)
LEMMA EndsCountedInductive ==
    TypeOK /\ Apart /\ Enlisted /\ EndsCounted /\ [Next]_vars => EndsCounted'
  <1> SUFFICES ASSUME TypeOK, Apart, Enlisted, EndsCounted, [Next]_vars PROVE EndsCounted'
    OBVIOUS
  <1>1. ASSUME NEW t \in Tasks, NEW s \in {"queued", "delayed"}, Enqueue(t, s) PROVE EndsCounted'
    <2>1. row[t] = "none" /\ row'[t] # "none" /\ \A u \in Tasks \ {t} : row'[u] = row[u]
      BY <1>1 DEF Enqueue, TypeOK
    <2>2. /\ created' = created \cup {t} /\ Queued' = Queued
          /\ UNCHANGED <<worker, completions, faults>>
      BY <1>1 DEF Enqueue, Queued
    <2> QED BY <2>1, <2>2 DEF EndsCounted
  <1>2. ASSUME NEW t \in Tasks, PushCreated(t) PROVE EndsCounted'
    <2>1. t \in created /\ created' = created \ {t} /\ UNCHANGED <<worker, row, completions, faults>>
      BY <1>2 DEF PushCreated
    <2>2. PICK e \in Envelope : e.id = t /\ Queued' = Queued \cup {e}
      BY <1>2, PushedByProducer
    <2>3. completions[e.id] <= faults
      BY <2>1, <2>2 DEF EndsCounted, TypeOK
    <2> QED BY <2>1, <2>2, <2>3 DEF EndsCounted
  <1>3. ASSUME faults' \in {faults, faults + 1}, NEW n \in Nat
        PROVE  (n <= faults => n <= faults') /\ (n <= 1 + faults => n <= 1 + faults')
    <2>1. faults \in Nat
      BY DEF TypeOK
    <2>2. CASE faults' = faults
      BY <2>1, <2>2
    <2>3. CASE faults' = faults + 1
      BY <2>1, <2>3
    <2> QED BY <1>3, <2>2, <2>3
  <1>4. ASSUME NEW t \in Tasks, ProducerFails(t) PROVE EndsCounted'
    <2>1. /\ faults' = faults + 1 /\ created' \subseteq created /\ Queued' = Queued
          /\ UNCHANGED <<row, worker, completions>>
      BY <1>4 DEF ProducerFails, Queued
    <2>2. ASSUME NEW u \in Tasks
          PROVE  /\ completions[u] <= faults => completions[u] <= faults'
                 /\ completions[u] <= 1 + faults => completions[u] <= 1 + faults'
      BY <1>3, <2>1 DEF TypeOK
    <2>3. /\ \A e \in Queued : e.id \in Tasks
          /\ \A x \in Workers : worker[x] # Idle => worker[x].task.id \in Tasks
      BY QueuedEnvelopes, BusyWorker DEF Envelope
    <2> QED BY <2>1, <2>2, <2>3 DEF EndsCounted
  <1>5. ASSUME NEW w \in Workers, Pop(w) \/ \E e \in delayed : TakeDue(w, e) PROVE EndsCounted'
    BY <1>5, TakenByWorker DEF EndsCounted, OnlyWorker
  <1>6. ASSUME NEW w \in Workers, Promote(w) \/ (At(w, "retrying") /\ PushFailed(w)) PROVE EndsCounted'
    <2>1. worker[w] # Idle /\ worker[w].pc \notin {"handled", "succeeded"}
      BY <1>6, PushedByWorker DEF Promote, At
    <2>2. completions[worker[w].task.id] <= faults
      BY <2>1 DEF EndsCounted
    <2> QED BY <1>6, <2>1, <2>2, PushedByWorker DEF EndsCounted, OnlyWorker
  <1>7. ASSUME NEW w \in Workers, Rests(w), faults' \in {faults, faults + 1},
               UNCHANGED <<row, completions>>
        PROVE  EndsCounted'
    <2>1. worker'[w] = Idle /\ OnlyWorker(w) /\ Queued' = Queued /\ created' = created
      BY <1>7 DEF Rests, TypeOK, OnlyWorker, Queued
    <2>2. ASSUME NEW u \in Tasks
          PROVE  /\ completions[u] <= faults => completions[u] <= faults'
                 /\ completions[u] <= 1 + faults => completions[u] <= 1 + faults'
      BY <1>3, <1>7 DEF TypeOK
    <2>3. /\ \A e \in Queued : e.id \in Tasks
          /\ \A x \in Workers : worker[x] # Idle => worker[x].task.id \in Tasks
      BY QueuedEnvelopes, BusyWorker DEF Envelope
    <2> QED BY <1>7, <2>1, <2>2, <2>3 DEF EndsCounted, OnlyWorker
  <1>8. ASSUME NEW w \in Workers, PushFailed(w) \/ EndTask(w) \/ Crash(w) PROVE EndsCounted'
    BY <1>6, <1>7, <1>8 DEF PushFailed, EndTask, Crash, Rests, Rest, At
  <1>9. ASSUME NEW w \in Workers, GoesOn(w), faults' \in {faults, faults + 1},
               \A t \in Tasks \ {worker[w].task.id} : completions'[t] = completions[t],
               completions'[worker[w].task.id] <= 1 + faults',
               worker'[w].pc \notin {"handled", "succeeded"} =>
                  completions'[worker[w].task.id] <= faults'
        PROVE  EndsCounted'
    <2> DEFINE u == worker[w].task.id
    <2>1. /\ worker[w] # Idle /\ OnlyWorker(w) /\ worker'[w].task = worker[w].task
          /\ Queued' = Queued /\ created' = created
          /\ u \in Tasks
          /\ \A e \in Queued : e.id \in Tasks \ {u}
          /\ created \subseteq Tasks \ {u}
          /\ \A x \in Workers \ {w} : worker[x] # Idle => worker[x].task.id \in Tasks \ {u}
      BY <1>9, GoingOn
    <2>2. row'[u] # "none"
      BY <2>1, ComingAndGoing DEF Enlisted, Placed, Holds
    <2>3. \A t \in Tasks : row'[t] = "none" => row[t] = "none"
      BY ComingAndGoing
    <2> HIDE DEF u
    <2>4. ASSUME NEW t \in Tasks, t # u
          PROVE  /\ completions'[t] = completions[t]
                 /\ completions[t] <= faults => completions'[t] <= faults'
                 /\ completions[t] <= 1 + faults => completions'[t] <= 1 + faults'
      BY <1>3, <1>9, <2>4 DEF u, TypeOK
    <2>5. ASSUME NEW t \in Tasks
          PROVE  /\ completions'[t] <= 1 + faults'
                 /\ row'[t] = "none" \/ t \in created' => completions'[t] = 0
      <3>1. CASE t = u
        BY <1>9, <2>1, <2>2, <3>1 DEF u
      <3>2. CASE t # u
        BY <2>1, <2>3, <2>4, <3>2 DEF EndsCounted
      <3> QED BY <3>1, <3>2
    <2>6. ASSUME NEW e \in Queued' PROVE completions'[e.id] <= faults'
      BY <2>1, <2>4, <2>6 DEF EndsCounted
    <2>7. ASSUME NEW x \in Workers, worker'[x] # Idle, worker'[x].pc \notin {"handled", "succeeded"}
          PROVE  completions'[worker'[x].task.id] <= faults'
      <3>1. CASE x = w
        BY <1>9, <2>1, <2>7, <3>1 DEF u
      <3>2. CASE x # w
        BY <2>1, <2>4, <2>7, <3>2 DEF OnlyWorker, EndsCounted
      <3> QED BY <3>1, <3>2
    <2> QED BY <2>5, <2>6, <2>7 DEF EndsCounted
  <1>10. ASSUME NEW w \in Workers,
                \/ MarkRunning(w) \/ HandlerSucceeds(w) \/ MarkSucceeded(w) \/ MarkFailed(w) \/ CallFails(w)
                \/ \E retryable \in BOOLEAN : HandlerFails(w, retryable)
         PROVE  EndsCounted'
    <2> DEFINE u == worker[w].task.id
    <2>1. GoesOn(w)
      BY <1>10, StepsThatGoOn
    <2>2. /\ worker[w] # Idle /\ u \in Tasks
          /\ completions \in [Tasks -> Nat] /\ completions[u] \in Nat /\ faults \in Nat
          /\ completions[u] <= 1 + faults
          /\ worker[w].pc \notin {"handled", "succeeded"} => completions[u] <= faults
      BY <2>1, GoingOn DEF EndsCounted, TypeOK
    <2>3. CASE HandlerSucceeds(w)
      <3>1. /\ completions' = [completions EXCEPT ![u] = @ + 1] /\ faults' = faults
            /\ worker'[w].pc = "handled" /\ worker[w].pc = "running"
        BY <2>3 DEF HandlerSucceeds, Goto, TypeOK, At
      <3>2. completions'[u] <= 1 + faults /\ \A t \in Tasks \ {u} : completions'[t] = completions[t]
        BY <2>2, <3>1
      <3> QED BY <1>9, <2>1, <3>1, <3>2
    <2>4. CASE CallFails(w)
      <3>1. completions' = completions /\ faults' = faults + 1
        BY <2>4 DEF CallFails
      <3>2. completions[u] <= faults' /\ completions[u] <= 1 + faults'
        BY <2>2, <3>1
      <3> QED BY <1>9, <2>1, <3>1, <3>2
    <2>5. CASE MarkSucceeded(w)
      <3>1. completions' = completions /\ faults' = faults /\ worker'[w].pc = "succeeded"
        BY <2>5 DEF MarkSucceeded, Goto, TypeOK
      <3> QED BY <1>9, <2>1, <2>2, <3>1
    <2>6. CASE MarkRunning(w) \/ MarkFailed(w) \/ \E r \in BOOLEAN : HandlerFails(w, r)
      <3>1. /\ completions' = completions /\ faults' = faults
            /\ worker[w].pc \notin {"handled", "succeeded"}
        BY <2>6 DEF MarkRunning, MarkFailed, HandlerFails, At
      <3> QED BY <1>9, <2>1, <2>2, <3>1
    <2> QED BY <1>10, <2>3, <2>4, <2>5, <2>6
  <1>11. CASE UNCHANGED vars
    BY <1>11 DEF vars, EndsCounted, Queued
  <1> QED BY <1>1, <1>2, <1>4, <1>5, <1>6, <1>8, <1>10, <1>11 DEF Next, WorkerStep

-----------------------------------------------------------------------------
(* The invariant, and what follows from it. *)

(* A task recorded as dead reaches the dead-letter list once, unless a      *)
(* fault takes it away on the way.                                          *)
LEMMA BuriedInductive ==
    TypeOK /\ Apart /\ Enlisted /\ Recorded /\ DeadIsBuried /\ [Next]_vars => DeadIsBuried'
  <1> SUFFICES ASSUME TypeOK, Apart, Enlisted, Recorded, DeadIsBuried, [Next]_vars
               PROVE  DeadIsBuried'
    OBVIOUS
  <1>1. lost \subseteq lost'
    BY DEF Next, WorkerStep, vars, Enqueue, PushCreated, ProducerFails, TakeDue, Promote, Pop,
           MarkRunning, HandlerSucceeds, HandlerFails, MarkSucceeded, EndTask, MarkFailed, PushFailed,
           CallFails, Crash
  <1>2. IsInjective(dead') /\ ToSet(dead) \subseteq ToSet(dead')
    <2>1. CASE dead' = dead
      BY <2>1 DEF DeadIsBuried
    <2>2. CASE dead' # dead
      <3>1. PICK w \in Workers : At(w, "burying") /\ PushFailed(w)
        BY <2>2, Burial
      <3>2. worker[w] # Idle /\ worker[w].task.id \in Tasks
        BY <3>1, BuriedTask
      <3>3. worker[w].task.id \notin ToSet(dead)
        BY <3>2 DEF Enlisted, Placed, Holds
      <3> QED BY <3>1, <3>3, BuriedTask DEF DeadIsBuried
    <2> QED BY <2>1, <2>2
  <1>3. ASSUME NEW t \in Tasks, row'[t] = "dead"
        PROVE  t \in ToSet(dead') \cup lost' \/ \E w \in Workers : Holds(w, t)'
    <2>1. Recorded' /\ TypeOK'
      BY RecordedInductive, TypeInductive
    <2>2. CASE Placed(t)'
      BY <1>3, <2>1, <2>2 DEF Placed, Recorded
    <2>3. CASE ~Placed(t)' /\ Placed(t)
      <3>1. CASE t \in lost'
        BY <3>1
      <3>2. ASSUME NEW w \in Workers, Holds(w, t), row' = row, At(w, "succeeded") PROVE FALSE
        BY <1>3, <3>2 DEF Recorded, Holds
      <3>3. ASSUME NEW w \in Workers, Holds(w, t), At(w, "burying"), PushFailed(w) PROVE t \in ToSet(dead')
        BY <3>3, BuriedTask DEF Holds
      <3> QED BY <2>3, <3>1, <3>2, <3>3, ComingAndGoing
    <2>4. CASE ~Placed(t)' /\ ~Placed(t)
      <3>1. row[t] = "dead"
        <4>1. ASSUME NEW w \in Workers, Holds(w, t) PROVE FALSE
          BY <2>4, <4>1 DEF Placed
        <4>2. ASSUME NEW s \in {"queued", "delayed"}, Enqueue(t, s) PROVE FALSE
          BY <2>4, <4>2 DEF Enqueue, Placed
        <4> QED BY <1>3, <4>1, <4>2, RowsOfOthers
      <3> QED BY <1>1, <1>2, <2>4, <3>1 DEF DeadIsBuried, Placed
    <2> QED BY <2>2, <2>3, <2>4
  <1> QED BY <1>2, <1>3 DEF DeadIsBuried

(* The invariant holds at the start and every step keeps it. *)
LEMMA QueueInvariant == Spec => []QueueInv
  <1>1. Init => QueueInv
    <2> SUFFICES ASSUME Init PROVE QueueInv
      OBVIOUS
    <2>1. TypeOK
      BY DEF Init, TypeOK, Statuses
    <2>2. /\ Queued = {} /\ created = {} /\ dead = <<>> /\ ToSet(dead) = {} /\ ready = <<>>
          /\ \A w \in Workers : worker[w] = Idle
          /\ \A t \in Tasks : ~Placed(t)
      BY DEF Init, Queued, ToSet, Placed, Holds
    <2>3. Apart
      BY <2>2 DEF Apart, Distinct, Queued
    <2>4. Enlisted
      BY <2>2 DEF Enlisted
    <2>5. StartsCounted
      BY <2>2, QueueAssumption DEF StartsCounted, Init
    <2>6. EndsCounted
      BY <2>2 DEF EndsCounted, Init
    <2>7. Recorded
      BY <2>2 DEF Recorded, Init
    <2>8. DeadIsBuried
      BY <2>2 DEF DeadIsBuried, IsInjective, Init
    <2> QED BY <2>1, <2>3, <2>4, <2>5, <2>6, <2>7, <2>8 DEF QueueInv
  <1>2. QueueInv /\ [Next]_vars => QueueInv'
    BY TypeInductive, ApartInductive, EnlistedInductive, StartsCountedInductive,
       EndsCountedInductive, RecordedInductive, BuriedInductive DEF QueueInv
  <1> QED BY <1>1, <1>2, PTL DEF Spec
(* Where a task is, is counted: each of the sets Places adds up has at most *)
(* one element, and at most one of them has any.                            *)
LEMMA PlacesCount ==
    ASSUME TypeOK, Apart, NEW t \in Tasks
    PROVE  /\ Places(t) \in {0, 1}
           /\ Placed(t) => Places(t) = 1
  <1> DEFINE R == {i \in DOMAIN ready : ready[i].id = t}
             D == {e \in delayed : e.id = t}
             W == {w \in Workers : Holds(w, t)}
  <1>1. ASSUME NEW S, NEW x, x \in S, \A y \in S : y = x PROVE Cardinality(S) = 1
    <2>1. S = {x}
      BY <1>1
    <2> QED BY <2>1, FS_Singleton
  <1>2. Cardinality({}) = 0
    BY FS_EmptySet
  <1>3. \A i, j \in R : i = j
    BY DEF Apart, Distinct
  <1>4. \A e, f \in D : e = f
    BY DEF Apart
  <1>5. \A w, x \in W : w = x
    BY DEF Apart, Holds
  <1>6. R # {} => D = {} /\ W = {} /\ t \notin created
    BY DEF Apart, Queued, ToSet, Holds
  <1>7. D # {} => W = {} /\ t \notin created
    BY DEF Apart, Queued, Holds
  <1>8. W # {} => t \notin created
    BY DEF Apart, Holds
  <1>9. Places(t) = Cardinality(R) + Cardinality(D) + Cardinality(W) + (IF t \in created THEN 1 ELSE 0)
    BY DEF Places
  <1>10. Placed(t) => R # {} \/ D # {} \/ W # {} \/ t \in created
    BY DEF Placed, Queued, ToSet
  <1> HIDE DEF R, D, W
  <1>11. CASE R # {}
    <2>1. Cardinality(R) = 1
      BY <1>1, <1>3, <1>11
    <2> QED BY <1>2, <1>6, <1>9, <1>11, <2>1
  <1>12. CASE R = {} /\ D # {}
    <2>1. Cardinality(D) = 1
      BY <1>1, <1>4, <1>12
    <2> QED BY <1>2, <1>7, <1>9, <1>12, <2>1
  <1>13. CASE R = {} /\ D = {} /\ W # {}
    <2>1. Cardinality(W) = 1
      BY <1>1, <1>5, <1>13
    <2> QED BY <1>2, <1>8, <1>9, <1>13, <2>1
  <1>14. CASE R = {} /\ D = {} /\ W = {}
    BY <1>2, <1>9, <1>10, <1>14
  <1> QED BY <1>11, <1>12, <1>13, <1>14

(* However workers promote, pop, retry and crash, a task is in one place at *)
(* most: no two workers ever handle the same task at once.                  *)
THEOREM TaskIsInOnePlace == Spec => []OnePlace
  <1>1. QueueInv => OnePlace
    BY PlacesCount DEF QueueInv, OnePlace
  <1> QED BY <1>1, QueueInvariant, PTL

(* A task whose row says it is unfinished is in the queue, with a worker,   *)
(* or was taken away by a fault: no order of the two writes of a retry or   *)
(* of a promotion forgets it.                                               *)
THEOREM UnfinishedTaskIsSomewhere == Spec => []NoTaskForgotten
  <1>1. QueueInv => NoTaskForgotten
    BY PlacesCount DEF QueueInv, Recorded, NoTaskForgotten
  <1> QED BY <1>1, QueueInvariant, PTL

(* A handler completes again at most as often as calls have failed. *)
THEOREM CompletionsAreFaults == Spec => []HandledOnce
  <1>1. QueueInv => HandledOnce
    BY DEF QueueInv, EndsCounted, HandledOnce
  <1> QED BY <1>1, QueueInvariant, PTL

(* No task is started more than TASK_MAX_ATTEMPTS times, whatever fails. *)
THEOREM StartsWithinAttempts == Spec => []AttemptsBounded
  <1>1. QueueInv => AttemptsBounded
    BY DEF QueueInv, StartsCounted, AttemptsBounded
  <1> QED BY <1>1, QueueInvariant, PTL

(* A task whose row says dead is in the dead-letter list, once, or on its   *)
(* way there, or was lost to a fault.                                       *)
THEOREM TheDeadAreBuried == Spec => []DeadIsBuried
  <1>1. QueueInv => DeadIsBuried
    BY DEF QueueInv
  <1> QED BY <1>1, QueueInvariant, PTL
-----------------------------------------------------------------------------
(* The queue implements TaskDelivery. *)

(* The tasks that only their producer has, those a worker promotes, and     *)
(* what TaskDelivery calls waiting, held and known.                         *)
Made == {[id |-> t, attempts |-> 0] : t \in created}

Moving == {worker[w].task : w \in {x \in Workers : At(x, "moving")}}

Waiting == Made \cup ToSet(ready) \cup delayed \cup Moving

Held == [w \in Workers |-> IF worker[w].pc \in {"idle", "moving"} THEN Idle ELSE worker[w].task]

Known == {t \in Tasks : row[t] # "none"}

(* A step of one worker changes its own part of the mapping only. *)
LEMMA MappedWorker ==
    ASSUME NEW w \in Workers, OnlyWorker(w)
    PROVE  /\ \E others :
                 /\ Moving  = others \cup (IF worker[w].pc = "moving" THEN {worker[w].task} ELSE {})
                 /\ Moving' = others \cup (IF worker'[w].pc = "moving" THEN {worker'[w].task} ELSE {})
                 /\ \A f \in others : \E x \in Workers \ {w} : At(x, "moving") /\ f = worker[x].task
           /\ Held' = [Held EXCEPT ![w] = IF worker'[w].pc \in {"idle", "moving"}
                                          THEN Idle ELSE worker'[w].task]
  <1> DEFINE others == {worker[x].task : x \in {y \in Workers \ {w} : At(y, "moving")}}
  <1>1. Moving  = others \cup (IF worker[w].pc = "moving" THEN {worker[w].task} ELSE {})
    BY DEF Moving, At
  <1>2. Moving' = others \cup (IF worker'[w].pc = "moving" THEN {worker'[w].task} ELSE {})
    BY DEF Moving, At, OnlyWorker
  <1>3. \A f \in others : \E x \in Workers \ {w} : At(x, "moving") /\ f = worker[x].task
    OBVIOUS
  <1>4. Held' = [Held EXCEPT ![w] = IF worker'[w].pc \in {"idle", "moving"} THEN Idle ELSE worker'[w].task]
    BY DEF Held, OnlyWorker
  <1> QED BY <1>1, <1>2, <1>3, <1>4

(* An envelope is not the idle worker's nothing. *)
LEMMA EnvelopeIsSomething == \A e \in Envelope : e # Idle
  <1> SUFFICES ASSUME NEW e \in Envelope PROVE e # Idle
    OBVIOUS
  <1>1. DOMAIN e = {"id", "attempts"} /\ DOMAIN Idle = {"pc"}
    BY DEF Envelope, Idle
  <1> QED BY <1>1

(* Where an envelope that waits is: never in two of the three places. *)
LEMMA WaitingParts ==
    ASSUME TypeOK, Apart
    PROVE  /\ Waiting = Made \cup Queued \cup Moving
           /\ \A f \in Made : f.id \in created /\ f \in Envelope /\ f.attempts = 0
           /\ \A t \in created : [id |-> t, attempts |-> 0] \in Made
           /\ \A f \in Queued : f.id \notin created
           /\ \A f \in Moving : \E w \in Workers : worker[w] # Idle /\ f = worker[w].task
           /\ \A f \in Moving : f.id \notin created /\ \A e \in Queued : e.id # f.id
  <1>1. Waiting = Made \cup Queued \cup Moving
    BY DEF Waiting, Queued
  <1>2. \A f \in Made : f.id \in created /\ f \in Envelope /\ f.attempts = 0
    BY DEF Made, TypeOK, Envelope
  <1>3. \A t \in created : [id |-> t, attempts |-> 0] \in Made
    BY DEF Made
  <1>4. \A f \in Moving : \E w \in Workers : worker[w] # Idle /\ f = worker[w].task
    BY DEF Moving, At, Idle
  <1> QED BY <1>1, <1>2, <1>3, <1>4 DEF Apart

(* What a step of the queue is to those who only see what waits, what is    *)
(* held and what was submitted.                                             *)
Visible ==
    \/ \E t \in Tasks : /\ t \notin Known /\ Known' = Known \cup {t}
                        /\ Waiting' = Waiting \cup {[id |-> t, attempts |-> 0]}
                        /\ Held' = Held
    \/ \E e \in Waiting :
          /\ Waiting' = Waiting \ {e} /\ Known' = Known
          /\ Held' = Held \/ \E w \in Workers : Held[w] = Idle /\ Held' = [Held EXCEPT ![w] = e]
    \/ \E w \in Workers :
          /\ Held[w] # Idle /\ Held' = [Held EXCEPT ![w] = Idle] /\ Known' = Known
          /\ \/ Waiting' = Waiting
             \/ /\ Held[w].attempts + 1 < MaxAttempts
                /\ Waiting' = Waiting \cup {[Held[w] EXCEPT !.attempts = @ + 1]}
    \/ UNCHANGED <<Waiting, Held, Known>>

(* Every step of the queue is one of those. *)
LEMMA StepIsVisible == QueueInv /\ [Next]_vars => Visible
  <1> SUFFICES ASSUME QueueInv, [Next]_vars PROVE Visible
    OBVIOUS
  <1>0. TypeOK /\ Apart /\ Enlisted /\ StartsCounted
    BY DEF QueueInv
  <1> USE <1>0
  <1>1. ASSUME NEW t \in Tasks, NEW s \in {"queued", "delayed"}, Enqueue(t, s) PROVE Visible
    <2>1. t \notin Known /\ Known' = Known \cup {t}
      BY <1>1 DEF Enqueue, Known, TypeOK
    <2>2. Made' = Made \cup {[id |-> t, attempts |-> 0]}
      BY <1>1 DEF Enqueue, Made
    <2>3. UNCHANGED <<ready, delayed, Moving, Held>>
      BY <1>1 DEF Enqueue, Moving, Held, At
    <2>4. Waiting' = Waiting \cup {[id |-> t, attempts |-> 0]}
      BY <2>2, <2>3 DEF Waiting
    <2> QED BY <2>1, <2>3, <2>4 DEF Visible
  <1>2. ASSUME NEW t \in Tasks, PushCreated(t) PROVE Visible
    <2>1. PICK e \in Envelope : e.id = t /\ e.attempts = 0 /\ Queued' = Queued \cup {e}
      BY <1>2, PushedByProducer
    <2>2. e = [id |-> t, attempts |-> 0]
      BY <2>1 DEF Envelope
    <2>3. Made' \cup {e} = Made
      BY <1>2, <2>2 DEF PushCreated, Made
    <2>4. UNCHANGED <<Moving, Held, Known>>
      BY <1>2 DEF PushCreated, Moving, Held, At, Known
    <2>5. Waiting = Made \cup Queued \cup Moving /\ Waiting' = Made' \cup Queued' \cup Moving'
      BY DEF Waiting, Queued
    <2> QED BY <2>1, <2>3, <2>4, <2>5 DEF Visible
  <1>3. ASSUME NEW t \in Tasks, ProducerFails(t) PROVE Visible
    <2> DEFINE e == [id |-> t, attempts |-> 0]
    <2>1. t \in created /\ e.id = t /\ e \in Made
      BY <1>3 DEF ProducerFails, Made
    <2>2. Made' = Made \ {e}
      BY <1>3 DEF ProducerFails, Made
    <2>3. UNCHANGED <<Queued, Moving, Held, Known>>
      BY <1>3 DEF ProducerFails, Moving, Held, At, Known, Queued
    <2>4. e \notin Queued /\ e \notin Moving
      BY <2>1, WaitingParts
    <2>5. Waiting = Made \cup Queued \cup Moving /\ Waiting' = Made' \cup Queued' \cup Moving'
      BY DEF Waiting, Queued
    <2> HIDE DEF e
    <2>6. e \in Waiting /\ Waiting' = Waiting \ {e}
      BY <2>1, <2>2, <2>3, <2>4, <2>5
    <2> QED BY <2>3, <2>6 DEF Visible
  <1>4. ASSUME NEW w \in Workers, NEW e \in delayed, TakeDue(w, e) PROVE Visible
    <2>1. /\ worker[w] = Idle /\ worker'[w] = Job("moving", e) /\ OnlyWorker(w)
          /\ delayed' = delayed \ {e} /\ UNCHANGED <<ready, created, row>>
      BY <1>4 DEF TakeDue, OnlyWorker, TypeOK
    <2>2. worker[w].pc = "idle" /\ worker'[w].pc = "moving" /\ worker'[w].task = e
      BY <2>1 DEF Job, Idle
    <2>3. Moving' = Moving \cup {e}
      BY <2>1, <2>2, MappedWorker
    <2>4. Held' = Held
      BY <2>1, <2>2 DEF Held, OnlyWorker
    <2>5. Waiting' = Waiting /\ Known' = Known
      BY <2>1, <2>3 DEF Waiting, Made, Known
    <2> QED BY <2>4, <2>5 DEF Visible
  <1>5. ASSUME NEW w \in Workers, Promote(w) PROVE Visible
    <2>1. /\ worker[w] # Idle /\ worker[w].pc = "moving" /\ worker'[w] = Idle /\ OnlyWorker(w)
          /\ ready' = Append(ready, worker[w].task) /\ UNCHANGED <<delayed, created, row>>
      BY <1>5 DEF Promote, At, Idle, Rest, OnlyWorker, TypeOK
    <2>2. worker'[w].pc = "idle"
      BY <2>1 DEF Idle
    <2>3. Moving' \cup {worker[w].task} = Moving
      BY <2>1, <2>2, MappedWorker
    <2>4. Held' = Held
      BY <2>1, <2>2 DEF Held, OnlyWorker
    <2>5. ready \in Seq(Envelope) /\ worker[w].task \in Envelope
      BY <2>1, BusyWorker DEF TypeOK
    <2>6. ToSet(ready') = ToSet(ready) \cup {worker[w].task}
      BY <2>1, <2>5, AppendedEnvelope
    <2>7. Waiting' = Waiting /\ Known' = Known
      BY <2>1, <2>3, <2>6 DEF Waiting, Made, Known
    <2> QED BY <2>4, <2>7 DEF Visible
  <1>6. ASSUME NEW w \in Workers, Pop(w) PROVE Visible
    <2> DEFINE e == worker'[w].task
    <2>1. /\ worker[w] = Idle /\ OnlyWorker(w) /\ e \in Queued /\ Queued' = Queued \ {e}
          /\ UNCHANGED <<row, created>>
      BY <1>6, TakenByWorker
    <2>2. worker'[w].pc = "popped" /\ worker[w].pc = "idle"
      BY <1>6 DEF Pop, Job, TypeOK, Idle
    <2>3. Moving' = Moving /\ Held' = [Held EXCEPT ![w] = e] /\ Held[w] = Idle
      BY <2>1, <2>2, MappedWorker DEF Held
    <2>4. e \notin Made /\ e \notin Moving
      BY <2>1, WaitingParts
    <2>5. Waiting = Made \cup Queued \cup Moving /\ Waiting' = Made' \cup Queued' \cup Moving'
      BY DEF Waiting, Queued
    <2>6. Made' = Made /\ Known' = Known
      BY <2>1 DEF Made, Known
    <2> HIDE DEF e
    <2>7. e \in Waiting /\ Waiting' = Waiting \ {e}
      BY <2>1, <2>3, <2>4, <2>5, <2>6
    <2> QED BY <2>3, <2>6, <2>7 DEF Visible
  <1>7. ASSUME NEW w \in Workers, Rests(w), worker[w] # Idle, row' = row PROVE Visible
    <2>1. worker'[w] = Idle /\ worker'[w].pc = "idle" /\ OnlyWorker(w) /\ worker[w].task \in Envelope
      BY <1>7, BusyWorker DEF Rests, OnlyWorker, TypeOK, Idle
    <2>2. UNCHANGED <<Made, Queued, Known>>
      BY <1>7 DEF Rests, Made, Queued, Known
    <2>3. Waiting = Made \cup Queued \cup Moving /\ Waiting' = Made' \cup Queued' \cup Moving'
      BY DEF Waiting, Queued
    <2>4. CASE worker[w].pc = "moving"
      <3> DEFINE e == worker[w].task
      <3>1. Moving' = Moving \ {e} /\ e \in Moving
        <4>1. PICK others : /\ Moving = others \cup {e} /\ Moving' = others
                            /\ \A f \in others : \E x \in Workers \ {w} : At(x, "moving") /\ f = worker[x].task
          BY <2>1, <2>4, MappedWorker
        <4>2. e \notin others
          BY <1>7, <4>1 DEF Apart, Holds, At, Idle
        <4> QED BY <4>1, <4>2
      <3>2. Held' = Held
        BY <2>1, <2>4 DEF Held, OnlyWorker
      <3>3. e \notin Made /\ e \notin Queued
        BY <1>7, WaitingParts DEF Apart
      <3> HIDE DEF e
      <3>4. e \in Waiting /\ Waiting' = Waiting \ {e}
        BY <2>2, <2>3, <3>1, <3>3
      <3> QED BY <2>2, <3>2, <3>4 DEF Visible
    <2>5. CASE worker[w].pc # "moving"
      <3>1. worker[w].pc # "idle"
        BY <1>7, BusyWorker DEF Labels
      <3>2. Moving' = Moving /\ Held' = [Held EXCEPT ![w] = Idle]
        BY <2>1, <2>5, MappedWorker
      <3>3. Held[w] = worker[w].task
        BY <2>5, <3>1 DEF Held
      <3>4. Held[w] # Idle /\ Waiting' = Waiting
        BY <2>1, <2>2, <2>3, <3>2, <3>3, EnvelopeIsSomething
      <3> QED BY <2>2, <3>2, <3>4 DEF Visible
    <2> QED BY <2>4, <2>5
  <1>8. ASSUME NEW w \in Workers, At(w, "retrying"), PushFailed(w) PROVE Visible
    <2>1. worker[w] # Idle /\ worker'[w] = Idle /\ OnlyWorker(w) /\ UNCHANGED <<row, created>>
      BY <1>8, PushedByWorker
    <2>2. PICK e \in Envelope : /\ e.id = worker[w].task.id
                                /\ e.attempts = worker[w].task.attempts + 1
                                /\ Queued' = Queued \cup {e}
      BY <1>8, PushedByWorker
    <2>3. worker[w].task \in Envelope /\ worker[w].task.attempts + 1 < MaxAttempts
      BY <1>8, <2>1, BusyWorker DEF StartsCounted
    <2>4. Held[w] = worker[w].task /\ Held[w] # Idle
      BY <1>8, <2>3, EnvelopeIsSomething DEF Held, At
    <2>5. e = [Held[w] EXCEPT !.attempts = @ + 1]
      BY <2>2, <2>3, <2>4 DEF Envelope
    <2>6. worker'[w].pc = "idle"
      BY <2>1 DEF Idle
    <2>7. Moving' = Moving /\ Held' = [Held EXCEPT ![w] = Idle]
      BY <1>8, <2>1, <2>6, MappedWorker DEF At
    <2>8. Waiting = Made \cup Queued \cup Moving /\ Waiting' = Made' \cup Queued' \cup Moving'
      BY DEF Waiting, Queued
    <2>9. Made' = Made /\ Known' = Known
      BY <2>1 DEF Made, Known
    <2>10. Waiting' = Waiting \cup {e}
      BY <2>2, <2>7, <2>8, <2>9
    <2> QED BY <2>3, <2>4, <2>5, <2>7, <2>9, <2>10 DEF Visible
  <1>9. ASSUME NEW w \in Workers, PushFailed(w) \/ EndTask(w) \/ Crash(w) PROVE Visible
    <2>1. worker[w] # Idle
      BY <1>9 DEF PushFailed, EndTask, Crash, At, Idle
    <2> QED BY <1>7, <1>8, <1>9, <2>1 DEF PushFailed, EndTask, Crash, Rests, Rest, At
  <1>10. ASSUME NEW w \in Workers,
                \/ MarkRunning(w) \/ HandlerSucceeds(w) \/ MarkSucceeded(w) \/ MarkFailed(w) \/ CallFails(w)
                \/ \E retryable \in BOOLEAN : HandlerFails(w, retryable)
         PROVE  Visible
    <2>1. GoesOn(w)
      BY <1>10, StepsThatGoOn
    <2>2. /\ worker[w] # Idle /\ OnlyWorker(w) /\ worker'[w].task = worker[w].task
          /\ Queued' = Queued /\ created' = created
      BY <2>1, GoingOn
    <2>3. worker[w].pc \notin {"idle", "moving"}
      BY <1>10 DEF MarkRunning, HandlerSucceeds, MarkSucceeded, MarkFailed, CallFails, HandlerFails, At
    <2>4. worker'[w].pc \notin {"idle", "moving"}
      <3>1. CASE MarkRunning(w)
        BY <3>1 DEF MarkRunning, Goto, TypeOK
      <3>2. CASE HandlerSucceeds(w)
        BY <3>2 DEF HandlerSucceeds, Goto, TypeOK
      <3>3. CASE MarkSucceeded(w)
        BY <3>3 DEF MarkSucceeded, Goto, TypeOK
      <3>4. CASE MarkFailed(w)
        BY <3>4 DEF MarkFailed, Goto, TypeOK
      <3>5. CASE CallFails(w)
        BY <3>5 DEF CallFails, Goto, TypeOK
      <3>6. CASE \E retryable \in BOOLEAN : HandlerFails(w, retryable)
        BY <3>6 DEF HandlerFails, TypeOK
      <3> QED BY <1>10, <3>1, <3>2, <3>3, <3>4, <3>5, <3>6
    <2>5. Moving' = Moving /\ Held' = Held
      <3>1. Moving' = Moving
        BY <2>2, <2>3, <2>4, MappedWorker
      <3> QED BY <2>2, <2>3, <2>4, <3>1 DEF Held, OnlyWorker
    <2>6. Known' = Known
      <3>1. \A t \in Tasks : row[t] # "none" => row'[t] # "none"
        BY ComingAndGoing
      <3>2. ASSUME NEW t \in Tasks, row[t] = "none" PROVE row'[t] = "none"
        <4>1. ~Holds(w, t)
          BY <3>2 DEF Enlisted, Placed
        <4>2. t # worker[w].task.id
          BY <2>2, <4>1 DEF Holds
        <4> QED BY <1>10, <3>2, <4>2 DEF MarkRunning, HandlerSucceeds, MarkSucceeded, MarkFailed, CallFails,
                    HandlerFails, TypeOK
      <3> QED BY <3>1, <3>2 DEF Known
    <2>7. Waiting = Made \cup Queued \cup Moving /\ Waiting' = Made' \cup Queued' \cup Moving'
      BY DEF Waiting, Queued
    <2>8. Made' = Made
      BY <2>2 DEF Made
    <2> QED BY <2>2, <2>5, <2>6, <2>7, <2>8 DEF Visible
  <1>11. CASE UNCHANGED vars
    BY <1>11 DEF vars, Visible, Waiting, Made, Moving, Held, Known, At
  <1> QED BY <1>1, <1>2, <1>3, <1>4, <1>5, <1>6, <1>9, <1>10, <1>11 DEF Next, WorkerStep

(* Whatever Redis structures a task passes through, and wherever a process  *)
(* stops, the queue delivers tasks as TaskDelivery promises: submitted      *)
(* once, with one worker at a time, handed back with one more attempt and   *)
(* never after the last.                                                    *)
THEOREM QueueDeliversTasks == Spec => DeliversTasks
  <1>1. Init => Delivery!Init
    <2> SUFFICES ASSUME Init PROVE Delivery!Init
      OBVIOUS
    <2>1. /\ Waiting = {} /\ Held = [w \in Workers |-> Idle] /\ Known = {}
      BY DEF Init, Waiting, Made, Moving, Held, Known, At, ToSet, Idle
    <2> QED BY <2>1 DEF Delivery!Init, Waiting, Made, Moving, Held, Known
  <1>2. Visible => [Delivery!Next]_(Delivery!dvars)
    BY DEF Visible, Delivery!Next, Delivery!dvars, Delivery!Submit, Delivery!Take, Delivery!Retry,
           Delivery!Drop, Delivery!Lose, Waiting, Made, Moving, Held, Known
  <1> QED BY <1>1, <1>2, StepIsVisible, QueueInvariant, PTL DEF Spec, DeliversTasks, Delivery!Spec
=============================================================================
