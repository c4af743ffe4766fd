----------------------------- MODULE TaskQueue ------------------------------
(* The task queue: a Redis list of ready tasks, a Redis sorted set of       *)
(* delayed ones, a dead-letter list, and a worker_tasks row per task that   *)
(* operators see.  Redis and the database are written one after the other,  *)
(* never together, so every pair of writes is two steps, and a process can  *)
(* stop or fail in between.                                                *)
EXTENDS Naturals, Sequences, FiniteSets, SequencesExt

CONSTANTS Tasks,        \* task ids
          Workers,      \* worker processes
          MaxAttempts,  \* TASK_MAX_ATTEMPTS
          RetryDelayed, \* TASK_RETRY_DELAY_SECONDS > 0
          MaxFaults     \* bound: failures of Redis, the database and processes

ASSUME QueueAssumption == /\ MaxAttempts \in Nat \ {0}
                          /\ RetryDelayed \in BOOLEAN
                          /\ MaxFaults \in Nat

VARIABLES row,         \* worker_tasks.status, or "none"
          created,     \* tasks with a row that are not in Redis yet
          ready,       \* the list of ready tasks, oldest first
          delayed,     \* the sorted set of delayed tasks
          dead,        \* the dead-letter list
          worker,      \* what each worker is doing
          completions, \* how often the handler of a task ran to its end
          starts,      \* how often it was started
          faults,      \* faults so far (bound)
          lost         \* tasks a fault took out of Redis or left outside it

vars == <<row, created, ready, delayed, dead, worker, completions, starts, faults, lost>>

Envelope == [id : Tasks, attempts : Nat]

Statuses == {"queued", "delayed", "running", "retrying", "succeeded", "dead"}

Labels == {"moving", "popped", "running", "handled", "succeeded", "failing", "retrying", "burying"}

Idle == [pc |-> "idle"]

TypeOK == /\ row \in [Tasks -> Statuses \cup {"none"}]
          /\ created \in SUBSET Tasks
          /\ ready \in Seq(Envelope)
          /\ delayed \in SUBSET Envelope
          /\ dead \in Seq(Tasks)
          /\ worker \in [Workers -> [pc : Labels, task : Envelope, retryable : BOOLEAN] \cup {Idle}]
          /\ completions \in [Tasks -> Nat] /\ starts \in [Tasks -> Nat]
          /\ faults \in Nat
          /\ lost \in SUBSET Tasks

Init == /\ row = [t \in Tasks |-> "none"]
        /\ created = {}
        /\ ready = <<>>
        /\ delayed = {}
        /\ dead = <<>>
        /\ worker = [w \in Workers |-> Idle]
        /\ completions = [t \in Tasks |-> 0]
        /\ starts = [t \in Tasks |-> 0]
        /\ faults = 0
        /\ lost = {}

-----------------------------------------------------------------------------
(* Producers.                                                              *)

(* enqueue_task up to the push: create_worker_task commits the row of a new *)
(* task.  retry_task_endpoint comes here too: what it retries is a copy of  *)
(* the payload under a new id, and the task it copies stays what it is.    *)
Enqueue(t, status) ==
    /\ row[t] = "none"
    /\ row' = [row EXCEPT ![t] = status]
    /\ created' = created \cup {t}
    /\ UNCHANGED <<ready, delayed, dead, worker, completions, starts, faults, lost>>

(* push_task puts the envelope into the list or the sorted set. *)
Push(e, isDelayed) ==
    IF isDelayed THEN delayed' = delayed \cup {e} /\ UNCHANGED ready
                 ELSE ready' = Append(ready, e) /\ UNCHANGED delayed

PushCreated(t) ==
    /\ t \in created
    /\ created' = created \ {t}
    /\ Push([id |-> t, attempts |-> 0], row[t] = "delayed")
    /\ UNCHANGED <<row, dead, worker, completions, starts, faults, lost>>

(* The producer fails or stops between the commit and the push. *)
ProducerFails(t) ==
    /\ t \in created
    /\ faults < MaxFaults /\ faults' = faults + 1
    /\ created' = created \ {t}
    /\ lost' = lost \cup {t}
    /\ UNCHANGED <<row, ready, delayed, dead, worker, completions, starts>>

-----------------------------------------------------------------------------
(* The loop of run_worker.                                                 *)

Goto(w, label) == worker' = [worker EXCEPT ![w].pc = label]
Rest(w)        == worker' = [worker EXCEPT ![w] = Idle]
At(w, label)   == worker[w].pc = label
Job(label, e)  == [pc |-> label, task |-> e, retryable |-> TRUE]

(* Variant: the member of the sorted set is moved without being removed. *)
TakeDue_Kept(w, e) ==
    /\ worker[w] = Idle /\ e \in delayed
    /\ worker' = [worker EXCEPT ![w] = Job("moving", e)]
    /\ UNCHANGED <<row, created, ready, delayed, dead, completions, starts, faults, lost>>

(* promote_due_tasks: whoever removes a due member from the sorted set...   *)
TakeDue(w, e) ==
    /\ worker[w] = Idle /\ e \in delayed
    /\ delayed' = delayed \ {e}
    /\ worker' = [worker EXCEPT ![w] = Job("moving", e)]
    /\ UNCHANGED <<row, created, ready, dead, completions, starts, faults, lost>>

(* Variant: the id is appended instead of the envelope. *)
Promote_IdOnly(w) ==
    /\ At(w, "moving")
    /\ ready' = Append(ready, worker[w].task.id)
    /\ Rest(w)
    /\ UNCHANGED <<row, created, delayed, dead, completions, starts, faults, lost>>

(* ... appends it to the list, in a second command. *)
Promote(w) ==
    /\ At(w, "moving")
    /\ ready' = Append(ready, worker[w].task)
    /\ Rest(w)
    /\ UNCHANGED <<row, created, delayed, dead, completions, starts, faults, lost>>

(* pop_task *)
Pop(w) ==
    /\ worker[w] = Idle /\ ready # <<>>
    /\ worker' = [worker EXCEPT ![w] = Job("popped", Head(ready))]
    /\ ready' = Tail(ready)
    /\ UNCHANGED <<row, created, delayed, dead, completions, starts, faults, lost>>

(* mark_task_running *)
MarkRunning(w) ==
    /\ At(w, "popped")
    /\ row' = [row EXCEPT ![worker[w].task.id] = "running"]
    /\ starts' = [starts EXCEPT ![worker[w].task.id] = @ + 1]
    /\ Goto(w, "running")
    /\ UNCHANGED <<created, ready, delayed, dead, completions, faults, lost>>

(* handle_task returns... *)
HandlerSucceeds(w) ==
    /\ At(w, "running")
    /\ completions' = [completions EXCEPT ![worker[w].task.id] = @ + 1]
    /\ Goto(w, "handled")
    /\ UNCHANGED <<row, created, ready, delayed, dead, starts, faults, lost>>

(* ... or raises an error, which is_retryable_task_error judges. *)
HandlerFails(w, retryable) ==
    /\ At(w, "running")
    /\ worker' = [worker EXCEPT ![w].pc = "failing", ![w].retryable = retryable]
    /\ UNCHANGED <<row, created, ready, delayed, dead, completions, starts, faults, lost>>

(* mark_task_succeeded *)
MarkSucceeded(w) ==
    /\ At(w, "handled")
    /\ row' = [row EXCEPT ![worker[w].task.id] = "succeeded"]
    /\ Goto(w, "succeeded")
    /\ UNCHANGED <<created, ready, delayed, dead, completions, starts, faults, lost>>

(* The heartbeat after it, and the next turn of the loop. *)
EndTask(w) ==
    /\ At(w, "succeeded")
    /\ Rest(w)
    /\ UNCHANGED <<row, created, ready, delayed, dead, completions, starts, faults, lost>>

(* Variant: one attempt too many. *)
LastAttempt_OffByOne(w) == ~worker[w].retryable \/ worker[w].task.attempts + 1 > MaxAttempts

(* requeue_task: mark_task_dead or mark_task_retrying... *)
LastAttempt(w) == ~worker[w].retryable \/ worker[w].task.attempts + 1 >= MaxAttempts

MarkFailed(w) ==
    /\ At(w, "failing")
    /\ row' = [row EXCEPT ![worker[w].task.id] = IF LastAttempt(w) THEN "dead" ELSE "retrying"]
    /\ Goto(w, IF LastAttempt(w) THEN "burying" ELSE "retrying")
    /\ UNCHANGED <<created, ready, delayed, dead, completions, starts, faults, lost>>

(* Variant: the task is handed back only to the dead-letter list. *)
PushFailed_NoRetry(w) ==
    /\ worker[w].pc \in {"burying", "retrying"}
    /\ dead' = IF At(w, "burying") THEN Append(dead, worker[w].task.id) ELSE dead
    /\ Rest(w)
    /\ UNCHANGED <<row, created, ready, delayed, completions, starts, faults, lost>>

(* Variant: nothing is pushed to the dead-letter list. *)
PushFailed_NoDeadLetter(w) ==
    /\ \/ At(w, "burying") /\ UNCHANGED <<ready, delayed>>
       \/ /\ At(w, "retrying")
          /\ Push([worker[w].task EXCEPT !.attempts = @ + 1], RetryDelayed)
    /\ Rest(w)
    /\ UNCHANGED <<row, created, dead, completions, starts, faults, lost>>

(* ... and then the push to the dead-letter list or back to the queue. *)
PushFailed(w) ==
    /\ LET e == worker[w].task
       IN \/ /\ At(w, "burying")
             /\ dead' = Append(dead, e.id)
             /\ UNCHANGED <<ready, delayed>>
          \/ /\ At(w, "retrying")
             /\ Push([e EXCEPT !.attempts = @ + 1], RetryDelayed)
             /\ UNCHANGED dead
    /\ Rest(w)
    /\ UNCHANGED <<row, created, completions, starts, faults, lost>>

(* The database or Redis fails a call made inside the try block: the task   *)
(* is requeued, even when its handler has returned.                        *)
CallFails(w) ==
    /\ faults < MaxFaults /\ faults' = faults + 1
    /\ worker[w].pc \in {"popped", "running", "handled", "succeeded"}
    /\ Goto(w, "failing")
    /\ UNCHANGED <<row, created, ready, delayed, dead, completions, starts, lost>>

(* The process dies, or a call made in the except block fails and ends it,  *)
(* or the push of a due task fails.  The process is started again.         *)
Crash(w) ==
    /\ faults < MaxFaults /\ faults' = faults + 1
    /\ worker[w] # Idle
    /\ Rest(w)
    /\ lost' = IF At(w, "succeeded") THEN lost ELSE lost \cup {worker[w].task.id}
    /\ UNCHANGED <<row, created, ready, delayed, dead, completions, starts>>

-----------------------------------------------------------------------------
WorkerStep(w) ==
    \/ \E e \in delayed : TakeDue(w, e)
    \/ Promote(w)
    \/ Pop(w)
    \/ MarkRunning(w)
    \/ HandlerSucceeds(w)
    \/ \E retryable \in BOOLEAN : HandlerFails(w, retryable)
    \/ MarkSucceeded(w)
    \/ EndTask(w)
    \/ MarkFailed(w)
    \/ PushFailed(w)

Next == \/ \E t \in Tasks : \/ \E status \in {"queued", "delayed"} : Enqueue(t, status)
                            \/ PushCreated(t)
                            \/ ProducerFails(t)
        \/ \E w \in Workers : WorkerStep(w) \/ CallFails(w) \/ Crash(w)

Spec == Init /\ [][Next]_vars

(* Workers loop for ever and a producer that has committed goes on to push. *)
(* Nobody has to enqueue anything.                                         *)
FairSpec == /\ Spec
            /\ \A w \in Workers : WF_vars(WorkerStep(w))
            /\ \A t \in Tasks : WF_vars(PushCreated(t))

-----------------------------------------------------------------------------
(* Properties.                                                             *)

Holds(w, t) == worker[w] # Idle /\ worker[w].task.id = t

(* In how many places a task is. *)
Places(t) == Cardinality({i \in DOMAIN ready : ready[i].id = t})
             + Cardinality({e \in delayed : e.id = t})
             + Cardinality({w \in Workers : Holds(w, t)})
             + (IF t \in created THEN 1 ELSE 0)

(* A task is in one place at most: two workers promoting the same due task, *)
(* or a retry, never duplicate it, so no two workers handle it at once.    *)
OnePlace == \A t \in Tasks : Places(t) <= 1

(* A task that operators see as unfinished is in the queue or with a       *)
(* worker, or a fault took it away.                                        *)
NoTaskForgotten ==
    \A t \in Tasks :
        row[t] \notin {"none", "succeeded", "dead"} => Places(t) = 1 \/ t \in lost

(* A handler that ran to its end runs again only when a call after it, the  *)
(* commit of the result or a heartbeat, failed: not more often than calls   *)
(* have failed, those for other tasks included.                             *)
HandledOnce == \A t \in Tasks : completions[t] <= 1 + faults

(* Neither retries nor failures of the bookkeeping start a task more often  *)
(* than TASK_MAX_ATTEMPTS allows.                                          *)
AttemptsBounded == \A t \in Tasks : starts[t] <= MaxAttempts

(* A task operators see as dead is in the dead-letter list, just once, or   *)
(* on its way there, or a fault came in between.                           *)
DeadIsBuried ==
    /\ IsInjective(dead)
    /\ \A t \in Tasks :
          row[t] = "dead" => t \in ToSet(dead) \cup lost \/ \E w \in Workers : Holds(w, t)

(* Every task is settled in the end, or lost to a fault. *)
EveryTaskSettles ==
    \A t \in Tasks :
        row[t] # "none" ~> row[t] \in {"succeeded", "dead"} \/ t \in lost

-----------------------------------------------------------------------------
(* The queue implements TaskDelivery: what waits is in Redis, or about to   *)
(* be put there by a producer or by a worker that promotes it.             *)

Delivery == INSTANCE TaskDelivery
              WITH Ids     <- Tasks,
                   Nothing <- Idle,
                   waiting <- {[id |-> t, attempts |-> 0] : t \in created} \cup ToSet(ready)
                                \cup delayed
                                \cup {worker[w].task : w \in {x \in Workers : At(x, "moving")}},
                   held    <- [w \in Workers |-> IF worker[w].pc \in {"idle", "moving"}
                                                 THEN Idle ELSE worker[w].task],
                   known   <- {t \in Tasks : row[t] # "none"}

(* Whatever Redis structures a task passes through, it is submitted once,   *)
(* taken by one worker at a time and handed back with one more attempt.    *)
DeliversTasks == Delivery!Spec
=============================================================================
