---------------------------- MODULE TaskDelivery ----------------------------
(* What the task queue promises to those who enqueue tasks, whatever Redis  *)
(* structures it is made of: a task that was submitted is in one place at   *)
(* a time, waiting or with one worker; a worker that is done with it drops  *)
(* it or hands it back with one more attempt, and never after the last.    *)
(* It does not promise that a task is not lost.                            *)
EXTENDS Naturals

CONSTANTS Ids,         \* task ids
          Workers,     \* worker processes
          MaxAttempts, \* TASK_MAX_ATTEMPTS
          Nothing      \* what an idle worker holds

VARIABLES waiting, \* tasks waiting for a worker: [id, attempts]
          held,    \* the task each worker has taken, or Nothing
          known    \* ids of the tasks submitted so far

dvars == <<waiting, held, known>>

Init == /\ waiting = {}
        /\ held = [w \in Workers |-> Nothing]
        /\ known = {}

(* enqueue_task *)
Submit(t) ==
    /\ t \notin known
    /\ known' = known \cup {t}
    /\ waiting' = waiting \cup {[id |-> t, attempts |-> 0]}
    /\ UNCHANGED held

(* pop_task *)
Take(w, e) ==
    /\ held[w] = Nothing
    /\ waiting' = waiting \ {e}
    /\ held' = [held EXCEPT ![w] = e]
    /\ UNCHANGED known

(* requeue_task, when attempts are left. *)
Retry(w) ==
    /\ held[w] # Nothing
    /\ held[w].attempts + 1 < MaxAttempts
    /\ waiting' = waiting \cup {[held[w] EXCEPT !.attempts = @ + 1]}
    /\ held' = [held EXCEPT ![w] = Nothing]
    /\ UNCHANGED known

(* The task succeeded, is dead, or died with its worker. *)
Drop(w) ==
    /\ held[w] # Nothing
    /\ held' = [held EXCEPT ![w] = Nothing]
    /\ UNCHANGED <<waiting, known>>

(* A task disappears before a worker works on it. *)
Lose(e) ==
    /\ waiting' = waiting \ {e}
    /\ UNCHANGED <<held, known>>

Next == \/ \E t \in Ids : Submit(t)
        \/ \E e \in waiting : Lose(e) \/ \E w \in Workers : Take(w, e)
        \/ \E w \in Workers : Retry(w) \/ Drop(w)

Spec == Init /\ [][Next]_dvars
=============================================================================
