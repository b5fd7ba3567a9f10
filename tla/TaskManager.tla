---------------------------- MODULE TaskManager ----------------------------
(***************************************************************************)
(* The in-process task registry of backend/app/task_manager/manager.py:    *)
(* one asyncio task per run, a semaphore that limits how many of them are  *)
(* inside their job, cancellation, and shutdown.                           *)
(*                                                                         *)
(* A step of this module is what the event loop executes between two       *)
(* awaits.  Task.cancel() only records a request (cancelling); the         *)
(* CancelledError is thrown into the coroutine at its next step, which the *)
(* event loop takes later.  What the job does is left open: Finish may     *)
(* happen at any time, RunLifecycle says when.                             *)
(***************************************************************************)
EXTENDS Integers, FiniteSets

CONSTANTS
    Runs,             \* the run identifiers
    MaxConcurrency    \* settings.max_concurrent_runs

ASSUME RunsAssumption == IsFiniteSet(Runs)
ASSUME MaxConcurrencyAssumption == MaxConcurrency \in Nat \ {0}

VARIABLES
    task,        \* what _tasks holds for a run, and where that task stands
    cancelling,  \* runs whose task has an undelivered cancellation request
    permits,     \* Semaphore._value
    ahead        \* Semaphore._waiters: who stands before a queued run

vars == <<task, cancelling, permits, ahead>>

(***************************************************************************)
(* absent   not in _tasks                                                  *)
(* created  in _tasks, the coroutine has not executed its first step       *)
(* waiting  suspended in Semaphore.acquire, its future not done            *)
(* granted  its future is done, it owns a permit but has not resumed       *)
(* running  inside job(), owns a permit                                    *)
(* stale    the asyncio task is done but its entry is still in _tasks      *)
(***************************************************************************)
TaskState == {"absent", "created", "waiting", "granted", "running", "stale"}

TypeOK ==
    /\ task \in [Runs -> TaskState]
    /\ cancelling \subseteq Runs
    /\ permits \in 0..MaxConcurrency
    /\ ahead \in [Runs -> SUBSET Runs]

Init ==
    /\ task = [r \in Runs |-> "absent"]
    /\ cancelling = {}
    /\ permits = MaxConcurrency
    /\ ahead = [r \in Runs |-> {}]

Alive == {r \in Runs : task[r] \notin {"absent", "stale"}}
Granted == {r \in Runs : task[r] = "granted"}
Queued == {r \in Runs : task[r] = "waiting"} \cup Granted
Holders == {r \in Runs : task[r] = "running"} \cup Granted

\* Waiters whose future is neither resolved nor cancelled.
Pending == {r \in Runs : task[r] = "waiting"} \ cancelling

\* Semaphore.locked(): no permit, or somebody queued before who is not cancelled.
Locked == permits = 0 \/ Pending \cup Granted # {}

\* Mutant of WakesUp: the queue is not served in order.
WakesUpAnyone(W, pool, n) ==
    /\ W \subseteq pool
    /\ \/ Cardinality(W) = n
       \/ Cardinality(W) < n /\ W = pool

\* Up to n calls of Semaphore._wake_up_next() resolve exactly the futures of W,
\* the first ones of the queue among those in pool.
WakesUp(W, pool, n) ==
    /\ W \subseteq pool
    /\ \/ Cardinality(W) = n
       \/ Cardinality(W) < n /\ W = pool
    /\ \A x \in W, y \in pool \ W : x \in ahead[y]

\* The tasks after r moved to state s and the futures of W were resolved.
MoveAndWake(r, s, W) ==
    task' = [x \in Runs |-> IF x = r THEN s
                            ELSE IF x \in W THEN "granted" ELSE task[x]]

\* r is removed from Semaphore._waiters.
LeaveQueue(r) ==
    ahead' = [x \in Runs |-> IF x = r THEN {} ELSE ahead[x] \ {r}]

-----------------------------------------------------------------------------
(* Calls made by the request handlers and by the lifespan handler *)

\* submit(), for the runs of S one after the other: a run already registered
\* is refused, and no caller looks at the returned False.
Submit(S) ==
    /\ task' = [r \in Runs |-> IF r \in S /\ task[r] = "absent"
                               THEN "created" ELSE task[r]]
    /\ UNCHANGED <<cancelling, permits, ahead>>

\* cancel(): asyncio ignores the request when the task is already done.
Cancel(r) ==
    /\ cancelling' = cancelling \cup ({r} \cap Alive)
    /\ UNCHANGED <<task, permits, ahead>>

\* shutdown() cancels every registered task before it gathers them.
Shutdown ==
    /\ cancelling' = Alive
    /\ UNCHANGED <<task, permits, ahead>>

\* The process ends and a new one builds its own TaskManager.
Reset ==
    /\ task' = [r \in Runs |-> "absent"]
    /\ cancelling' = {}
    /\ permits' = MaxConcurrency
    /\ ahead' = [r \in Runs |-> {}]

-----------------------------------------------------------------------------
(* Steps of the task of r: _execute() *)

\* First step, a permit is free: acquire() does not suspend and job() begins.
StartJob(r) ==
    /\ task[r] = "created" /\ r \notin cancelling
    /\ ~Locked
    /\ task' = [task EXCEPT ![r] = "running"]
    /\ permits' = permits - 1
    /\ UNCHANGED <<cancelling, ahead>>

\* First step, no permit: the task queues behind everyone in _waiters.
StartWaiting(r) ==
    /\ task[r] = "created" /\ r \notin cancelling
    /\ Locked
    /\ task' = [task EXCEPT ![r] = "waiting"]
    /\ ahead' = [ahead EXCEPT ![r] = Queued]
    /\ UNCHANGED <<cancelling, permits>>

\* Cancelled before its first step: CancelledError is thrown into a coroutine
\* that has not entered the try block, so the finally clause never pops r.
CancelUnstarted(r) ==
    /\ task[r] = "created" /\ r \in cancelling
    /\ task' = [task EXCEPT ![r] = "stale"]
    /\ cancelling' = cancelling \ {r}
    /\ UNCHANGED <<permits, ahead>>

\* Mutant of Resume: the permits freed meanwhile are not passed on.
ResumeAlone(r) ==
    /\ task[r] = "granted" /\ r \notin cancelling
    /\ MoveAndWake(r, "running", {})
    /\ LeaveQueue(r)
    /\ UNCHANGED <<cancelling, permits>>

\* A woken waiter resumes, wakes more waiters while permits are left, and
\* enters job().
Resume(r) ==
    /\ task[r] = "granted" /\ r \notin cancelling
    /\ \E W \in SUBSET Pending :
        /\ WakesUp(W, Pending, permits)
        /\ MoveAndWake(r, "running", W)
        /\ permits' = permits - Cardinality(W)
    /\ LeaveQueue(r)
    /\ UNCHANGED cancelling

\* A cancelled waiter leaves acquire(): it gives back the permit it was granted
\* but not used, wakes others, and the finally clause of _execute pops r.
AbandonWait(r) ==
    /\ task[r] \in {"waiting", "granted"} /\ r \in cancelling
    /\ LET free == IF task[r] = "granted" THEN permits + 1 ELSE permits
       IN  \E W \in SUBSET Pending :
            /\ WakesUp(W, Pending, free)
            /\ MoveAndWake(r, "absent", W)
            /\ permits' = free - Cardinality(W)
    /\ LeaveQueue(r)
    /\ cancelling' = cancelling \ {r}

\* CancelledError is thrown at the await the job is suspended at.
DeliverCancel(r) ==
    /\ task[r] = "running" /\ r \in cancelling
    /\ cancelling' = cancelling \ {r}
    /\ UNCHANGED <<task, permits, ahead>>

\* Mutant of Finish: the permit is not released when the job raises.
FinishKeepsPermit(r) ==
    /\ task[r] = "running"
    /\ MoveAndWake(r, "absent", {})
    /\ cancelling' = cancelling \ {r}
    /\ UNCHANGED <<permits, ahead>>

\* job() returns or raises: release() wakes one waiter, the finally clause pops r.
Finish(r) ==
    /\ task[r] = "running"
    /\ \E W \in SUBSET Pending :
        /\ WakesUp(W, Pending, 1)
        /\ MoveAndWake(r, "absent", W)
        /\ permits' = (permits + 1) - Cardinality(W)
    /\ cancelling' = cancelling \ {r}
    /\ UNCHANGED ahead

TaskStep(r) ==
    \/ StartJob(r) \/ StartWaiting(r) \/ CancelUnstarted(r)
    \/ Resume(r) \/ AbandonWait(r) \/ DeliverCancel(r) \/ Finish(r)

Next ==
    \/ \E S \in SUBSET Runs : Submit(S)
    \/ \E r \in Runs : Cancel(r) \/ TaskStep(r)
    \/ Shutdown
    \/ Reset

Spec == Init /\ [][Next]_vars

\* The event loop takes every ready step, and every job ends because the
\* pipeline puts a time limit on each call it awaits.
FairSpec ==
    /\ Spec
    /\ \A r \in Runs : /\ WF_vars(StartJob(r) \/ StartWaiting(r) \/ CancelUnstarted(r))
                       /\ WF_vars(Resume(r) \/ AbandonWait(r))
                       /\ WF_vars(Finish(r))

-----------------------------------------------------------------------------
(* Properties *)

\* No permit is lost or duplicated: every permit is either free or owned by one
\* task, through wake-ups, and through cancellations of tasks that were granted
\* a permit but never used it.  So at most MaxConcurrency jobs execute.
PermitsConserved == permits + Cardinality(Holders) = MaxConcurrency

\* No lost wake-up: when a permit is free while somebody waits for one, a woken
\* task is about to resume and will pass the permit on.
NoLostWakeup == permits > 0 /\ Pending # {} => Granted # {}

\* First come, first served: no task gets a permit, be it woken up or starting
\* directly, while a run that queued before it and was not cancelled is left.
NoOvertaking ==
    [][\A x \in Pending, y \in Runs :
          /\ task[y] \in {"created", "waiting"} /\ y \notin ahead[x]
          /\ task'[y] \in {"granted", "running"}
          => task'[x] = "granted"]_vars

\* A task that waits for the semaphore gets out of the queue: it enters its job
\* or is cancelled, however many others are submitted meanwhile.
EveryWaiterLeaves == \A r \in Runs : task[r] = "waiting" ~> task[r] # "waiting"

\* README.md:394-397 and docs/PROJECT_UNDERSTANDING_GUIDE.md:563 say that a run
\* leaves the registry however its task ends.
RegistryReleased == \A r \in Runs : task[r] # "stale"
=============================================================================
