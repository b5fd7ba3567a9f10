--------------------------- MODULE PaddleRuntime ---------------------------
(***************************************************************************)
(* The in-process PaddleOCR runtime of adapters/parsers/paddle_structure.py*)
(* and the executor that asyncio.to_thread() runs it on.  parse() awaits   *)
(* predict() in a worker thread; every other file operation of the process *)
(* goes through the same workers.  When the awaiting task is cancelled or  *)
(* timed out, a call still queued is dropped, but a thread that has begun  *)
(* cannot be stopped: it keeps its worker, waits for the inference         *)
(* semaphore and infers for nobody.                                        *)
(*                                                                         *)
(* A step is what a thread does between two operations on shared state.    *)
(***************************************************************************)
EXTENDS Integers, FiniteSets

CONSTANTS
    Parses,        \* calls of predict() (a call that ended stands for a later one)
    FileCalls,     \* other calls of asyncio.to_thread()
    MaxRuns,       \* settings.max_concurrent_runs: how many runs await a parse
    MaxInference,  \* settings.paddleocr_max_concurrency
    Workers        \* threads of the default executor

ASSUME CallsAssumption ==
    IsFiniteSet(Parses) /\ IsFiniteSet(FileCalls) /\ Parses \cap FileCalls = {}
ASSUME LimitsAssumption ==
    MaxRuns \in Nat /\ MaxInference \in Nat \ {0} /\ Workers \in Nat \ {0}

VARIABLES
    stage,     \* where the thread of a call stands
    awaited,   \* the calls whose caller still awaits the result
    ahead,     \* the executor's queue: the calls queued before a call
    slots,     \* _inference_semaphore
    locked,    \* _initialization_lock
    pipeline,  \* _pipeline is not None
    created    \* initialization_count, capped at 2

vars == <<stage, awaited, ahead, slots, locked, pipeline, created>>

Calls == Parses \cup FileCalls

(***************************************************************************)
(* idle     no call                  queued   in the executor's queue       *)
(* file     the worker does file I/O slot     waits for the semaphore       *)
(* check    reads _pipeline          lock     waits for the lock            *)
(* create   builds the pipeline      infer    pipeline.predict and after    *)
(***************************************************************************)
Holding == {p \in Parses : stage[p] \in {"check", "lock", "create", "infer"}}
Busy == {p \in Calls : stage[p] \notin {"idle", "queued"}}
Queued == {p \in Calls : stage[p] = "queued"}

TypeOK ==
    /\ stage \in [Calls -> {"idle", "queued", "file", "slot", "check", "lock",
                            "create", "infer"}]
    /\ \A p \in Calls : stage[p] \in {"idle", "queued"} \/ (stage[p] = "file" <=> p \in FileCalls)
    /\ awaited \subseteq Calls
    /\ ahead \in [Calls -> SUBSET Calls]
    /\ slots \in 0..MaxInference
    /\ locked \in BOOLEAN
    /\ pipeline \in BOOLEAN
    /\ created \in 0..2

Init ==
    /\ stage = [p \in Calls |-> "idle"]
    /\ awaited = {}
    /\ ahead = [p \in Calls |-> {}]
    /\ slots = MaxInference
    /\ locked = FALSE
    /\ pipeline = FALSE
    /\ created = 0

LeaveQueue(p) == ahead' = [x \in Calls |-> IF x = p THEN {} ELSE ahead[x] \ {p}]

Move(p, s) == stage' = [stage EXCEPT ![p] = s]

-----------------------------------------------------------------------------
(* The event loop *)

\* asyncio.to_thread() puts the call into the executor's queue.  Only a run that
\* holds a permit of the task manager awaits a parse.
Submit(p) ==
    /\ stage[p] = "idle"
    /\ p \in Parses => Cardinality(awaited \cap Parses) < MaxRuns
    /\ Move(p, "queued")
    /\ awaited' = awaited \cup {p}
    /\ ahead' = [ahead EXCEPT ![p] = Queued]
    /\ UNCHANGED <<slots, locked, pipeline, created>>

\* The awaiting task is cancelled, or its time limit passes.
Abandon(p) ==
    /\ p \in awaited
    /\ awaited' = awaited \ {p}
    /\ IF stage[p] = "queued"
       THEN Move(p, "idle") /\ LeaveQueue(p)
       ELSE UNCHANGED <<stage, ahead>>
    /\ UNCHANGED <<slots, locked, pipeline, created>>

-----------------------------------------------------------------------------
(* The worker threads *)

\* An idle worker takes the first call of the queue.
Start(p) ==
    /\ stage[p] = "queued" /\ ahead[p] = {}
    /\ Cardinality(Busy) < Workers
    /\ Move(p, IF p \in FileCalls THEN "file" ELSE "slot")
    /\ LeaveQueue(p)
    /\ UNCHANGED <<awaited, slots, locked, pipeline, created>>

\* predict() enters "with self._inference_semaphore".
TakeSlot(p) ==
    /\ stage[p] = "slot" /\ slots > 0
    /\ slots' = slots - 1
    /\ Move(p, "check")
    /\ UNCHANGED <<awaited, ahead, locked, pipeline, created>>

\* get_pipeline(): the first test, without the lock.
CheckPipeline(p) ==
    /\ stage[p] = "check"
    /\ Move(p, IF pipeline THEN "infer" ELSE "lock")
    /\ UNCHANGED <<awaited, ahead, slots, locked, pipeline, created>>

\* Mutant of TakeLock: _pipeline is not tested again.
TakeLockOnly(p) ==
    /\ stage[p] = "lock" /\ ~locked
    /\ Move(p, "create")
    /\ locked' = TRUE
    /\ UNCHANGED <<awaited, ahead, slots, pipeline, created>>

\* get_pipeline(): the second test, with the lock; it is freed at once when
\* another thread has built the pipeline meanwhile.
TakeLock(p) ==
    /\ stage[p] = "lock" /\ ~locked
    /\ Move(p, IF pipeline THEN "infer" ELSE "create")
    /\ locked' = ~pipeline
    /\ UNCHANGED <<awaited, ahead, slots, pipeline, created>>

\* _create_pipeline() succeeds.
Create(p) ==
    /\ stage[p] = "create"
    /\ created' = IF created < 2 THEN created + 1 ELSE 2
    /\ pipeline' = TRUE
    /\ locked' = FALSE
    /\ Move(p, "infer")
    /\ UNCHANGED <<awaited, ahead, slots>>

\* Mutant of CreateFails: the semaphore is not released.
CreateFailsInside(p) ==
    /\ stage[p] = "create"
    /\ locked' = FALSE
    /\ Move(p, "idle")
    /\ awaited' = awaited \ {p}
    /\ UNCHANGED <<ahead, slots, pipeline, created>>

\* Mutant of CreateFails: the lock is not released.
CreateFailsLocked(p) ==
    /\ stage[p] = "create"
    /\ slots' = slots + 1
    /\ Move(p, "idle")
    /\ awaited' = awaited \ {p}
    /\ UNCHANGED <<ahead, locked, pipeline, created>>

\* _create_pipeline() raises (no model, no disk, no network): both "with" blocks
\* are left and a later call tries again.
CreateFails(p) ==
    /\ stage[p] = "create"
    /\ locked' = FALSE
    /\ slots' = slots + 1
    /\ Move(p, "idle")
    /\ awaited' = awaited \ {p}
    /\ UNCHANGED <<ahead, pipeline, created>>

\* The inference returns or raises, awaited or not, and the semaphore is released.
Infer(p) ==
    /\ stage[p] = "infer"
    /\ slots' = slots + 1
    /\ Move(p, "idle")
    /\ awaited' = awaited \ {p}
    /\ UNCHANGED <<ahead, locked, pipeline, created>>

\* A file operation ends.
FileDone(p) ==
    /\ stage[p] = "file"
    /\ Move(p, "idle")
    /\ awaited' = awaited \ {p}
    /\ UNCHANGED <<ahead, slots, locked, pipeline, created>>

PipelineStep(p) == CheckPipeline(p) \/ TakeLock(p) \/ Create(p) \/ CreateFails(p)

Next ==
    \/ \E p \in Calls : Submit(p) \/ Abandon(p) \/ Start(p)
    \/ \E p \in Parses : TakeSlot(p) \/ PipelineStep(p) \/ Infer(p)
    \/ \E p \in FileCalls : FileDone(p)

Spec == Init /\ [][Next]_vars

\* Threads that can run do run, and a native inference returns some day.  Nothing
\* is assumed of the order in which threads get the semaphore or the lock.
FairSpec ==
    /\ Spec
    /\ \A p \in Calls : WF_vars(Start(p)) /\ WF_vars(FileDone(p))
    /\ WF_vars(\E p \in Parses : TakeSlot(p))
    /\ \A p \in Parses : WF_vars(PipelineStep(p)) /\ WF_vars(Infer(p))

-----------------------------------------------------------------------------
(* Properties *)

\* The semaphore counts exactly the threads inside predict(), those nobody awaits
\* any more included, so cancelled runs and failed initialisations neither leak a
\* slot nor let more than MaxInference inferences run.
SlotsConserved == slots + Cardinality(Holding) = MaxInference

\* The Pipeline is built once per process, as the docstring of PPStructureRuntime
\* says, by one thread at a time, and no inference begins without it.
OnePipeline ==
    /\ created <= 1
    /\ \A p, q \in Parses : stage[p] = "create" /\ stage[q] = "create" => p = q
    /\ \A p \in Parses : stage[p] = "infer" => pipeline

\* Inferences nobody awaits may hold every worker for a while, but file operations
\* of other requests get a worker in the end.
FileCallsStart == \A p \in FileCalls : stage[p] = "queued" ~> stage[p] # "queued"
=============================================================================
