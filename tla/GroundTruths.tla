---------------------------- MODULE GroundTruths ----------------------------
(***************************************************************************)
(* The ground truth of one document and the automated evaluations of its   *)
(* runs (services/benchmark_service.py): the file is overwritten in place  *)
(* before the row is flushed, every successful run is evaluated against    *)
(* the file, and row and evaluations are committed together.  Uploads,     *)
(* recomputations and the pipelines of the runs evaluate side by side,     *)
(* each in a transaction of its own and with awaits in between.            *)
(***************************************************************************)
EXTENDS Naturals, FiniteSets

CONSTANTS
    Runs,        \* runs of the document, each with its pipeline
    Requests,    \* uploads of a ground truth, one version each
    Recomputes   \* requests to recompute the evaluations

VARIABLES
    file,      \* canonical.json: the version it holds, "none"
    row,       \* is the row of the ground truth committed
    holder,    \* the upload that has the row locked, "none"
    done,      \* runs whose SUCCEEDED is committed
    evals,     \* committed evaluations: the version each run is compared with
    at,        \* per evaluator, "idle", "saved", "evaluate" or "ended"
    todo,      \* the runs it has still to evaluate
    seen,      \* what it is comparing, and the evaluation it has loaded
    flushed,   \* per evaluator, its evaluations that are not committed
    alone,     \* evaluators that nothing else has run beside
    disturbed  \* history: an evaluation may differ from the file (below)

vars == <<file, row, holder, done, evals, at, todo, seen, flushed, alone, disturbed>>

Callers == Requests \cup Recomputes
Evaluators == Callers \cup Runs
Versions == Requests \cup {"none"}

Nothing == [run |-> "none", version |-> "none", loaded |-> "none"]
Comparisons == [run : Runs, version : Requests, loaded : Versions \cup {"unread"}]

TypeOK ==
    /\ file \in Versions /\ row \in BOOLEAN /\ holder \in Versions
    /\ done \subseteq Runs
    /\ evals \in [Runs -> Versions]
    /\ at \in [Evaluators -> {"idle", "saved", "evaluate", "ended"}]
    /\ todo \in [Evaluators -> SUBSET Runs]
    /\ seen \in [Evaluators -> Comparisons \cup {Nothing}]
    /\ flushed \in [Evaluators -> [Runs -> Versions \cup {"same"}]]
    /\ alone \subseteq Evaluators /\ disturbed \in BOOLEAN

\* A document without a ground truth, and runs that are done or not.
Init ==
    /\ file = "none" /\ row = FALSE /\ holder = "none"
    /\ done \in SUBSET Runs
    /\ evals = [r \in Runs |-> "none"]
    /\ at = [e \in Evaluators |-> "idle"]
    /\ todo = [e \in Evaluators |-> {}]
    /\ seen = [e \in Evaluators |-> Nothing]
    /\ flushed = [e \in Evaluators |-> [r \in Runs |-> "none"]]
    /\ alone = {} /\ disturbed = FALSE

Active == {e \in Evaluators : at[e] \in {"saved", "evaluate"}}
Flushed(e) == {r \in Runs : flushed[e][r] # "none"}

\* The pipeline before its commit of SUCCEEDED.
First(e) == e \in Runs \ done
\* It has read the file for a run, or the first time found none.
Compared(e) ==
    at[e] = "evaluate" /\ (seen[e] # Nothing \/ Flushed(e) # {} \/ (First(e) /\ todo[e] = {}))

Move(e, s) == at' = [at EXCEPT ![e] = s]
Begin(e, s) ==
    /\ at[e] = "idle" /\ Move(e, s)
    /\ alone' = IF Active = {} THEN {e} ELSE {}
\* The end of a transaction: what it holds is free.
End(e) ==
    /\ Move(e, IF e \in Runs THEN "idle" ELSE "ended")
    /\ holder' = IF holder = e THEN "none" ELSE holder
    /\ todo' = [todo EXCEPT ![e] = {}] /\ seen' = [seen EXCEPT ![e] = Nothing]
    /\ flushed' = [flushed EXCEPT ![e] = [r \in Runs |-> "none"]]

-----------------------------------------------------------------------------
(* The transactions begin *)

\* upsert_ground_truth(): the payload is valid and the file is overwritten.  What
\* others have compared is of the file before; only who has the row locked is
\* sure to commit it before this upload evaluates.
SaveFile(c) ==
    /\ c \in Requests /\ Begin(c, "saved")
    /\ file' = c
    /\ disturbed' = (disturbed \/ \E e \in Evaluators \ {holder} : Compared(e))
    /\ UNCHANGED <<row, holder, done, evals, todo, seen, flushed>>

\* The row is flushed and recompute_document() lists the successful runs.  An
\* INSERT, or an UPDATE of changed metadata, waits for the lock of the row and
\* keeps it; when nothing has changed the session emits no UPDATE.  When another
\* upload has inserted the row since it was looked up, the INSERT fails (see Fail).
FlushRow(c, writes) ==
    /\ c \in Requests /\ at[c] = "saved"
    /\ writes \/ row
    /\ writes => holder = "none"
    /\ Move(c, "evaluate")
    /\ holder' = IF writes THEN c ELSE holder
    /\ todo' = [todo EXCEPT ![c] = done]
    /\ disturbed' = (disturbed \/ (holder # "none" /\ Compared(holder)))
    /\ UNCHANGED <<file, row, done, evals, seen, flushed, alone>>

\* recompute_all(), as far as this document goes.
Recompute(c) ==
    /\ c \in Recomputes /\ Begin(c, "evaluate")
    /\ todo' = [todo EXCEPT ![c] = done]
    /\ UNCHANGED <<file, row, holder, done, evals, seen, flushed, disturbed>>

\* _evaluate_run_safely(), before the commit of SUCCEEDED and again before the one
\* of the deidentification.
PipelineEvaluates(r) ==
    /\ r \in Runs /\ Begin(r, "evaluate")
    /\ todo' = [todo EXCEPT ![r] = {r}]
    /\ UNCHANGED <<file, row, holder, done, evals, seen, flushed, disturbed>>

-----------------------------------------------------------------------------
(* evaluate_run() *)

\* Without a row it can see, or without the file, there is no evaluation.
HasGroundTruth(e) == (row \/ e \in Requests) /\ file # "none"

\* The row is looked up and the file is read.
Read(e, r) ==
    /\ at[e] = "evaluate" /\ r \in todo[e] /\ seen[e] = Nothing
    /\ todo' = [todo EXCEPT ![e] = @ \ {r}]
    /\ seen' = IF HasGroundTruth(e)
               THEN [seen EXCEPT ![e] = [run |-> r, version |-> file, loaded |-> "unread"]]
               ELSE seen
    /\ disturbed' = (disturbed \/ (First(e) /\ file # "none" /\ ~HasGroundTruth(e)))
    /\ UNCHANGED <<file, row, holder, done, evals, at, flushed, alone>>

\* The thread has computed the metrics, and the evaluation of the run is loaded.
Load(e) ==
    /\ seen[e] # Nothing /\ seen[e].loaded = "unread"
    /\ seen' = [seen EXCEPT ![e].loaded = evals[seen[e].run]]
    /\ UNCHANGED <<file, row, holder, done, evals, at, todo, flushed, alone, disturbed>>

\* The evaluation is flushed, once no other transaction holds its row: an INSERT,
\* which fails when there is a row by now (see Fail), or an UPDATE, which leaves
\* out metrics equal to those loaded.
Flush(e) ==
    LET r == seen[e].run IN
    /\ seen[e] # Nothing /\ seen[e].loaded # "unread"
    /\ \A d \in Evaluators \ {e} : flushed[d][r] = "none"
    /\ seen[e].loaded = "none" => evals[r] = "none"
    /\ flushed' = [flushed EXCEPT ![e][r] =
           IF seen[e].version = seen[e].loaded THEN "same" ELSE seen[e].version]
    /\ seen' = [seen EXCEPT ![e] = Nothing]
    /\ UNCHANGED <<file, row, holder, done, evals, at, todo, alone, disturbed>>

\* Whatever fails in the pipeline's evaluation is rolled back to the savepoint.
EvaluationFails(r) ==
    /\ r \in Runs /\ (todo[r] # {} \/ seen[r] # Nothing)
    /\ todo' = [todo EXCEPT ![r] = {}] /\ seen' = [seen EXCEPT ![r] = Nothing]
    /\ disturbed' = (disturbed \/ (First(r) /\ file # "none"))
    /\ UNCHANGED <<file, row, holder, done, evals, at, flushed, alone>>

-----------------------------------------------------------------------------
(* The transactions end *)

\* Mutant of Commit: the evaluations are dropped.
CommitRow(e) ==
    /\ at[e] = "evaluate" /\ todo[e] = {} /\ seen[e] = Nothing
    /\ End(e)
    /\ row' = (row \/ e \in Requests) /\ done' = done \cup ({e} \cap Runs)
    /\ disturbed' = (disturbed /\ ~(e \in alone \cap Callers /\ HasGroundTruth(e)))
    /\ UNCHANGED <<file, evals, alone>>

\* An upload or a recomputation that nothing ran beside repairs what others left.
Commit(e) ==
    /\ at[e] = "evaluate" /\ todo[e] = {} /\ seen[e] = Nothing
    /\ End(e)
    /\ row' = (row \/ e \in Requests) /\ done' = done \cup ({e} \cap Runs)
    /\ evals' = [r \in Runs |-> IF flushed[e][r] \in Requests THEN flushed[e][r] ELSE evals[r]]
    /\ disturbed' = (disturbed /\ ~(e \in alone \cap Callers /\ HasGroundTruth(e)))
    /\ UNCHANGED <<file, alone>>

\* The process or the database fails, an INSERT meets a row, two transactions wait
\* for one another: the transaction is gone, the file stays.
Fail(e) ==
    /\ e \in Active
    /\ End(e)
    /\ disturbed' = (disturbed \/ e \in Requests)
    /\ UNCHANGED <<file, row, done, evals, alone>>

Next ==
    \/ \E c \in Callers : SaveFile(c) \/ Recompute(c) \/ \E writes \in BOOLEAN : FlushRow(c, writes)
    \/ \E r \in Runs : PipelineEvaluates(r) \/ EvaluationFails(r) \/ \E e \in Evaluators : Read(e, r)
    \/ \E e \in Evaluators : Load(e) \/ Flush(e) \/ Commit(e) \/ Fail(e)

Spec == Init /\ [][Next]_vars

-----------------------------------------------------------------------------
\* Registering a ground truth recomputes the successful runs of its document at
\* once: when nothing is under way, each is compared with the file as it is, even
\* after uploads that overlapped, unless one of these has happened since an upload
\* or recomputation that ran alone: an upload failed after it had written the file;
\* it wrote the file after another evaluator without the lock of the row had read
\* it; it evaluated without that lock beside the comparisons of the upload that
\* had it; or a first evaluation failed, or looked up a row not yet committed.
EvaluationsMatchFile ==
    Active = {} /\ ~disturbed => \A r \in done : evals[r] = file
=============================================================================
