--------------------------- MODULE ResultStorage ---------------------------
(***************************************************************************)
(* The files of one run: the work directory of an attempt and the result   *)
(* files services/storage_service.py writes for it, as execute_run() of    *)
(* task_manager/pipeline.py calls for them.  Files are written and removed *)
(* in worker threads.  An attempt awaits its threads, but a cancellation   *)
(* only ends the wait: a thread that has begun goes on, into the next      *)
(* attempt if the run is retried meanwhile.  A crash stops threads where   *)
(* they are.  The task manager runs one attempt of a run at a time, and    *)
(* the row changes as in RunLifecycle.                                     *)
(***************************************************************************)
EXTENDS Integers, FiniteSets

CONSTANTS
    Files,        \* number of result files, in the order they are written
    MaxAttempts   \* attempts of the run

VARIABLES
    status,    \* parse_status
    row,       \* the attempt whose paths and preview are in run_results
    attempt,   \* the attempt under way, or the last one
    stage,     \* where its task stands (below)
    error,     \* the status its handler writes
    written,   \* per file, the attempt that wrote it last; 0: no such file
    writer,    \* per attempt, the next file of its thread; 0: no thread
    work,      \* the attempt whose work directory exists; 0: none
    work_dir,  \* the attempt under way has its directory, and will remove it
    remover,   \* attempts whose rmtree thread is under way
    abandoned, \* attempts whose await of a thread was interrupted
    tainted    \* history: an attempt ran beside such a thread

vars == <<status, row, attempt, stage, error, written, writer, work, remover,
          work_dir, abandoned, tainted>>
files == <<written, writer, work, work_dir, remover, abandoned, tainted>>

Attempts == 1..MaxAttempts
Stages == {"idle", "prepare", "parse", "save", "saving", "commit", "record", "cleanup", "removing"}
Statuses == {"PENDING", "RUNNING", "SUCCEEDED", "FAILED", "INTERRUPTED"}

(***************************************************************************)
(* idle     no attempt        prepare  prepare_run_work_directory           *)
(* parse    the adapter       save     before, saving: during write_results *)
(* commit   the success commit         record   FAILED or INTERRUPTED       *)
(* cleanup  before, removing: during cleanup_run_work_directory             *)
(***************************************************************************)
TypeOK ==
    /\ status \in Statuses
    /\ row \in 0..attempt /\ attempt \in 0..MaxAttempts
    /\ stage \in Stages
    /\ error \in {"none", "FAILED", "INTERRUPTED"}
    /\ written \in [1..Files -> 0..MaxAttempts]
    /\ writer \in [Attempts -> 0..Files]
    /\ work \in 0..MaxAttempts
    /\ remover \subseteq Attempts /\ abandoned \subseteq Attempts
    /\ tainted \in BOOLEAN /\ work_dir \in BOOLEAN
    /\ stage # "idle" => attempt > 0

Init ==
    /\ status = "PENDING" /\ row = 0 /\ attempt = 0
    /\ stage = "idle" /\ error = "none"
    /\ written = [f \in 1..Files |-> 0] /\ writer = [a \in Attempts |-> 0]
    /\ work = 0 /\ work_dir = FALSE
    /\ remover = {} /\ abandoned = {} /\ tainted = FALSE

\* An abandoned thread is still at work.
Stray == abandoned \cap ({a \in Attempts : writer[a] > 0} \cup remover) # {}

-----------------------------------------------------------------------------
(* An attempt *)

\* The task claims the run: first attempt, or a retry of a run that is broken or
\* whose stored output turned out to be empty or missing.
Claim ==
    /\ stage = "idle" /\ attempt < MaxAttempts /\ status # "RUNNING"
    /\ attempt' = attempt + 1
    /\ status' = "RUNNING" /\ stage' = "prepare"
    /\ error' = "none" /\ work_dir' = FALSE /\ tainted' = (tainted \/ Stray)
    /\ UNCHANGED <<row, written, writer, work, remover, abandoned>>

\* prepare_run_work_directory(): an old directory is removed and a new one made.
Prepare ==
    /\ stage = "prepare"
    /\ work' = attempt /\ work_dir' = TRUE /\ stage' = "parse"
    /\ UNCHANGED <<status, row, attempt, error, written, writer, remover, abandoned, tainted>>

Parsed ==
    /\ stage = "parse"
    /\ stage' = "save"
    /\ UNCHANGED <<status, row, attempt, error, files>>

StartSaving ==
    /\ stage = "save"
    /\ writer' = [writer EXCEPT ![attempt] = 1]
    /\ stage' = "saving"
    /\ UNCHANGED <<status, row, attempt, error, written, work, work_dir, remover, abandoned, tainted>>

\* Mutant of WriteFile: the call ends with the first file.
WriteFileUnawaited(a) ==
    /\ writer[a] > 0
    /\ written' = [written EXCEPT ![writer[a]] = a]
    /\ writer' = [writer EXCEPT ![a] = IF @ = Files THEN 0 ELSE @ + 1]
    /\ stage' = IF stage = "saving" /\ a = attempt THEN "commit" ELSE stage
    /\ UNCHANGED <<status, row, attempt, error, work, work_dir, remover, abandoned, tainted>>

\* write_results() in its thread: raw, canonical, markdown, text, then the vendor
\* files, each overwritten in place.  The last one ends the thread.
WriteFile(a) ==
    /\ writer[a] > 0
    /\ written' = [written EXCEPT ![writer[a]] = a]
    /\ writer' = [writer EXCEPT ![a] = IF @ = Files THEN 0 ELSE @ + 1]
    /\ stage' = IF writer[a] = Files /\ stage = "saving" /\ a = attempt THEN "commit" ELSE stage
    /\ UNCHANGED <<status, row, attempt, error, work, work_dir, remover, abandoned, tainted>>

\* The disk is full, or an artifact has an unsafe name or is no readable ZIP.
WriteFails(a) ==
    /\ writer[a] > 0
    /\ writer' = [writer EXCEPT ![a] = 0]
    /\ IF stage = "saving" /\ a = attempt
       THEN stage' = "record" /\ error' = "FAILED"
       ELSE UNCHANGED <<stage, error>>
    /\ UNCHANGED <<status, row, attempt, written, work, work_dir, remover, abandoned, tainted>>

\* The paths, the preview and SUCCEEDED are committed in one transaction.
Commit ==
    /\ stage = "commit"
    /\ status' = "SUCCEEDED" /\ row' = attempt
    /\ stage' = "cleanup"
    /\ UNCHANGED <<attempt, error, files>>

\* The parser, the normalisation, the storage or the database fails.
Fail ==
    /\ stage \in {"prepare", "parse", "save", "commit"}
    /\ stage' = "record" /\ error' = "FAILED"
    /\ UNCHANGED <<status, row, attempt, files>>

\* CancelledError at an await of execute_run: INTERRUPTED is recorded.  A thread
\* that has begun goes on: the writer, or the rmtree of an old directory.  (The
\* mkdir after it counts as done at once: it does nothing to a directory.)
CancelWork ==
    /\ stage \in {"prepare", "parse", "save", "saving", "commit"}
    /\ stage' = "record" /\ error' = "INTERRUPTED"
    /\ \/ stage # "saving" /\ UNCHANGED <<writer, work, remover, abandoned>>
       \/ stage = "prepare" /\ work' = attempt /\ UNCHANGED <<writer, remover, abandoned>>
       \/ /\ stage = "prepare" /\ work # 0
          /\ remover' = remover \cup {attempt} /\ abandoned' = abandoned \cup {attempt}
          /\ UNCHANGED <<writer, work>>
       \/ /\ stage = "saving"
          /\ abandoned' = abandoned \cup {attempt}
          /\ writer' \in {writer, [writer EXCEPT ![attempt] = 0]}
          /\ UNCHANGED <<work, remover>>
    /\ UNCHANGED <<status, row, attempt, written, work_dir, tainted>>

\* The row takes the status of the error, unless that transaction fails too, and
\* the finally clause follows.
Record ==
    /\ stage = "record"
    /\ status' \in {error, status}
    /\ stage' = IF work_dir THEN "cleanup" ELSE "idle"
    /\ UNCHANGED <<row, attempt, error, files>>

\* Mutant of StartRemoving: the removal is not awaited.
StartRemovingUnawaited ==
    /\ stage = "cleanup"
    /\ stage' = "idle" /\ remover' = remover \cup {attempt}
    /\ UNCHANGED <<status, row, attempt, error, written, writer, work, work_dir, abandoned, tainted>>

\* cleanup_run_work_directory(): rmtree in a thread, of a directory that exists.
StartRemoving ==
    /\ stage = "cleanup"
    /\ IF work # 0 THEN stage' = "removing" /\ remover' = remover \cup {attempt}
                   ELSE stage' = "idle" /\ UNCHANGED remover
    /\ UNCHANGED <<status, row, attempt, error, written, writer, work, work_dir, abandoned, tainted>>

\* The thread removes whatever directory stands there, or fails; then the task
\* ends with its error.
Removed(a) ==
    /\ a \in remover
    /\ remover' = remover \ {a} /\ work' \in {0, work}
    /\ stage' = IF stage = "removing" /\ a = attempt THEN "idle" ELSE stage
    /\ UNCHANGED <<status, row, attempt, error, written, writer, work_dir, abandoned, tainted>>

\* The task is cancelled in its finally clause and ends.
CancelCleanup ==
    /\ stage \in {"cleanup", "removing"}
    /\ stage' = "idle"
    /\ abandoned' = abandoned \cup {attempt}
    /\ UNCHANGED <<status, row, attempt, error, written, writer, work, work_dir, remover, tainted>>

\* The process ends anywhere; the next one marks a RUNNING run as interrupted.
Crash ==
    /\ stage' = "idle"
    /\ status' = IF status = "RUNNING" THEN "INTERRUPTED" ELSE status
    /\ writer' = [a \in Attempts |-> 0] /\ remover' = {}
    /\ UNCHANGED <<row, attempt, error, written, work, work_dir, abandoned, tainted>>

Next ==
    \/ Claim \/ Prepare \/ Parsed \/ StartSaving \/ Commit \/ Fail \/ CancelWork \/ Record
    \/ StartRemoving \/ CancelCleanup \/ Crash
    \/ \E a \in Attempts : WriteFile(a) \/ WriteFails(a) \/ Removed(a)

Spec == Init /\ [][Next]_vars

-----------------------------------------------------------------------------
(* Properties *)

\* The work directory of an attempt stays while its parser works in it, unless
\* the attempt ran beside threads of an earlier one.
WorkDirectoryKept == stage = "parse" /\ ~tainted => work = attempt

\* The result of a run as its readers see it: the row and the files it names.
Shown == IF status = "SUCCEEDED" THEN {row} \cup {written[f] : f \in 1..Files} ELSE {}

Published == INSTANCE PublishedResult WITH content <- Shown

\* The files, the threads and the row together keep the promise of
\* PublishedResult: a result is published whole, by its own attempt, and stays.
ResultIsPublished == Published!Spec
=============================================================================
