---------------------------- MODULE RunLifecycle ----------------------------
(***************************************************************************)
(* The life of the runs of one experiment: the status columns of           *)
(* ExperimentRun, the pipeline jobs that move them (pipeline.py), the      *)
(* request handlers that create, retry and cancel runs                     *)
(* (experiment_service.py) and the process that hosts them (main.py).      *)
(* The jobs are tasks of the TaskManager.                                  *)
(*                                                                         *)
(* A step is what happens between two awaits.  A handler reads a row into  *)
(* its session, awaits, and later writes the columns it changed: the       *)
(* session factory keeps loaded values (expire_on_commit=False), there is  *)
(* no version column, and the last writer of a column wins.                *)
(***************************************************************************)
EXTENDS Integers, FiniteSets

CONSTANTS
    Runs, MaxConcurrency,
    Clients,      \* concurrent retry and cancel requests
    NoRequest,    \* a client without a request in flight
    Env           \* what the environment may do: see the assumption

ASSUME RunsAssumption == IsFiniteSet(Runs)
ASSUME MaxConcurrencyAssumption == MaxConcurrency \in Nat \ {0}
\* crash: the process dies; stop: it is asked to shut down; db: a transaction
\* fails; storage: writing error.log fails.
ASSUME EnvAssumption == Env \subseteq {"crash", "stop", "db", "storage"}

VARIABLES
    task, cancelling, permits, ahead,   \* the TaskManager
    row,          \* committed status columns of each run
    experiment,   \* "absent", "submitting" (rows committed, create() not done), "created"
    deidWanted,   \* experiment.run_deidentification
    server,       \* "up", "stopping" (lifespan shutdown), "down"
    kind,         \* which job was submitted: execute_run or execute_deidentification
    pc,           \* the await the job of a run is suspended at
    follow,       \* should_deidentify, from the row execute_run loaded at its start
    found,        \* the row the session of an error handler loaded, until its commit
    req           \* retry and cancel requests being served

tmVars == <<task, cancelling, permits, ahead>>
jobVars == <<kind, pc, follow, found>>
sessions == <<follow, found>>
vars == <<tmVars, row, experiment, deidWanted, server, jobVars, req>>

TM == INSTANCE TaskManager

ParseStatus == {"PENDING", "RUNNING", "SUCCEEDED", "FAILED", "INTERRUPTED"}
DeidentificationStatus == ParseStatus \cup {"NOT_REQUESTED"}
Active == {"PENDING", "RUNNING"}
Broken == {"FAILED", "INTERRUPTED"}

Row == [parse : ParseStatus, deid : DeidentificationStatus]

(***************************************************************************)
(* Where a job can be suspended.  In execute_run:                          *)
(*   load    session.get, line 47           claim   commit RUNNING, 55     *)
(*   parse   lookups, adapter, storage      finish  commit SUCCEEDED, 139  *)
(*   fail    session.get, 191               failing commit FAILED, 203     *)
(*   mark    select in _mark_interrupted    marking its commit, 378        *)
(* in execute_deidentification, nested in execute_run or alone:            *)
(*   dload   session.get, line 220          dclaim  commit RUNNING, 228    *)
(*   deid    adapter, storage               dfinish commit SUCCEEDED, 284  *)
(*   derror  save_run_error, 302                                           *)
(*   dfail   session.get, 307               dfailing commit FAILED, 325    *)
(*   dmark   select in _mark_interrupted    dmarking its commit, 378       *)
(* and in both: close, the session is closed inside the try block; unwind, *)
(* cleanup after which the job ends.                                       *)
(***************************************************************************)
RunLocations == {"load", "claim", "parse", "finish", "fail", "failing", "mark", "marking"}
DeidLocations ==
    {"dload", "dclaim", "deid", "dfinish", "derror", "dfail", "dfailing", "dmark", "dmarking"}
Locations == RunLocations \cup DeidLocations \cup {"idle", "close", "unwind"}

Request == [op : {"retry", "cancel"}, run : Runs, seen : Row,
            step : {"loaded", "commit", "submit"}, full : BOOLEAN]

ASSUME NoRequestAssumption == NoRequest \notin Request

StateOK ==
    /\ row \in [Runs -> Row]
    /\ experiment \in {"absent", "submitting", "created"}
    /\ deidWanted \in BOOLEAN
    /\ server \in {"up", "stopping", "down"}
    /\ kind \in [Runs -> {"run", "deid"}]
    /\ pc \in [Runs -> Locations]
    /\ follow \in [Runs -> BOOLEAN]
    /\ found \in [Runs -> Row]
    /\ req \in [Clients -> Request \cup {NoRequest}]

TypeOK == TM!TypeOK /\ StateOK

\* A row as it is created when no deidentification is asked for.
NewRow == [parse |-> "PENDING", deid |-> "NOT_REQUESTED"]

\* Before create() the rows do not exist; Create gives their columns their values.
Init ==
    /\ TM!Init
    /\ row = [r \in Runs |-> NewRow]
    /\ experiment = "absent"
    /\ deidWanted = FALSE
    /\ server = "up"
    /\ kind = [r \in Runs |-> "run"]
    /\ pc = [r \in Runs |-> "idle"]
    /\ follow = [r \in Runs |-> FALSE]
    /\ found = [r \in Runs |-> NewRow]
    /\ req = [c \in Clients |-> NoRequest]

-----------------------------------------------------------------------------
(* Request handlers: ExperimentService *)

\* create(): the experiment and its runs are committed together.
Create ==
    /\ server = "up" /\ experiment = "absent"
    /\ \E wanted \in BOOLEAN :
        /\ deidWanted' = wanted
        /\ row' = [r \in Runs |->
                    [parse |-> "PENDING",
                     deid |-> IF wanted THEN "PENDING" ELSE "NOT_REQUESTED"]]
    /\ experiment' = "submitting"
    /\ UNCHANGED <<tmVars, server, jobVars, req>>

\* kind follows the job of a submit() that was accepted.
SubmitJob(S, k) ==
    /\ TM!Submit(S)
    /\ kind' = [r \in Runs |-> IF r \in S /\ task[r] = "absent" THEN k ELSE kind[r]]

\* create() resumes after its commit and submits every run.
CreateSubmit ==
    /\ server = "up" /\ experiment = "submitting"
    /\ SubmitJob(Runs, "run")
    /\ experiment' = "created"
    /\ UNCHANGED <<row, deidWanted, server, pc, sessions, req>>

Retryable(s) ==
    \/ s.parse \in Broken
    \/ s.parse = "SUCCEEDED" /\ s.deid \in Broken

Cancellable(s) == s.parse \in Active \/ s.deid \in Active

\* retry_parse: a broken parse is run again, and so is a successful one whose
\* stored output _has_reusable_deidentification_input finds empty or missing.
RetryModes(s) == IF s.parse = "SUCCEEDED" THEN BOOLEAN ELSE {TRUE}

\* A handler loads the row; a row that is not eligible is answered 409.
Begin(c, op, r) ==
    /\ server = "up" /\ experiment # "absent" /\ req[c] = NoRequest
    /\ IF op = "retry" THEN Retryable(row[r]) ELSE Cancellable(row[r])
    /\ \E full \in IF op = "retry" THEN RetryModes(row[r]) ELSE {FALSE} :
        req' = [req EXCEPT ![c] = [op |-> op, run |-> r, seen |-> row[r],
                                   step |-> "loaded", full |-> full]]
    /\ UNCHANGED <<tmVars, row, experiment, deidWanted, server, jobVars>>

InFlight(c, op, step) ==
    /\ server = "up" /\ req[c] # NoRequest
    /\ req[c].op = op /\ req[c].step = step

\* The row after a flush of an object loaded as seen and set to new: columns
\* whose value did not change are not part of the UPDATE.
Flush(current, seen, new) ==
    [parse |-> IF new.parse = seen.parse THEN current.parse ELSE new.parse,
     deid  |-> IF new.deid = seen.deid THEN current.deid ELSE new.deid]

\* Mutant of Reset: the experiment's choice is ignored.
ResetAlwaysPending(q) ==
    [parse |-> IF q.full THEN "PENDING" ELSE q.seen.parse, deid |-> "PENDING"]

Reset(q) ==
    IF q.full
    THEN [parse |-> "PENDING", deid |-> IF deidWanted THEN "PENDING" ELSE "NOT_REQUESTED"]
    ELSE [q.seen EXCEPT !.deid = "PENDING"]

\* Mutant of Interrupt: a status the enumeration does not have.
InterruptAsCancelled(s) ==
    [parse |-> IF s.parse \in Active THEN "CANCELLED" ELSE s.parse,
     deid  |-> IF s.deid \in Active THEN "CANCELLED" ELSE s.deid]

Interrupt(s) ==
    [parse |-> IF s.parse \in Active THEN "INTERRUPTED" ELSE s.parse,
     deid  |-> IF s.deid \in Active THEN "INTERRUPTED" ELSE s.deid]

RetryCommit(c) ==
    /\ InFlight(c, "retry", "loaded")
    /\ LET q == req[c] IN
        row' = [row EXCEPT ![q.run] = Flush(@, q.seen, Reset(q))]
    /\ req' = [req EXCEPT ![c].step = "submit"]
    /\ UNCHANGED <<tmVars, experiment, deidWanted, server, jobVars>>

\* submit() may refuse the run; retry() answers 200 all the same.
RetrySubmit(c) ==
    /\ InFlight(c, "retry", "submit")
    /\ SubmitJob({req[c].run}, IF req[c].full THEN "run" ELSE "deid")
    /\ req' = [req EXCEPT ![c] = NoRequest]
    /\ UNCHANGED <<row, experiment, deidWanted, server, pc, sessions>>

CancelCall(c) ==
    /\ InFlight(c, "cancel", "loaded")
    /\ TM!Cancel(req[c].run)
    /\ req' = [req EXCEPT ![c].step = "commit"]
    /\ UNCHANGED <<row, experiment, deidWanted, server, jobVars>>

CancelCommit(c) ==
    /\ InFlight(c, "cancel", "commit")
    /\ LET q == req[c] IN
        row' = [row EXCEPT ![q.run] = Flush(@, q.seen, Interrupt(q.seen))]
    /\ req' = [req EXCEPT ![c] = NoRequest]
    /\ UNCHANGED <<tmVars, experiment, deidWanted, server, jobVars>>

\* The transaction of a handler fails: 500, nothing is written or submitted.
RequestFails(c) ==
    /\ "db" \in Env
    /\ InFlight(c, "retry", "loaded") \/ InFlight(c, "cancel", "commit")
    /\ req' = [req EXCEPT ![c] = NoRequest]
    /\ UNCHANGED <<tmVars, row, experiment, deidWanted, server, jobVars>>

-----------------------------------------------------------------------------
(* Pipeline jobs *)

At(r, loc) == task[r] = "running" /\ pc[r] = loc
Ready(r, loc) == At(r, loc) /\ r \notin cancelling
Goto(r, loc) == pc' = [pc EXCEPT ![r] = loc]

\* The row after the commit a job awaits at loc: s is the row as it is, and t the
\* row a handler has loaded.
RowAfter(loc, s, t) ==
    CASE loc = "claim"    -> [s EXCEPT !.parse = "RUNNING"]
      [] loc = "finish"   -> [s EXCEPT !.parse = "SUCCEEDED"]
      [] loc = "failing"  -> Flush(s, t, [parse |-> "FAILED", deid |-> Interrupt(t).deid])
      [] loc = "dclaim"   -> [s EXCEPT !.deid = "RUNNING"]
      [] loc = "dfinish"  -> [s EXCEPT !.deid = "SUCCEEDED"]
      [] loc = "dfailing" -> Flush(s, t, [t EXCEPT !.deid = "FAILED"])
      [] loc \in {"marking", "dmarking"} -> Flush(s, t, Interrupt(t))
      [] OTHER -> s

Commit(r) == row' = [row EXCEPT ![r] = RowAfter(pc[r], @, found[r])]

\* A handler that is left forgets its row.
Forget(r) == found' = [found EXCEPT ![r] = NewRow]

jobFrame == <<experiment, deidWanted, server, kind, req>>

\* The task gets its permit and runs the job up to its first await.
JobStart(r) ==
    /\ TM!StartJob(r) \/ TM!Resume(r)
    /\ Goto(r, IF kind[r] = "run" THEN "load" ELSE "dload")
    /\ UNCHANGED <<row, sessions, jobFrame>>

JobWaits(r) ==
    /\ TM!StartWaiting(r)
    /\ UNCHANGED <<row, pc, sessions, jobFrame>>

\* Mutant of JobDropped: a cancelled task is not taken out of the semaphore's queue.
JobDroppedUnstarted(r) ==
    /\ TM!CancelUnstarted(r)
    /\ UNCHANGED <<row, pc, sessions, jobFrame>>

\* Cancelled before the job began: execute_run never runs, nothing is recorded.
JobDropped(r) ==
    /\ TM!CancelUnstarted(r) \/ TM!AbandonWait(r)
    /\ UNCHANGED <<row, pc, sessions, jobFrame>>

\* Mutant of LoadRun: the status of the run is not checked.
LoadAnyRun(r) ==
    /\ Ready(r, "load")
    /\ Goto(r, "claim")
    /\ follow' = [follow EXCEPT ![r] = row[r].deid = "PENDING"]
    /\ UNCHANGED <<tmVars, row, found, jobFrame>>

\* Only a PENDING run is executed.
LoadRun(r) ==
    /\ Ready(r, "load")
    /\ Goto(r, IF row[r].parse = "PENDING" THEN "claim" ELSE "close")
    /\ follow' = [follow EXCEPT ![r] = row[r].deid = "PENDING"]
    /\ UNCHANGED <<tmVars, row, found, jobFrame>>

ClaimRun(r) ==
    /\ Ready(r, "claim")
    /\ Commit(r)
    /\ Goto(r, "parse")
    /\ UNCHANGED <<tmVars, sessions, jobFrame>>

\* Lookups, adapter, normalisation and storage succeed, or raise; the limits of
\* wait_for make this step happen.
ParseDocument(r) ==
    /\ Ready(r, "parse")
    /\ Goto(r, "finish") \/ Goto(r, "fail")
    /\ UNCHANGED <<tmVars, row, sessions, jobFrame>>

\* Mutant of FinishRun: the follow-up stage is forgotten.
FinishRunOnly(r) ==
    /\ Ready(r, "finish")
    /\ Commit(r)
    /\ Goto(r, "close")
    /\ UNCHANGED <<tmVars, sessions, jobFrame>>

FinishRun(r) ==
    /\ Ready(r, "finish")
    /\ Commit(r)
    /\ Goto(r, IF follow[r] THEN "dload" ELSE "close")
    /\ UNCHANGED <<tmVars, sessions, jobFrame>>

\* A handler's session loads the row and sets the columns it will commit.
Recording == [fail |-> "failing", dfail |-> "dfailing", mark |-> "marking", dmark |-> "dmarking"]

LoadRow(r) ==
    /\ \E loc \in DOMAIN Recording : Ready(r, loc) /\ Goto(r, Recording[loc])
    /\ found' = [found EXCEPT ![r] = row[r]]
    /\ UNCHANGED <<tmVars, row, follow, jobFrame>>

RecordFailure(r) ==
    /\ Ready(r, "failing")
    /\ Commit(r) /\ Forget(r)
    /\ Goto(r, "unwind")
    /\ UNCHANGED <<tmVars, follow, jobFrame>>

LoadDeid(r) ==
    /\ Ready(r, "dload")
    /\ Goto(r, IF row[r] = [parse |-> "SUCCEEDED", deid |-> "PENDING"]
               THEN "dclaim" ELSE "close")
    /\ UNCHANGED <<tmVars, row, sessions, jobFrame>>

ClaimDeid(r) ==
    /\ Ready(r, "dclaim")
    /\ Commit(r)
    /\ Goto(r, "deid")
    /\ UNCHANGED <<tmVars, sessions, jobFrame>>

\* Mutant of Deidentify: a failure is left to the handler of execute_run.
DeidentifyUnhandled(r) ==
    /\ Ready(r, "deid")
    /\ Goto(r, "dfinish") \/ Goto(r, IF kind[r] = "run" THEN "fail" ELSE "unwind")
    /\ UNCHANGED <<tmVars, row, sessions, jobFrame>>

Deidentify(r) ==
    /\ Ready(r, "deid")
    /\ Goto(r, "dfinish") \/ Goto(r, "derror")
    /\ UNCHANGED <<tmVars, row, sessions, jobFrame>>

FinishDeid(r) ==
    /\ Ready(r, "dfinish")
    /\ Commit(r)
    /\ Goto(r, "close")
    /\ UNCHANGED <<tmVars, sessions, jobFrame>>

\* An exception that leaves execute_deidentification reaches the handler of
\* execute_run when it is nested, and ends the task when it is alone.
Escaped(r) == IF kind[r] = "run" THEN "fail" ELSE "unwind"

\* save_run_error is not guarded in execute_deidentification.
SaveDeidError(r) ==
    /\ Ready(r, "derror")
    /\ \/ Goto(r, "dfail")
       \/ "storage" \in Env /\ Goto(r, Escaped(r))
    /\ UNCHANGED <<tmVars, row, sessions, jobFrame>>

RecordDeidFailure(r) ==
    /\ Ready(r, "dfailing")
    /\ Commit(r) /\ Forget(r)
    /\ Goto(r, "unwind")
    /\ UNCHANGED <<tmVars, follow, jobFrame>>

\* CancelledError goes on from a handler of execute_deidentification.
Reraised(r) == IF kind[r] = "run" THEN "mark" ELSE "unwind"

MarkInterrupted(r) ==
    /\ Ready(r, "marking") \/ Ready(r, "dmarking")
    /\ Commit(r) /\ Forget(r)
    /\ Goto(r, IF pc[r] = "dmarking" THEN Reraised(r) ELSE "unwind")
    /\ UNCHANGED <<tmVars, follow, jobFrame>>

\* A transaction of the job raises: the handler of the try block it is in.
JobDbFails(r) ==
    /\ "db" \in Env
    /\ \E loc \in (RunLocations \cup DeidLocations) \ {"parse", "deid", "derror"} :
        /\ Ready(r, loc)
        /\ Goto(r, CASE loc \in {"load", "claim", "finish"} -> "fail"
                     [] loc \in {"dload", "dclaim", "dfinish"} -> "derror"
                     [] loc \in {"dfail", "dfailing", "dmark", "dmarking"} -> Escaped(r)
                     [] OTHER -> "unwind")
    /\ Forget(r)
    /\ UNCHANGED <<tmVars, row, follow, jobFrame>>

CloseSession(r) ==
    /\ Ready(r, "close")
    /\ Goto(r, "unwind")
    /\ UNCHANGED <<tmVars, row, sessions, jobFrame>>

JobEnd(r) ==
    /\ Ready(r, "unwind")
    /\ TM!Finish(r)
    /\ Goto(r, "idle")
    /\ UNCHANGED <<row, sessions, jobFrame>>

\* CancelledError at the current await.  A commit that was being awaited may
\* still take effect.  Handlers do not catch it: raised in one, it skips it.
JobCancelled(r) ==
    /\ TM!DeliverCancel(r)
    /\ row' = row \/ Commit(r)
    /\ Forget(r)
    /\ Goto(r, CASE pc[r] \in {"load", "claim", "parse", "finish"} -> "mark"
                 [] pc[r] \in {"dload", "dclaim", "deid", "dfinish"} -> "dmark"
                 [] pc[r] = "close" -> IF kind[r] = "run" THEN "mark" ELSE "dmark"
                 [] pc[r] \in {"derror", "dfail", "dfailing", "dmark", "dmarking"} -> Reraised(r)
                 [] OTHER -> "unwind")
    /\ UNCHANGED <<follow, jobFrame>>

JobStep(r) ==
    \/ JobStart(r) \/ JobWaits(r) \/ JobDropped(r) \/ JobCancelled(r) \/ JobEnd(r)
    \/ LoadRun(r) \/ ClaimRun(r) \/ ParseDocument(r) \/ FinishRun(r) \/ LoadRow(r) \/ RecordFailure(r)
    \/ LoadDeid(r) \/ ClaimDeid(r) \/ Deidentify(r) \/ FinishDeid(r)
    \/ SaveDeidError(r) \/ RecordDeidFailure(r) \/ MarkInterrupted(r) \/ CloseSession(r)

-----------------------------------------------------------------------------
(* The process: lifespan() *)

\* Shutdown begins once no request is being served.
Stop ==
    /\ "stop" \in Env /\ server = "up"
    /\ experiment # "submitting" /\ \A c \in Clients : req[c] = NoRequest
    /\ server' = "stopping"
    /\ TM!Shutdown
    /\ UNCHANGED <<row, experiment, deidWanted, jobVars, req>>

\* The process is gone: tasks, handlers and semaphore with it.
Vanish ==
    /\ TM!Reset
    /\ server' = "down"
    /\ pc' = [r \in Runs |-> "idle"]
    /\ req' = [c \in Clients |-> NoRequest]
    /\ experiment' = IF experiment = "submitting" THEN "created" ELSE experiment
    /\ found' = [r \in Runs |-> NewRow]
    /\ UNCHANGED <<row, deidWanted, kind, follow>>

\* gather() has seen every task end.
Stopped ==
    /\ server = "stopping" /\ TM!Alive = {}
    /\ Vanish

Crash ==
    /\ "crash" \in Env /\ server # "down"
    /\ Vanish

\* Mutant of Recovered: startup leaves the rows of the last process alone.
NotRecovered(status) == status

\* The startup updates, before requests are accepted: RUNNING is INTERRUPTED.
Recovered(status) == IF status = "RUNNING" THEN "INTERRUPTED" ELSE status

Restart ==
    /\ server = "down"
    /\ server' = "up"
    /\ row' = [r \in Runs |-> [parse |-> Recovered(row[r].parse),
                               deid |-> Recovered(row[r].deid)]]
    /\ UNCHANGED <<tmVars, experiment, deidWanted, jobVars, req>>

RequestStep(c) ==
    RetryCommit(c) \/ RetrySubmit(c) \/ CancelCall(c) \/ CancelCommit(c)

Next ==
    \/ Create \/ CreateSubmit
    \/ \E c \in Clients : \/ \E op \in {"retry", "cancel"}, r \in Runs : Begin(c, op, r)
                          \/ RequestStep(c) \/ RequestFails(c)
    \/ \E r \in Runs : JobStep(r) \/ JobDbFails(r)
    \/ Stop \/ Stopped \/ Crash \/ Restart

Spec == Init /\ [][Next]_vars

(***************************************************************************)
(* Fairness: the event loop runs every ready callback and every awaited    *)
(* call is bounded by a time limit, so a job or handler that can take a    *)
(* step does.  Nothing makes a client send a request, an error happen or   *)
(* the process die; a process that is down is started again.               *)
(***************************************************************************)
FairSpec ==
    /\ Spec
    /\ \A r \in Runs : WF_vars(JobStep(r))
    /\ \A c \in Clients : WF_vars(RequestStep(c))
    /\ WF_vars(CreateSubmit) /\ WF_vars(Stopped) /\ WF_vars(Restart)
-----------------------------------------------------------------------------
(* Derived status: calculate_experiment_status() *)

\* Mutant of ExperimentStatus: it is computed from the parsers alone.
StatusOfParsers ==
    LET parses == {row[r].parse : r \in Runs}
    IN  IF parses \subseteq {"PENDING"} THEN "PENDING"
        ELSE IF parses \cap Active # {} THEN "RUNNING"
        ELSE IF "SUCCEEDED" \notin parses THEN "FAILED"
        ELSE IF parses # {"SUCCEEDED"} THEN "PARTIALLY_COMPLETED"
        ELSE "COMPLETED"

ExperimentStatus ==
    LET parses == {row[r].parse : r \in Runs}
        deids == {row[r].deid : r \in {x \in Runs : row[x].parse = "SUCCEEDED"}}
    IN  IF parses \subseteq {"PENDING"} THEN "PENDING"
        ELSE IF parses \cap Active # {} THEN "RUNNING"
        ELSE IF "SUCCEEDED" \notin parses THEN "FAILED"
        ELSE IF deids \cap Active # {} THEN "RUNNING"
        ELSE IF parses # {"SUCCEEDED"} \/ deids \cap Broken # {} THEN "PARTIALLY_COMPLETED"
        ELSE "COMPLETED"

-----------------------------------------------------------------------------
(* Properties *)

\* A cancel request that will overwrite an active column of r when it commits.
CancelPending(r) ==
    \E c \in Clients : /\ req[c] # NoRequest
                       /\ req[c].op = "cancel" /\ req[c].step = "commit"
                       /\ req[c].run = r

\* Where a job is going to write the column again.
Handlers == {"fail", "failing", "mark", "marking"}
ParseWriters == {"parse", "finish"} \cup Handlers
DeidWriters == {"deid", "dfinish", "derror", "dfail", "dfailing", "dmark", "dmarking"} \cup Handlers

\* No zombie: as long as transactions and error.log writes succeed and requests
\* about one run do not overlap, a live server shows a stage as RUNNING only while
\* a job is going to write that column again, or a cancel request is.  Startup
\* recovery looks at no other column and runs only once, so a run left RUNNING
\* later would stay so (pipeline.py 50-55, 158, 227, 286).
RunningIsOwned ==
    server = "up" => \A r \in Runs :
        /\ row[r].parse = "RUNNING" =>
            \/ task[r] = "running" /\ pc[r] \in ParseWriters
            \/ CancelPending(r)
        /\ row[r].deid = "RUNNING" =>
            \/ task[r] = "running" /\ pc[r] \in DeidWriters
            \/ CancelPending(r)

\* A job claims a run that is pending, or that was cancelled while the job was
\* claiming it; it never starts over a run with an outcome (pipeline.py 48-55),
\* however stale the retry and cancel requests around it are.
ClaimKeepsOutcome ==
    [][\A r \in Runs : row'[r].parse = "RUNNING" /\ row[r].parse # "RUNNING"
                        => row[r].parse \in {"PENDING", "INTERRUPTED"}]_vars

\* The parser's success survives the stage after it: whatever happens to the
\* deidentification, parse_status never goes from SUCCEEDED to FAILED
\* (the docstring of execute_run, pipeline.py:38-39).
ParseSurvivesDeid ==
    [][\A r \in Runs : row[r].parse = "SUCCEEDED" => row'[r].parse # "FAILED"]_vars

\* Every path that rewrites the deidentification column, with the stale rows the
\* handlers hold, agrees with the experiment: the stage is NOT_REQUESTED exactly
\* when the experiment does not want it (experiment_service.py 150-154, 293-297).
RequestedStageKept ==
    \A r \in Runs : row[r].deid = "NOT_REQUESTED" <=> ~deidWanted

\* While nobody sends a request, an experiment status that is not PENDING or
\* RUNNING is final: the page that polled it (ExperimentPage.tsx) and stopped
\* shows what is stored for ever, whatever fails or crashes.
PollingStopsForGood ==
    [][ExperimentStatus \notin Active => ExperimentStatus' = ExperimentStatus]_vars

\* A stage that is RUNNING leaves that state, through crashes and restarts.
RunningEnds ==
    \A r \in Runs : /\ (row[r].parse = "RUNNING") ~> (row[r].parse # "RUNNING")
                    /\ (row[r].deid = "RUNNING") ~> (row[r].deid # "RUNNING")

\* Shutdown gathers every task: it does not wait for ever.
ShutdownCompletes == server = "stopping" ~> server = "down"

\* While the server stays up, an experiment nobody touches gets a final status
\* whatever its parsers and the deidentifier do.
ExperimentSettles ==
    [](server = "up") => (experiment = "created" ~> ExperimentStatus \notin Active)

\* README.md:457: a pending or running run becomes INTERRUPTED by a restart.
RestartInterrupts ==
    [][server = "down" /\ server' = "up" /\ experiment = "created" =>
        \A r \in Runs : row'[r].parse \notin Active]_vars
=============================================================================
