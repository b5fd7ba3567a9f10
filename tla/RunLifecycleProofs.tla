------------------------ MODULE RunLifecycleProofs ------------------------
(***************************************************************************)
(* What holds of the runs of an experiment for every number of runs and    *)
(* clients, every concurrency limit and, unless a theorem says otherwise,  *)
(* every environment.                                                      *)
(***************************************************************************)
EXTENDS RunLifecycle, TLAPS

USE DEF sessions

-----------------------------------------------------------------------------
(* Rows *)

\* Every way a row is rewritten gives a row.
LEMMA RowTypes ==
  ASSUME NEW s \in Row, NEW t \in Row, NEW u \in Row
  PROVE  /\ Interrupt(s) \in Row
         /\ Flush(s, t, u) \in Row
         /\ [parse |-> Recovered(s.parse), deid |-> Recovered(s.deid)] \in Row
<1>1. Interrupt(s) \in Row
  BY DEF Row, Interrupt, ParseStatus, DeidentificationStatus
<1>2. Flush(s, t, u) \in Row
  BY DEF Row, Flush
<1>3. [parse |-> Recovered(s.parse), deid |-> Recovered(s.deid)] \in Row
  BY DEF Row, Recovered, ParseStatus, DeidentificationStatus
<1> QED BY <1>1, <1>2, <1>3

LEMMA CommitTypes ==
  ASSUME NEW s \in Row, NEW t \in Row, NEW loc \in Locations
  PROVE  RowAfter(loc, s, t) \in Row
<1>1. Interrupt(t) \in Row
  BY RowTypes
<1>2. /\ [parse |-> "FAILED", deid |-> Interrupt(t).deid] \in Row
      /\ [t EXCEPT !.deid = "FAILED"] \in Row
  BY <1>1 DEF Row, ParseStatus, DeidentificationStatus
<1>3. \A u \in Row : Flush(s, t, u) \in Row
  BY RowTypes
<1> QED BY <1>1, <1>2, <1>3 DEF Row, RowAfter, ParseStatus, DeidentificationStatus

LEMMA NewRowType == NewRow \in Row
BY DEF NewRow, Row, ParseStatus, DeidentificationStatus

\* A request in flight is a request, for a run.
LEMMA RequestTypes ==
  ASSUME StateOK, NEW c \in Clients, req[c] # NoRequest
  PROVE  /\ req[c] \in Request
         /\ req[c].run \in Runs /\ req[c].seen \in Row /\ req[c].full \in BOOLEAN
         /\ Reset(req[c]) \in Row
<1>1. req[c] \in Request
  BY DEF StateOK
<1> QED BY <1>1 DEF Request, Reset, Row, ParseStatus, DeidentificationStatus

-----------------------------------------------------------------------------
(* Type correctness of the variables of this module *)

LEMMA StateInit == Init => StateOK
<1> SUFFICES ASSUME Init PROVE StateOK
  OBVIOUS
<1>2. "idle" \in Locations
  BY DEF Locations
<1>3. row \in [Runs -> Row] /\ pc \in [Runs -> Locations] /\ found \in [Runs -> Row]
  BY NewRowType, <1>2 DEF Init
<1> QED BY <1>3 DEF Init, StateOK

\* What the job of one run may change: its own row, by the commit it is at, its
\* position, its follow-up flag and the row a handler has loaded.
LEMMA JobEffect ==
  ASSUME StateOK, NEW r \in Runs, JobStep(r) \/ JobDbFails(r)
  PROVE  /\ UNCHANGED <<experiment, deidWanted, server, kind, req>>
         /\ row' = row \/ Commit(r)
         /\ follow' \in [Runs -> BOOLEAN]
         /\ \/ found' = found \/ Forget(r) \/ found' = [found EXCEPT ![r] = row[r]]
         /\ pc' = pc \/ \E loc \in Locations : Goto(r, loc)
<1> USE DEF JobStep, JobDbFails, JobStart, JobWaits, JobDropped, JobCancelled, JobEnd,
      LoadRun, ClaimRun, ParseDocument, FinishRun, LoadRow, RecordFailure, LoadDeid, ClaimDeid,
      Deidentify, FinishDeid, SaveDeidError, RecordDeidFailure, MarkInterrupted, CloseSession
<1>1. UNCHANGED <<experiment, deidWanted, server, kind, req>>
  BY DEF jobFrame
<1>2. row' = row \/ Commit(r)
  OBVIOUS
<1>3. follow' \in [Runs -> BOOLEAN]
  BY DEF StateOK
<1>4. pc' = pc \/ \E loc \in Locations : Goto(r, loc)
  BY DEF Escaped, Reraised, Recording, Goto, Locations, RunLocations, DeidLocations
<1>5. found' = found \/ Forget(r) \/ found' = [found EXCEPT ![r] = row[r]]
  OBVIOUS
<1> QED BY <1>1, <1>2, <1>3, <1>4, <1>5

LEMMA StateJob ==
  ASSUME StateOK, NEW r \in Runs, JobStep(r) \/ JobDbFails(r)
  PROVE  StateOK'
<1>1. RowAfter(pc[r], row[r], found[r]) \in Row
  BY CommitTypes DEF StateOK
<1>2. row' \in [Runs -> Row]
  BY <1>1, JobEffect DEF StateOK, Commit
<1>3. pc' \in [Runs -> Locations]
  BY JobEffect DEF StateOK, Goto
<1>4. found' \in [Runs -> Row]
  BY JobEffect, NewRowType DEF StateOK, Forget
<1> QED BY <1>2, <1>3, <1>4, JobEffect DEF StateOK

LEMMA StateRequest ==
  ASSUME StateOK, NEW c \in Clients,
         \/ \E op \in {"retry", "cancel"}, r \in Runs : Begin(c, op, r)
         \/ RequestStep(c) \/ RequestFails(c)
  PROVE  StateOK'
<1>1. ASSUME NEW op \in {"retry", "cancel"}, NEW r \in Runs, Begin(c, op, r)
      PROVE  StateOK'
  <2>1. PICK full \in BOOLEAN :
          req' = [req EXCEPT ![c] = [op |-> op, run |-> r, seen |-> row[r],
                                     step |-> "loaded", full |-> full]]
    BY <1>1 DEF Begin, RetryModes
  <2>2. [op |-> op, run |-> r, seen |-> row[r], step |-> "loaded", full |-> full] \in Request
    BY DEF StateOK, Request
  <2>3. req' \in [Clients -> Request \cup {NoRequest}]
    BY <2>1, <2>2 DEF StateOK
  <2> QED BY <1>1, <2>3 DEF Begin, StateOK, jobVars
<1>2. CASE RetryCommit(c)
  <2>1. req[c] # NoRequest
    BY <1>2 DEF RetryCommit, InFlight
  <2>2. row' \in [Runs -> Row]
    BY <1>2, <2>1, RequestTypes, RowTypes DEF RetryCommit, StateOK
  <2>3. [req[c] EXCEPT !.step = "submit"] \in Request
    BY <2>1, RequestTypes DEF Request
  <2>4. req' \in [Clients -> Request \cup {NoRequest}]
    BY <1>2, <2>3 DEF RetryCommit, StateOK
  <2> QED BY <1>2, <2>2, <2>4 DEF RetryCommit, StateOK, jobVars
<1>3. CASE RetrySubmit(c)
  BY <1>3 DEF RetrySubmit, SubmitJob, StateOK
<1>4. CASE CancelCall(c)
  <2>1. req[c] # NoRequest
    BY <1>4 DEF CancelCall, InFlight
  <2>2. [req[c] EXCEPT !.step = "commit"] \in Request
    BY <2>1, RequestTypes DEF Request
  <2>3. req' \in [Clients -> Request \cup {NoRequest}]
    BY <1>4, <2>2 DEF CancelCall, StateOK
  <2> QED BY <1>4, <2>3 DEF CancelCall, StateOK, jobVars
<1>5. CASE CancelCommit(c)
  <2>1. req[c] # NoRequest
    BY <1>5 DEF CancelCommit, InFlight
  <2>2. row[req[c].run] \in Row /\ Interrupt(req[c].seen) \in Row
    BY <2>1, RequestTypes, RowTypes DEF StateOK
  <2>3. row' \in [Runs -> Row]
    BY <1>5, <2>1, <2>2, RequestTypes, RowTypes DEF CancelCommit, StateOK
  <2> QED BY <1>5, <2>3 DEF CancelCommit, StateOK, jobVars
<1>6. CASE RequestFails(c)
  BY <1>6 DEF RequestFails, StateOK, jobVars
<1> QED BY <1>1, <1>2, <1>3, <1>4, <1>5, <1>6 DEF RequestStep

LEMMA StateNext == StateOK /\ [Next]_vars => StateOK'
<1> SUFFICES ASSUME StateOK, [Next]_vars PROVE StateOK'
  OBVIOUS
<1>1. CASE Create
  <2>1. row' \in [Runs -> Row]
    BY <1>1 DEF Create, Row, ParseStatus, DeidentificationStatus
  <2> QED BY <1>1, <2>1 DEF Create, StateOK, jobVars
<1>2. CASE CreateSubmit
  BY <1>2 DEF CreateSubmit, SubmitJob, StateOK
<1>3. ASSUME NEW c \in Clients,
             \/ \E op \in {"retry", "cancel"}, r \in Runs : Begin(c, op, r)
             \/ RequestStep(c) \/ RequestFails(c)
      PROVE  StateOK'
  BY <1>3, StateRequest
<1>4. ASSUME NEW r \in Runs, JobStep(r) \/ JobDbFails(r) PROVE StateOK'
  BY <1>4, StateJob
<1>5. CASE Stop
  BY <1>5 DEF Stop, StateOK, jobVars
<1>6. CASE Stopped \/ Crash
  <2>1. "idle" \in Locations
    BY DEF Locations
  <2> QED BY <1>6, <2>1, NewRowType DEF Stopped, Crash, Vanish, StateOK
<1>7. CASE Restart
  <2>1. row' \in [Runs -> Row]
    BY <1>7, RowTypes DEF Restart, StateOK
  <2> QED BY <1>7, <2>1 DEF Restart, StateOK, jobVars
<1>8. CASE UNCHANGED vars
  BY <1>8 DEF vars, jobVars, StateOK
<1> QED BY <1>1, <1>2, <1>3, <1>4, <1>5, <1>6, <1>7, <1>8 DEF Next

\* The rows, the jobs' positions and the requests are always of their types.
THEOREM StateCorrect == Spec => []StateOK
<1> QED BY StateInit, StateNext, PTL DEF Spec

-----------------------------------------------------------------------------
(* The TaskManager inside the composition *)

UsesTaskManager == TM!Spec

\* Every action is written with an action of the TaskManager, or leaves its
\* variables alone, so that what is proved of the TaskManager carries over.
LEMMA ImplementsTaskManager == Spec => UsesTaskManager
<1>1. Init => TM!Init
  BY DEF Init
<1>2. ASSUME StateOK, [Next]_vars PROVE [TM!Next]_(TM!vars)
  <2> USE DEF tmVars, TM!vars, TM!Next, TM!TaskStep
  <2>1. CASE Create \/ CreateSubmit \/ Stop \/ Stopped \/ Crash \/ Restart
    BY <2>1 DEF Create, CreateSubmit, SubmitJob, Stop, Stopped, Crash, Vanish, Restart
  <2>2. ASSUME NEW c \in Clients,
               \/ \E op \in {"retry", "cancel"}, r \in Runs : Begin(c, op, r)
               \/ RequestStep(c) \/ RequestFails(c)
        PROVE  [TM!Next]_(TM!vars)
    <3>1. ASSUME req[c] # NoRequest, RetrySubmit(c) \/ CancelCall(c) PROVE TM!Next
      <4>1. req[c].run \in Runs
        BY <3>1, <1>2, RequestTypes
      <4> QED BY <3>1, <4>1 DEF RetrySubmit, SubmitJob, CancelCall
    <3> QED BY <2>2, <3>1 DEF Begin, RequestStep, RetryCommit, RetrySubmit, CancelCall,
              CancelCommit, RequestFails, InFlight
  <2>3. ASSUME NEW r \in Runs, JobStep(r) \/ JobDbFails(r)
        PROVE  [TM!Next]_(TM!vars)
    BY <2>3 DEF JobStep, JobDbFails, JobStart, JobWaits, JobDropped, JobCancelled, JobEnd,
      LoadRun, ClaimRun, ParseDocument, FinishRun, LoadRow, RecordFailure, LoadDeid, ClaimDeid,
      Deidentify, FinishDeid, SaveDeidError, RecordDeidFailure, MarkInterrupted, CloseSession
  <2>4. CASE UNCHANGED vars
    BY <2>4 DEF vars
  <2> QED BY <1>2, <2>1, <2>2, <2>3, <2>4 DEF Next
<1> QED BY <1>1, <1>2, StateCorrect, PTL DEF Spec, UsesTaskManager, TM!Spec

-----------------------------------------------------------------------------
(* The requested stage *)

\* Positions from which a job writes the deidentification column.
DeidWork == {"dload", "dclaim", "deid", "dfinish", "derror", "dfail", "dfailing"}

\* Why RequestedStageKept is preserved: a job reaches the second stage, and a
\* handler holds a row that mentions it, only when the experiment wants it.
StageInv ==
    /\ RequestedStageKept
    /\ experiment = "absent" => ~deidWanted
    /\ \A r \in Runs : kind[r] = "deid" \/ follow[r] \/ pc[r] \in DeidWork => deidWanted
    /\ \A r \in Runs : found[r].deid # "NOT_REQUESTED" => deidWanted
    /\ \A c \in Clients : req[c] # NoRequest =>
         /\ experiment # "absent"
         /\ req[c].seen.deid = "NOT_REQUESTED" <=> ~deidWanted
         /\ req[c].op = "retry" /\ ~req[c].full => deidWanted

\* The commit of a job keeps a stage requested, or not, as it was.
LEMMA CommitKeepsStage ==
  ASSUME NEW s \in Row, NEW t \in Row, NEW loc \in Locations,
         loc \in DeidWork \/ t.deid # "NOT_REQUESTED" => s.deid # "NOT_REQUESTED"
  PROVE  RowAfter(loc, s, t).deid = "NOT_REQUESTED" <=> s.deid = "NOT_REQUESTED"
BY DEF RowAfter, Flush, Interrupt, Row, Active, DeidWork, Locations, RunLocations, DeidLocations

LEMMA StageJob ==
  ASSUME StateOK, StageInv, NEW r \in Runs, JobStep(r) \/ JobDbFails(r)
  PROVE  StageInv'
<1>1. /\ UNCHANGED <<experiment, deidWanted, server, kind, req>>
      /\ row' = row \/ Commit(r)
      /\ pc' = pc \/ \E loc \in Locations : Goto(r, loc)
  BY JobEffect
<1>2. row[r] \in Row /\ found[r] \in Row /\ pc[r] \in Locations
  BY DEF StateOK
<1>3. RequestedStageKept'
  <2>1. pc[r] \in DeidWork \/ found[r].deid # "NOT_REQUESTED" => row[r].deid # "NOT_REQUESTED"
    BY DEF StageInv, RequestedStageKept
  <2>2. RowAfter(pc[r], row[r], found[r]).deid = "NOT_REQUESTED" <=> row[r].deid = "NOT_REQUESTED"
    BY <1>2, <2>1, CommitKeepsStage
  <2>3. \A x \in Runs :
          row'[x] = row[x] \/ (x = r /\ row'[x] = RowAfter(pc[r], row[r], found[r]))
    BY <1>1 DEF Commit, StateOK
  <2> QED BY <1>1, <2>2, <2>3 DEF StageInv, RequestedStageKept
<1> USE DEF JobStep, JobDbFails, JobStart, JobWaits, JobDropped, JobCancelled, JobEnd,
      LoadRun, ClaimRun, ParseDocument, FinishRun, LoadRow, RecordFailure, LoadDeid, ClaimDeid,
      Deidentify, FinishDeid, SaveDeidError, RecordDeidFailure, MarkInterrupted, CloseSession
<1>4. \A x \in Runs : follow'[x] => deidWanted
  <2>1. follow' = follow \/ follow' = [follow EXCEPT ![r] = row[r].deid = "PENDING"]
    BY DEF jobFrame
  <2>2. row[r].deid = "PENDING" => deidWanted
    BY DEF StageInv, RequestedStageKept
  <2>3. follow \in [Runs -> BOOLEAN]
    BY DEF StateOK
  <2> QED BY <2>1, <2>2, <2>3 DEF StageInv
<1>5. \A x \in Runs : pc'[x] \in DeidWork => deidWanted
  <2>1. pc'[r] \in DeidWork => kind[r] = "deid" \/ follow[r] \/ pc[r] \in DeidWork
    BY <1>2 DEF StateOK, Goto, Ready, At, Escaped, Reraised, Recording, DeidWork,
       RunLocations, DeidLocations
  <2>2. \A x \in Runs \ {r} : pc'[x] = pc[x]
    BY <1>1 DEF StateOK, Goto
  <2> QED BY <2>1, <2>2 DEF StageInv
<1>6. \A x \in Runs : found'[x].deid # "NOT_REQUESTED" => deidWanted
  <2>1. found' = found \/ Forget(r) \/ found' = [found EXCEPT ![r] = row[r]]
    BY JobEffect
  <2>2. \A x \in Runs : found'[x] \in {found[x], NewRow, row[x]}
    BY <2>1 DEF Forget, StateOK
  <2> QED BY <2>2 DEF StageInv, RequestedStageKept, NewRow
<1> QED BY <1>1, <1>3, <1>4, <1>5, <1>6 DEF StageInv

LEMMA StageRequest ==
  ASSUME StateOK, StageInv, NEW c \in Clients,
         \/ \E op \in {"retry", "cancel"}, r \in Runs : Begin(c, op, r)
         \/ RequestStep(c) \/ RequestFails(c)
  PROVE  StageInv'
<1>1. ASSUME NEW op \in {"retry", "cancel"}, NEW r \in Runs, Begin(c, op, r)
      PROVE  StageInv'
  <2>1. PICK full \in BOOLEAN :
          /\ full \in IF op = "retry" THEN RetryModes(row[r]) ELSE {FALSE}
          /\ req' = [req EXCEPT ![c] = [op |-> op, run |-> r, seen |-> row[r],
                                        step |-> "loaded", full |-> full]]
    BY <1>1 DEF Begin, RetryModes
  <2>2. op = "retry" /\ ~full => row[r].deid # "NOT_REQUESTED"
    BY <1>1, <2>1 DEF Begin, RetryModes, Retryable, Broken
  <2> QED BY <1>1, <2>1, <2>2 DEF Begin, StateOK, StageInv, RequestedStageKept, jobVars
<1>2. CASE RetryCommit(c)
  <2>1. req[c] # NoRequest
    BY <1>2 DEF RetryCommit, InFlight
  <2> DEFINE q == req[c]
             new == Flush(row[q.run], q.seen, Reset(q))
  <2>2. q.run \in Runs /\ q.seen \in Row /\ q.full \in BOOLEAN /\ q.op = "retry"
    BY <1>2, <2>1, RequestTypes DEF RetryCommit, InFlight
  <2>3. row' = [row EXCEPT ![q.run] = new]
    BY <1>2 DEF RetryCommit
  <2>4. new.deid = "NOT_REQUESTED" <=> ~deidWanted
    BY <2>1, <2>2 DEF Flush, Reset, StageInv, RequestedStageKept, Row
  <2>5. RequestedStageKept'
    <3> HIDE DEF new
    <3> QED BY <1>2, <2>3, <2>4 DEF RetryCommit, StateOK, StageInv, RequestedStageKept
  <2>6. \A d \in Clients : req'[d] # NoRequest =>
          /\ req[d] # NoRequest
          /\ req'[d].seen = req[d].seen /\ req'[d].op = req[d].op /\ req'[d].full = req[d].full
    BY <1>2, <2>1, RequestTypes DEF RetryCommit, StateOK, Request
  <2> QED BY <1>2, <2>5, <2>6 DEF RetryCommit, StageInv, jobVars
<1>3. CASE RetrySubmit(c)
  <2>1. req[c] # NoRequest /\ req[c].op = "retry"
    BY <1>3 DEF RetrySubmit, InFlight
  <2>2. ~req[c].full => deidWanted
    BY <2>1 DEF StageInv
  <2>3. \A r \in Runs : kind'[r] = "deid" => kind[r] = "deid" \/ ~req[c].full
    BY <1>3 DEF RetrySubmit, SubmitJob, StateOK
  <2>4. \A d \in Clients : req'[d] # NoRequest => req'[d] = req[d]
    BY <1>3 DEF RetrySubmit, StateOK
  <2> QED BY <1>3, <2>2, <2>3, <2>4 DEF RetrySubmit, StageInv, RequestedStageKept
<1>4. CASE CancelCall(c)
  <2>1. req[c] # NoRequest
    BY <1>4 DEF CancelCall, InFlight
  <2>2. \A d \in Clients : req'[d] # NoRequest =>
          /\ req[d] # NoRequest
          /\ req'[d].seen = req[d].seen /\ req'[d].op = req[d].op /\ req'[d].full = req[d].full
    BY <1>4, <2>1, RequestTypes DEF CancelCall, StateOK, Request
  <2> QED BY <1>4, <2>2 DEF CancelCall, StageInv, RequestedStageKept, jobVars
<1>5. CASE CancelCommit(c)
  <2>1. req[c] # NoRequest
    BY <1>5 DEF CancelCommit, InFlight
  <2> DEFINE q == req[c]
             new == Flush(row[q.run], q.seen, Interrupt(q.seen))
  <2>2. q.run \in Runs /\ q.seen \in Row
    BY <2>1, RequestTypes
  <2>3. row' = [row EXCEPT ![q.run] = new]
    BY <1>5 DEF CancelCommit
  <2>4. new.deid = "NOT_REQUESTED" <=> ~deidWanted
    BY <2>1, <2>2 DEF Flush, Interrupt, Active, StageInv, RequestedStageKept, Row
  <2>5. RequestedStageKept'
    <3> HIDE DEF new
    <3> QED BY <1>5, <2>3, <2>4 DEF CancelCommit, StateOK, StageInv, RequestedStageKept
  <2>6. \A d \in Clients : req'[d] # NoRequest => req'[d] = req[d]
    BY <1>5 DEF CancelCommit, StateOK
  <2> QED BY <1>5, <2>5, <2>6 DEF CancelCommit, StageInv, jobVars
<1>6. CASE RequestFails(c)
  <2>1. \A d \in Clients : req'[d] # NoRequest => req'[d] = req[d]
    BY <1>6 DEF RequestFails, StateOK
  <2> QED BY <1>6, <2>1 DEF RequestFails, StageInv, RequestedStageKept, jobVars
<1> QED BY <1>1, <1>2, <1>3, <1>4, <1>5, <1>6 DEF RequestStep

LEMMA StageIsInvariant == Spec => []StageInv
<1>1. Init => StageInv
  BY DEF Init, StageInv, RequestedStageKept, DeidWork, NewRow
<1>2. StateOK /\ StageInv /\ [Next]_vars => StageInv'
  <2> SUFFICES ASSUME StateOK, StageInv, [Next]_vars PROVE StageInv'
    OBVIOUS
  <2>1. CASE Create
    BY <2>1 DEF Create, StateOK, StageInv, RequestedStageKept, jobVars
  <2>2. CASE CreateSubmit
    BY <2>2 DEF CreateSubmit, SubmitJob, StateOK, StageInv, RequestedStageKept
  <2>3. ASSUME NEW c \in Clients,
               \/ \E op \in {"retry", "cancel"}, r \in Runs : Begin(c, op, r)
               \/ RequestStep(c) \/ RequestFails(c)
        PROVE  StageInv'
    BY <2>3, StageRequest
  <2>4. ASSUME NEW r \in Runs, JobStep(r) \/ JobDbFails(r) PROVE StageInv'
    BY <2>4, StageJob
  <2>5. CASE Stop
    BY <2>5 DEF Stop, StageInv, RequestedStageKept, jobVars
  <2>6. CASE Stopped \/ Crash
    BY <2>6 DEF Stopped, Crash, Vanish, StageInv, RequestedStageKept, DeidWork, NewRow
  <2>7. CASE Restart
    BY <2>7 DEF Restart, Recovered, StageInv, RequestedStageKept, jobVars
  <2>8. CASE UNCHANGED vars
    BY <2>8 DEF vars, jobVars, StageInv, RequestedStageKept
  <2> QED BY <2>1, <2>2, <2>3, <2>4, <2>5, <2>6, <2>7, <2>8 DEF Next
<1> QED BY <1>1, <1>2, StateCorrect, PTL DEF Spec

\* The stage is NOT_REQUESTED exactly when the experiment does not want it,
\* through every race of stale handlers, jobs and recoveries
\* (experiment_service.py 150-154, 293-297; pipeline.py 360-378).
THEOREM StageIsKept == Spec => []RequestedStageKept
<1>1. StageInv => RequestedStageKept
  BY DEF StageInv
<1> QED BY <1>1, StageIsInvariant, PTL

-----------------------------------------------------------------------------
(* The outcome of a run *)

\* Positions before the end of the first stage, with a claim to write the parse
\* column: the row a job is claiming is pending or was interrupted meanwhile.
ClaimInv ==
    \A r \in Runs : pc[r] = "claim" => row[r].parse \in {"PENDING", "INTERRUPTED"}

\* A run being parsed has no outcome; where nothing leads from the second stage
\* to the error handler of the first, a run being failed has none either.
WorkInv ==
    \A r \in Runs : pc[r] \in {"claim", "parse", "finish", "fail", "failing"}
                      => row[r].parse \in {"PENDING", "RUNNING", "INTERRUPTED"}

\* What requests and recoveries do to the parse column: a retry makes it PENDING,
\* a cancel or a recovery INTERRUPTED, or it stays as it is.
LEMMA RequestParse ==
  ASSUME StateOK, NEW c \in Clients,
         \/ \E op \in {"retry", "cancel"}, r \in Runs : Begin(c, op, r)
         \/ RequestStep(c) \/ RequestFails(c)
  PROVE  /\ pc' = pc
         /\ \A r \in Runs : row'[r].parse \in {row[r].parse, "PENDING", "INTERRUPTED"}
<1>1. CASE RetryCommit(c) \/ CancelCommit(c)
  <2>1. /\ req[c] # NoRequest
        /\ pc' = pc
    BY <1>1 DEF RetryCommit, CancelCommit, InFlight, jobVars
  <2> DEFINE q == req[c]
  <2>2. PICK new \in {Reset(q), Interrupt(q.seen)} :
          row' = [row EXCEPT ![q.run] = Flush(row[q.run], q.seen, new)]
    BY <1>1 DEF RetryCommit, CancelCommit
  <2>3. Flush(row[q.run], q.seen, new).parse \in {row[q.run].parse, "PENDING", "INTERRUPTED"}
    BY <2>1, <2>2, RequestTypes DEF Flush, Reset, Interrupt, Row
  <2> HIDE DEF q
  <2> QED BY <2>1, <2>2, <2>3 DEF StateOK
<1>2. CASE ~(RetryCommit(c) \/ CancelCommit(c))
  BY <1>2 DEF Begin, RequestStep, RetrySubmit, CancelCall, RequestFails, jobVars
<1> QED BY <1>1, <1>2

\* What a job does to the parse column of its row, at each position.
LEMMA JobParse ==
  ASSUME StateOK, NEW r \in Runs, JobStep(r) \/ JobDbFails(r)
  PROVE  /\ \A x \in Runs \ {r} : row'[x] = row[x] /\ pc'[x] = pc[x] /\ found'[x] = found[x]
         /\ row'[r].parse \in {row[r].parse, RowAfter(pc[r], row[r], found[r]).parse}
<1>1. /\ row' = row \/ Commit(r)
      /\ pc' = pc \/ \E loc \in Locations : Goto(r, loc)
      /\ found' = found \/ Forget(r) \/ found' = [found EXCEPT ![r] = row[r]]
  BY JobEffect
<1> QED BY <1>1 DEF Commit, Goto, Forget, StateOK

LEMMA ClaimJob ==
  ASSUME StateOK, ClaimInv, NEW r \in Runs, JobStep(r) \/ JobDbFails(r)
  PROVE  ClaimInv'
<1>1. \A x \in Runs \ {r} : row'[x] = row[x] /\ pc'[x] = pc[x]
  BY JobParse
<1>2. pc'[r] = "claim" => row'[r].parse \in {"PENDING", "INTERRUPTED"}
  <2>1. pc[r] \in Locations
    BY DEF StateOK
  <2>2. pc'[r] = "claim" =>
          row' = row /\ (row[r].parse = "PENDING" \/ pc[r] = "claim")
    BY <2>1 DEF StateOK, Goto, Ready, At, Escaped, Reraised, Recording, RunLocations, DeidLocations,
      JobStep, JobDbFails, JobStart, JobWaits, JobDropped, JobCancelled, JobEnd,
      LoadRun, ClaimRun, ParseDocument, FinishRun, LoadRow, RecordFailure, LoadDeid, ClaimDeid,
      Deidentify, FinishDeid, SaveDeidError, RecordDeidFailure, MarkInterrupted, CloseSession
  <2> QED BY <2>2 DEF ClaimInv
<1> QED BY <1>1, <1>2 DEF ClaimInv

LEMMA ClaimInductive == StateOK /\ ClaimInv /\ [Next]_vars => ClaimInv'
<1> SUFFICES ASSUME StateOK, ClaimInv, [Next]_vars PROVE ClaimInv'
  OBVIOUS
<1>1. CASE Create
  BY <1>1 DEF Create, ClaimInv, jobVars
<1>2. CASE CreateSubmit \/ Stop \/ UNCHANGED vars
  BY <1>2 DEF CreateSubmit, Stop, vars, ClaimInv, jobVars
<1>3. ASSUME NEW c \in Clients,
             \/ \E op \in {"retry", "cancel"}, r \in Runs : Begin(c, op, r)
             \/ RequestStep(c) \/ RequestFails(c)
      PROVE  ClaimInv'
  BY <1>3, RequestParse DEF ClaimInv
<1>4. ASSUME NEW r \in Runs, JobStep(r) \/ JobDbFails(r) PROVE ClaimInv'
  BY <1>4, ClaimJob
<1>5. CASE Stopped \/ Crash
  BY <1>5 DEF Stopped, Crash, Vanish, ClaimInv
<1>6. CASE Restart
  BY <1>6 DEF Restart, Recovered, ClaimInv, jobVars
<1> QED BY <1>1, <1>2, <1>3, <1>4, <1>5, <1>6 DEF Next

\* A job never starts over a run that has an outcome (pipeline.py 48-55).
THEOREM OutcomeIsKept == Spec => ClaimKeepsOutcome
<1> DEFINE Claims(r) == row'[r].parse = "RUNNING" /\ row[r].parse # "RUNNING"
           Allowed == \A r \in Runs : Claims(r) => row[r].parse \in {"PENDING", "INTERRUPTED"}
<1>1. Init => ClaimInv
  BY DEF Init, ClaimInv
<1>2. StateOK /\ ClaimInv /\ [Next]_vars => Allowed \/ UNCHANGED vars
  <2> SUFFICES ASSUME StateOK, ClaimInv, Next, NEW r \in Runs, Claims(r)
               PROVE  row[r].parse \in {"PENDING", "INTERRUPTED"}
    OBVIOUS
  <2>1. ~Create /\ ~CreateSubmit /\ ~Stop /\ ~Stopped /\ ~Crash /\ ~Restart
    BY DEF Create, CreateSubmit, Stop, Stopped, Crash, Vanish, Restart, Recovered
  <2>2. ASSUME NEW c \in Clients,
               \/ \E op \in {"retry", "cancel"}, x \in Runs : Begin(c, op, x)
               \/ RequestStep(c) \/ RequestFails(c)
        PROVE  FALSE
    BY <2>2, RequestParse
  <2>3. ASSUME NEW x \in Runs, JobStep(x) \/ JobDbFails(x)
        PROVE  row[r].parse \in {"PENDING", "INTERRUPTED"}
    <3>1. x = r
      BY <2>3, JobParse
    <3>2. RowAfter(pc[r], row[r], found[r]).parse = "RUNNING"
      BY <2>3, <3>1, JobParse
    <3>3. row[r] \in Row /\ found[r] \in Row
      BY DEF StateOK
    <3>4. pc[r] = "claim"
      BY <3>2, <3>3 DEF RowAfter, Flush, Interrupt, Row
    <3> QED BY <3>4 DEF ClaimInv
  <2> QED BY <2>1, <2>2, <2>3 DEF Next
<1> QED BY <1>1, <1>2, ClaimInductive, StateCorrect, PTL DEF Spec, ClaimKeepsOutcome

LEMMA WorkJob ==
  ASSUME Env \cap {"db", "storage"} = {},
         StateOK, WorkInv, NEW r \in Runs, JobStep(r) \/ JobDbFails(r)
  PROVE  WorkInv'
<1> DEFINE Undone == {"PENDING", "RUNNING", "INTERRUPTED"}
           Working == {"claim", "parse", "finish", "fail", "failing"}
<1>1. \A x \in Runs \ {r} : row'[x] = row[x] /\ pc'[x] = pc[x]
  BY JobParse
<1>2. pc[r] \in Locations /\ row[r] \in Row /\ found[r] \in Row
  BY DEF StateOK
<1>3. pc'[r] \in Working =>
        \/ row' = row /\ (row[r].parse = "PENDING" \/ pc[r] \in Working)
        \/ pc[r] = "claim" /\ row' = [row EXCEPT ![r] = RowAfter("claim", row[r], found[r])]
  BY <1>2 DEF StateOK, Goto, Ready, At, Escaped, Reraised, Recording, RunLocations, DeidLocations,
    Commit,
    JobStep, JobDbFails, JobStart, JobWaits, JobDropped, JobCancelled, JobEnd,
    LoadRun, ClaimRun, ParseDocument, FinishRun, LoadRow, RecordFailure, LoadDeid, ClaimDeid,
    Deidentify, FinishDeid, SaveDeidError, RecordDeidFailure, MarkInterrupted, CloseSession
<1>4. RowAfter("claim", row[r], found[r]).parse = "RUNNING"
  BY <1>2 DEF RowAfter, Row
<1>5. pc'[r] \in Working => row'[r].parse \in Undone
  BY <1>3, <1>4 DEF WorkInv, StateOK
<1> QED BY <1>1, <1>5 DEF WorkInv

LEMMA WorkInductive ==
  Env \cap {"db", "storage"} = {} => (StateOK /\ WorkInv /\ [Next]_vars => WorkInv')
<1> SUFFICES ASSUME Env \cap {"db", "storage"} = {}, StateOK, WorkInv, [Next]_vars
             PROVE  WorkInv'
  OBVIOUS
<1>1. CASE Create
  BY <1>1 DEF Create, WorkInv, jobVars
<1>2. CASE CreateSubmit \/ Stop \/ UNCHANGED vars
  BY <1>2 DEF CreateSubmit, Stop, vars, WorkInv, jobVars
<1>3. ASSUME NEW c \in Clients,
             \/ \E op \in {"retry", "cancel"}, r \in Runs : Begin(c, op, r)
             \/ RequestStep(c) \/ RequestFails(c)
      PROVE  WorkInv'
  BY <1>3, RequestParse DEF WorkInv
<1>4. ASSUME NEW r \in Runs, JobStep(r) \/ JobDbFails(r) PROVE WorkInv'
  BY <1>4, WorkJob
<1>5. CASE Stopped \/ Crash
  BY <1>5 DEF Stopped, Crash, Vanish, WorkInv
<1>6. CASE Restart
  BY <1>6 DEF Restart, Recovered, WorkInv, jobVars
<1> QED BY <1>1, <1>2, <1>3, <1>4, <1>5, <1>6 DEF Next

\* As long as transactions and error.log writes succeed, a failure, a cancellation
\* or a crash of the second stage never turns a parsed run into a failed one
\* (pipeline.py 38-39, 285-325).  Without the assumption it is false.
THEOREM ParseSurvives ==
  ASSUME Env \cap {"db", "storage"} = {}
  PROVE  Spec => ParseSurvivesDeid
<1> DEFINE Spoils(r) == row[r].parse = "SUCCEEDED" /\ row'[r].parse = "FAILED"
           Kept == \A r \in Runs : ~Spoils(r)
<1>1. Init => WorkInv
  BY DEF Init, WorkInv
<1>2. StateOK /\ WorkInv /\ [Next]_vars => Kept
  <2> SUFFICES ASSUME StateOK, WorkInv, [Next]_vars, NEW r \in Runs, Spoils(r)
               PROVE  FALSE
    OBVIOUS
  <2>1. /\ ~Create /\ ~CreateSubmit /\ ~Stop /\ ~Stopped /\ ~Crash /\ ~Restart
        /\ ~UNCHANGED vars
    BY DEF Create, CreateSubmit, Stop, Stopped, Crash, Vanish, Restart, Recovered, vars
  <2>2. ASSUME NEW c \in Clients,
               \/ \E op \in {"retry", "cancel"}, x \in Runs : Begin(c, op, x)
               \/ RequestStep(c) \/ RequestFails(c)
        PROVE  FALSE
    BY <2>2, RequestParse
  <2>3. ASSUME NEW x \in Runs, JobStep(x) \/ JobDbFails(x) PROVE FALSE
    <3>1. x = r
      BY <2>3, JobParse
    <3>2. RowAfter(pc[r], row[r], found[r]).parse = "FAILED" /\ row[r] \in Row /\ found[r] \in Row
      BY <2>3, <3>1, JobParse DEF StateOK
    <3>3. pc[r] = "failing"
      BY <3>2 DEF RowAfter, Flush, Interrupt, Row
    <3> QED BY <3>3 DEF WorkInv
  <2> QED BY <2>1, <2>2, <2>3 DEF Next
<1>3. StateOK /\ WorkInv /\ [Next]_vars =>
        (\A r \in Runs : row[r].parse = "SUCCEEDED" => row'[r].parse # "FAILED")
  BY <1>2
<1>4. StateOK /\ WorkInv /\ [Next]_vars => WorkInv'
  BY WorkInductive
<1> QED BY <1>1, <1>3, <1>4, StateCorrect, PTL DEF Spec, ParseSurvivesDeid

-----------------------------------------------------------------------------
(* What the TaskManager guarantees holds of the composition *)

TMProofs == INSTANCE TaskManagerProofs

\* The inductive invariant of the TaskManager holds of the TaskManager inside.
LEMMA TaskManagerInside == UsesTaskManager => []TMProofs!IInv
<1>1. TM!Init => TMProofs!Init
  BY DEF TM!Init, TMProofs!Init
<1>2. [TM!Next]_(TM!vars) => [TMProofs!Next]_(TMProofs!vars)
  BY DEF TM!Cardinality, TMProofs!Cardinality,
      TM!Init, TMProofs!Init, TM!Submit, TMProofs!Submit, TM!Cancel, TMProofs!Cancel,
      TM!Shutdown, TMProofs!Shutdown, TM!Reset, TMProofs!Reset, TM!StartJob,
      TMProofs!StartJob, TM!StartWaiting, TMProofs!StartWaiting, TM!CancelUnstarted,
      TMProofs!CancelUnstarted, TM!Resume, TMProofs!Resume, TM!AbandonWait,
      TMProofs!AbandonWait, TM!DeliverCancel, TMProofs!DeliverCancel, TM!Finish,
      TMProofs!Finish, TM!Locked, TMProofs!Locked, TM!Pending, TMProofs!Pending,
      TM!Granted, TMProofs!Granted, TM!Queued, TMProofs!Queued, TM!Alive,
      TMProofs!Alive, TM!WakesUp, TMProofs!WakesUp, TM!MoveAndWake,
      TMProofs!MoveAndWake, TM!LeaveQueue, TMProofs!LeaveQueue, TM!vars,
      TMProofs!vars, TM!Next, TMProofs!Next, TM!TaskStep, TMProofs!TaskStep
<1>3. TMProofs!Init => TMProofs!IInv
  BY TMProofs!InitEstablishes, RunsAssumption, MaxConcurrencyAssumption
     DEF TMProofs!RunsAssumption, TMProofs!MaxConcurrencyAssumption, TMProofs!IsFiniteSet, IsFiniteSet
<1>4. TMProofs!IInv /\ [TMProofs!Next]_(TMProofs!vars) => TMProofs!IInv'
  BY TMProofs!NextKeeps, RunsAssumption, MaxConcurrencyAssumption
     DEF TMProofs!RunsAssumption, TMProofs!MaxConcurrencyAssumption, TMProofs!IsFiniteSet, IsFiniteSet
<1> QED BY <1>1, <1>2, <1>3, <1>4, PTL DEF UsesTaskManager, TM!Spec

\* The type invariant of the whole system, the range of the permits included.
THEOREM SystemTypeCorrect == Spec => []TypeOK
<1>1. TMProofs!IInv => TM!TypeOK
  BY DEF TMProofs!IInv, TMProofs!TypeOK, TM!TypeOK, TM!TaskState, TMProofs!TaskState
<1> QED BY <1>1, TaskManagerInside, ImplementsTaskManager, StateCorrect, PTL DEF TypeOK

\* Through retries, cancellations, failures, shutdowns and crashes of the whole
\* system no permit is lost and no run that waits for one is forgotten
\* (manager.py 20-29).
THEOREM SystemPermits == Spec => [](TM!PermitsConserved /\ TM!NoLostWakeup)
<1>1. TMProofs!IInv => TM!PermitsConserved /\ TM!NoLostWakeup
  BY DEF TMProofs!IInv, TMProofs!PermitsConserved, TM!PermitsConserved, TMProofs!NoLostWakeup,
    TM!NoLostWakeup, TMProofs!Holders, TM!Holders, TMProofs!Granted, TM!Granted,
    TMProofs!Pending, TM!Pending, TMProofs!Cardinality, TM!Cardinality
<1> QED BY <1>1, TaskManagerInside, ImplementsTaskManager, PTL

-----------------------------------------------------------------------------
(* Who will write a RUNNING column again *)

\* Two requests about the same run are not served at the same time.
OneRequestPerRun ==
    \A c, d \in Clients : c # d /\ req[c] # NoRequest /\ req[d] # NoRequest
                            => req[c].run # req[d].run

\* What RunningIsOwned asks of one run of a live server.
Owned(r) ==
    /\ row[r].parse = "RUNNING" =>
        \/ task[r] = "running" /\ pc[r] \in ParseWriters
        \/ CancelPending(r)
    /\ row[r].deid = "RUNNING" =>
        \/ task[r] = "running" /\ pc[r] \in DeidWriters
        \/ CancelPending(r)

\* A second CancelledError, raised in a handler that was about to write the
\* column, skips the write: then the request that caused it will write it.
HandedOver(r) ==
    task[r] = "running" /\ r \in cancelling =>
        /\ row[r].parse = "RUNNING" /\ pc[r] \in Handlers => CancelPending(r)
        /\ \/ pc[r] \in Handlers
           \/ kind[r] = "deid" /\ pc[r] \in {"derror", "dfail", "dfailing", "dmark", "dmarking"}
           => (row[r].deid = "RUNNING" => CancelPending(r))

\* Where a handler is going to commit, it has seen every column that is RUNNING:
\* nobody but the job itself makes one so.
Recorders == {"failing", "dfailing", "marking", "dmarking"}
FoundRunning(r) ==
    pc[r] \in Recorders =>
        /\ row[r].parse = "RUNNING" => found[r].parse = "RUNNING"
        /\ row[r].deid = "RUNNING" => found[r].deid = "RUNNING"

\* While a job claims one stage, the other column is not the only active one.
ClaimsActive(r) ==
    /\ pc[r] = "claim" /\ row[r].deid \in Active => row[r].parse \in Active
    /\ pc[r] = "dclaim" /\ row[r].parse \in Active => row[r].deid \in Active

\* A column that a cancel request will not overwrite, because it saw no active
\* status in it, cannot become active before the request commits; a retry that
\* saw a parsed run leaves its parse column alone, and one that saw a pending
\* second stage finds it active if a job is claiming it.
SeenStands(c, r) ==
    req[c] # NoRequest /\ req[c].run = r =>
        /\ req[c].op = "cancel" /\ req[c].seen.parse \notin Active
            => row[r].parse \notin Active /\ pc[r] # "claim"
        /\ req[c].op = "cancel" /\ req[c].seen.deid \notin Active
            => row[r].deid \notin Active /\ pc[r] # "dclaim"
        /\ req[c].op = "retry" =>
            Retryable(req[c].seen) /\ (~req[c].full => req[c].seen.parse = "SUCCEEDED")
        /\ req[c].op = "retry" /\ req[c].step = "loaded" =>
            /\ req[c].seen.parse = "SUCCEEDED" => row[r].parse \notin Active /\ pc[r] # "claim"
            /\ req[c].seen.deid = "PENDING" /\ pc[r] = "dclaim" => row[r].deid \in Active

OwnRun(r) ==
    /\ Owned(r) /\ HandedOver(r) /\ FoundRunning(r) /\ ClaimsActive(r)
    /\ \A c \in Clients : SeenStands(c, r)

\* Why RunningIsOwned is preserved.
OwnInv ==
    /\ server = "up" => \A r \in Runs : OwnRun(r)
    /\ server # "up" => \A c \in Clients : req[c] = NoRequest
    /\ server = "down" =>
        cancelling = {} /\ \A r \in Runs : task[r] = "absent" /\ pc[r] = "idle"

\* A step of the job of one run moves no other task into or out of its job.
LEMMA JobAlone ==
  ASSUME TypeOK, NEW r \in Runs, JobStep(r) \/ JobDbFails(r), NEW x \in Runs \ {r}
  PROVE  /\ task'[x] = "running" <=> task[x] = "running"
         /\ x \in cancelling' <=> x \in cancelling
<1> USE DEF TypeOK, TM!TypeOK
<1>1. CASE JobStart(r) \/ JobWaits(r) \/ JobDropped(r) \/ JobCancelled(r) \/ JobEnd(r)
  BY <1>1 DEF JobStart, JobWaits, JobDropped, JobCancelled, JobEnd, TM!StartJob, TM!Resume,
     TM!StartWaiting, TM!CancelUnstarted, TM!AbandonWait, TM!DeliverCancel, TM!Finish,
     TM!MoveAndWake, TM!Pending
<1>2. CASE ~(JobStart(r) \/ JobWaits(r) \/ JobDropped(r) \/ JobCancelled(r) \/ JobEnd(r))
  BY <1>2 DEF JobStep, JobDbFails, LoadRun, ClaimRun, ParseDocument, FinishRun,
     LoadRow, RecordFailure, LoadDeid, ClaimDeid, Deidentify, FinishDeid, SaveDeidError,
     RecordDeidFailure, MarkInterrupted, CloseSession, tmVars
<1> QED BY <1>1, <1>2

\* What the rows of other runs are owned by does not change.
LEMMA OwnOthers ==
  ASSUME TypeOK, NEW r \in Runs, JobStep(r) \/ JobDbFails(r), NEW x \in Runs \ {r}, OwnRun(x)
  PROVE  OwnRun(x)'
<1>1. /\ row'[x] = row[x] /\ pc'[x] = pc[x] /\ kind'[x] = kind[x] /\ req' = req
      /\ found'[x] = found[x]
      /\ task'[x] = "running" <=> task[x] = "running"
      /\ x \in cancelling' <=> x \in cancelling
  BY JobParse, JobEffect, JobAlone DEF TypeOK
<1>2. CancelPending(x)' <=> CancelPending(x)
  BY <1>1 DEF CancelPending
<1> QED BY <1>1, <1>2 DEF OwnRun, Owned, HandedOver, FoundRunning, ClaimsActive, SeenStands

\* Steps that begin, leave or abandon the queue, or end the job: the row is kept.
LEMMA OwnAround ==
  ASSUME TypeOK, NEW r \in Runs, OwnRun(r),
         JobStart(r) \/ JobWaits(r) \/ JobDropped(r) \/ JobEnd(r)
  PROVE  OwnRun(r)'
<1> USE DEF TypeOK, StateOK, TM!TypeOK
<1>1. row' = row /\ req' = req /\ kind' = kind /\ found' = found
  BY DEF JobStart, JobWaits, JobDropped, JobEnd, jobFrame
<1>2. CancelPending(r)' <=> CancelPending(r)
  BY <1>1 DEF CancelPending
<1>3. \/ pc'[r] \in {"load", "dload", "idle"} /\ (task[r] # "running" \/ pc[r] = "unwind")
      \/ pc' = pc /\ task[r] # "running" /\ task'[r] # "running"
  BY DEF JobStart, JobWaits, JobDropped, JobEnd, TM!StartJob, TM!Resume, Ready, At, Goto,
     TM!StartWaiting, TM!CancelUnstarted, TM!AbandonWait, TM!MoveAndWake
<1>4. Owned(r)' /\ HandedOver(r)' /\ FoundRunning(r)'
  BY <1>1, <1>2, <1>3
     DEF OwnRun, Owned, HandedOver, FoundRunning, Handlers, ParseWriters, DeidWriters, Recorders
<1>5. ClaimsActive(r)' /\ \A c \in Clients : SeenStands(c, r)'
  BY <1>1, <1>3 DEF OwnRun, ClaimsActive, SeenStands
<1> QED BY <1>4, <1>5 DEF OwnRun

\* Steps of the job itself: the task is running and not being cancelled.
LEMMA OwnWork ==
  ASSUME Env \cap {"db", "storage"} = {}, TypeOK, NEW r \in Runs, OwnRun(r),
         \/ LoadRun(r) \/ ClaimRun(r) \/ ParseDocument(r) \/ FinishRun(r) \/ LoadRow(r) \/ RecordFailure(r)
         \/ LoadDeid(r) \/ ClaimDeid(r) \/ Deidentify(r) \/ FinishDeid(r)
         \/ SaveDeidError(r) \/ RecordDeidFailure(r) \/ MarkInterrupted(r) \/ CloseSession(r)
  PROVE  OwnRun(r)'
<1> USE DEF TypeOK, StateOK, TM!TypeOK
<1> DEFINE s == row[r]
           t == row'[r]
<1>1. req' = req /\ kind' = kind /\ task' = task /\ cancelling' = cancelling
  BY DEF LoadRun, ClaimRun, ParseDocument, FinishRun, LoadRow, RecordFailure, LoadDeid, ClaimDeid,
     Deidentify, FinishDeid, SaveDeidError, RecordDeidFailure, MarkInterrupted, CloseSession,
     jobFrame, tmVars
<1>2. CancelPending(r)' <=> CancelPending(r)
  BY <1>1 DEF CancelPending
<1>3. task[r] = "running" /\ r \notin cancelling /\ s \in Row
  BY DEF LoadRun, ClaimRun, ParseDocument, FinishRun, LoadRow, RecordFailure, LoadDeid, ClaimDeid,
     Deidentify, FinishDeid, SaveDeidError, RecordDeidFailure, MarkInterrupted, CloseSession,
     Ready, At
<1>4. \/ /\ t = s
         /\ \/ pc[r] = "load" /\ (pc'[r] = "close" \/ (pc'[r] = "claim" /\ s.parse = "PENDING"))
            \/ pc[r] = "parse" /\ pc'[r] \in {"finish", "fail"}
            \/ pc[r] = "dload" /\ (pc'[r] = "close" \/ (pc'[r] = "dclaim" /\ s.deid = "PENDING"))
            \/ pc[r] = "deid" /\ pc'[r] \in {"dfinish", "derror"}
            \/ pc[r] = "derror" /\ pc'[r] = "dfail"
            \/ pc[r] \in DOMAIN Recording /\ pc'[r] = Recording[pc[r]] /\ found'[r] = s
            \/ pc[r] = "close" /\ pc'[r] = "unwind"
      \/ /\ t.parse = s.parse
         /\ \/ pc[r] = "dclaim" /\ pc'[r] = "deid" /\ t.deid = "RUNNING"
            \/ pc[r] = "dfinish" /\ pc'[r] = "close" /\ t.deid = "SUCCEEDED"
            \/ pc[r] = "dfailing" /\ pc'[r] = "unwind" /\ t.deid \in {s.deid, "FAILED"} \ {"RUNNING"}
      \/ /\ t.deid = s.deid
         /\ \/ pc[r] = "claim" /\ pc'[r] = "parse" /\ t.parse = "RUNNING"
            \/ pc[r] = "finish" /\ pc'[r] \in {"dload", "close"} /\ t.parse = "SUCCEEDED"
      \/ /\ t.parse \in {s.parse, "FAILED", "INTERRUPTED"} \ {"RUNNING"}
         /\ t.deid \in {s.deid, "INTERRUPTED"} \ {"RUNNING"}
         /\ pc'[r] \in {"unwind", "mark"}
  <2>1. CASE \/ LoadRun(r) \/ ParseDocument(r) \/ LoadDeid(r) \/ Deidentify(r)
              \/ SaveDeidError(r) \/ CloseSession(r)
    BY <1>3, <2>1 DEF LoadRun, ParseDocument, LoadDeid, Deidentify, SaveDeidError,
       CloseSession, Ready, At, Goto, Row
  <2>2. CASE ClaimDeid(r) \/ FinishDeid(r)
    BY <1>3, <2>2 DEF ClaimDeid, FinishDeid, Ready, At, Goto, Commit, RowAfter, Row
  <2>3. CASE ClaimRun(r) \/ FinishRun(r)
    BY <1>3, <2>3 DEF ClaimRun, FinishRun, Ready, At, Goto, Commit, RowAfter, Row
  <2>4. CASE RecordFailure(r) \/ RecordDeidFailure(r) \/ MarkInterrupted(r)
    <3>1. /\ pc[r] \in Recorders /\ pc'[r] \in {"unwind", "mark"}
          /\ t = RowAfter(pc[r], s, found[r])
      BY <2>4 DEF RecordFailure, RecordDeidFailure, MarkInterrupted, Ready, At, Goto, Commit,
         Recorders, Reraised
    <3>2. /\ s.parse = "RUNNING" => found[r].parse = "RUNNING"
          /\ s.deid = "RUNNING" => found[r].deid = "RUNNING"
      BY <3>1 DEF OwnRun, FoundRunning
    <3>3. found[r] \in Row
      OBVIOUS
    <3>4. CASE pc[r] = "dfailing"
      <4>1. pc'[r] = "unwind"
        BY <2>4, <3>4 DEF RecordFailure, RecordDeidFailure, MarkInterrupted, Ready, At, Goto
      <4>2. t = Flush(s, found[r], [found[r] EXCEPT !.deid = "FAILED"])
        BY <3>1, <3>4 DEF RowAfter
      <4> HIDE DEF s, t
      <4>3. t.parse = s.parse /\ t.deid \in {s.deid, "FAILED"} \ {"RUNNING"}
        BY <1>3, <3>2, <3>3, <4>2 DEF Flush, Row
      <4> QED BY <3>4, <4>1, <4>3
    <3>5. CASE pc[r] = "failing"
      <4>1. t = Flush(s, found[r], [parse |-> "FAILED", deid |-> Interrupt(found[r]).deid])
        BY <3>1, <3>5 DEF RowAfter
      <4> HIDE DEF s, t
      <4>2. /\ t.parse \in {s.parse, "FAILED", "INTERRUPTED"} \ {"RUNNING"}
            /\ t.deid \in {s.deid, "INTERRUPTED"} \ {"RUNNING"}
        BY <1>3, <3>2, <3>3, <4>1 DEF Flush, Interrupt, Active, Row
      <4> QED BY <3>1, <4>2
    <3>6. CASE pc[r] \in {"marking", "dmarking"}
      <4>1. t = Flush(s, found[r], Interrupt(found[r]))
        BY <3>1, <3>6 DEF RowAfter
      <4> HIDE DEF s, t
      <4>2. /\ t.parse \in {s.parse, "FAILED", "INTERRUPTED"} \ {"RUNNING"}
            /\ t.deid \in {s.deid, "INTERRUPTED"} \ {"RUNNING"}
        BY <1>3, <3>2, <3>3, <4>1 DEF Flush, Interrupt, Active, Row
      <4> QED BY <3>1, <4>2
    <3> QED BY <3>1, <3>4, <3>5, <3>6 DEF Recorders
  <2>5. CASE LoadRow(r)
    BY <1>3, <2>5 DEF LoadRow, Recording, Ready, At, Goto
  <2> QED BY <2>1, <2>2, <2>3, <2>4, <2>5
<1> HIDE DEF s, t
<1>5. Owned(r)'
  BY <1>1, <1>2, <1>3, <1>4
     DEF OwnRun, Owned, Active, s, t, Recording, Handlers, ParseWriters, DeidWriters
<1>6. HandedOver(r)'
  BY <1>1, <1>3 DEF HandedOver
<1>7. ClaimsActive(r)'
  BY <1>4 DEF OwnRun, ClaimsActive, Active, s, t, Recording
<1>8. \A c \in Clients : SeenStands(c, r)'
  BY <1>1, <1>4 DEF OwnRun, SeenStands, Active, s, t, Recording
<1>9. FoundRunning(r)'
  BY <1>4 DEF FoundRunning, Recorders, Recording, s, t
<1> QED BY <1>5, <1>6, <1>7, <1>8, <1>9 DEF OwnRun

\* A cancellation that reaches the job: either a handler is entered that will
\* write the columns, or the request that cancelled it will.
LEMMA OwnCancelled ==
  ASSUME TypeOK, NEW r \in Runs, OwnRun(r), JobCancelled(r)
  PROVE  OwnRun(r)'
<1> USE DEF TypeOK, StateOK, TM!TypeOK
<1>1. req' = req /\ kind' = kind /\ task' = task /\ r \notin cancelling'
  BY DEF JobCancelled, TM!DeliverCancel, jobFrame
<1>2. CancelPending(r)' <=> CancelPending(r)
  BY <1>1 DEF CancelPending
<1>3. task[r] = "running" /\ r \in cancelling /\ row[r] \in Row /\ found[r] \in Row
      /\ pc[r] \in Locations
  BY DEF JobCancelled, TM!DeliverCancel
<1>4. \/ pc[r] \in {"load", "claim", "parse", "finish"} /\ pc'[r] = "mark"
      \/ pc[r] \in {"dload", "dclaim", "deid", "dfinish"} /\ pc'[r] = "dmark"
      \/ pc[r] = "close" /\ pc'[r] \in {"mark", "dmark"}
      \/ /\ pc[r] \in {"derror", "dfail", "dfailing", "dmark", "dmarking"}
         /\ \/ kind[r] = "run" /\ pc'[r] = "mark"
            \/ kind[r] = "deid" /\ pc'[r] = "unwind"
      \/ pc[r] \in Handlers \cup {"idle", "unwind"} /\ pc'[r] = "unwind"
  BY <1>3 DEF JobCancelled, Goto, Reraised, Handlers, Locations, RunLocations, DeidLocations
<1>5. row'[r] = row[r] \/ row'[r] = RowAfter(pc[r], row[r], found[r])
  BY DEF JobCancelled, Commit
<1>6. row'[r].parse = "RUNNING" => row[r].parse = "RUNNING" \/ pc[r] = "claim"
  BY <1>3, <1>5 DEF RowAfter, Flush, Interrupt, Row
<1>7. row'[r].deid = "RUNNING" => row[r].deid = "RUNNING" \/ pc[r] = "dclaim"
  BY <1>3, <1>5 DEF RowAfter, Flush, Interrupt, Row
<1>8. Owned(r)'
  BY <1>1, <1>2, <1>3, <1>4, <1>6, <1>7 
     DEF OwnRun, Owned, HandedOver, Handlers, ParseWriters, DeidWriters
<1>9. HandedOver(r)'
  BY <1>1 DEF HandedOver
<1>10. ClaimsActive(r)'
  BY <1>4 DEF ClaimsActive
<1>11. /\ row'[r].parse \in Active => row[r].parse \in Active \/ pc[r] = "claim"
       /\ row'[r].deid \in Active => row[r].deid \in Active \/ pc[r] = "dclaim"
  BY <1>3, <1>5 DEF RowAfter, Flush, Interrupt, Row, Active
<1>12. \A c \in Clients : SeenStands(c, r)'
  BY <1>1, <1>4, <1>11 DEF OwnRun, SeenStands
<1>13. FoundRunning(r)'
  BY <1>4 DEF FoundRunning, Recorders
<1> QED BY <1>8, <1>9, <1>10, <1>12, <1>13 DEF OwnRun

LEMMA OwnJob ==
  ASSUME Env \cap {"db", "storage"} = {}, TypeOK, OwnInv, NEW r \in Runs,
         JobStep(r) \/ JobDbFails(r)
  PROVE  OwnInv'
<1>1. server' = server /\ req' = req
  BY JobEffect DEF TypeOK
<1>2. server # "down"
  BY DEF OwnInv, JobStep, JobDbFails, JobStart, JobWaits, JobDropped, JobCancelled, JobEnd,
     LoadRun, ClaimRun, ParseDocument, FinishRun, LoadRow, RecordFailure, LoadDeid, ClaimDeid,
     Deidentify, FinishDeid, SaveDeidError, RecordDeidFailure, MarkInterrupted, CloseSession,
     Ready, At, TM!StartJob, TM!Resume, TM!StartWaiting, TM!CancelUnstarted,
     TM!AbandonWait, TM!DeliverCancel
<1>3. ASSUME server = "up" PROVE OwnRun(r)'
  <2>1. OwnRun(r)
    BY <1>3 DEF OwnInv
  <2>2. ~JobDbFails(r)
    BY DEF JobDbFails
  <2> QED BY <2>1, <2>2, OwnAround, OwnWork, OwnCancelled DEF JobStep
<1>4. ASSUME server = "up", NEW x \in Runs \ {r} PROVE OwnRun(x)'
  BY <1>4, OwnOthers DEF OwnInv
<1> QED BY <1>1, <1>2, <1>3, <1>4 DEF OwnInv

\* A run no request in flight is about, and whose row, job and task stay.
LEMMA OwnUntouched ==
  ASSUME TypeOK, NEW c \in Clients, NEW x \in Runs, OwnRun(x),
         row'[x] = row[x], pc' = pc, found' = found,
         task'[x] = "running" => task[x] = "running" /\ kind'[x] = kind[x],
         task[x] = "running" => task'[x] = "running",
         x \in cancelling' <=> x \in cancelling,
         \A d \in Clients \ {c} : req'[d] = req[d],
         req[c] # NoRequest => req[c].run # x,
         req'[c] # NoRequest => req'[c].run # x
  PROVE  OwnRun(x)'
<1>1. CancelPending(x)' <=> CancelPending(x)
  BY DEF CancelPending
<1>2. Owned(x)' /\ HandedOver(x)' /\ FoundRunning(x)'
  BY <1>1 DEF OwnRun, Owned, HandedOver, FoundRunning
<1>3. ClaimsActive(x)'
  BY DEF OwnRun, ClaimsActive
<1>4. \A d \in Clients : SeenStands(d, x)'
  BY DEF OwnRun, SeenStands
<1> QED BY <1>2, <1>3, <1>4 DEF OwnRun

\* A request begins with the row it sees.
LEMMA OwnBegin ==
  ASSUME TypeOK, ClaimInv, OwnInv,
         NEW c \in Clients, NEW op \in {"retry", "cancel"}, NEW r \in Runs, Begin(c, op, r)
  PROVE  OwnInv'
<1> USE DEF TypeOK, StateOK
<1>1. /\ server = "up" /\ server' = server /\ req[c] = NoRequest
      /\ row' = row /\ pc' = pc /\ task' = task /\ kind' = kind /\ cancelling' = cancelling
      /\ found' = found
  BY DEF Begin, tmVars, jobVars
<1>2. PICK full \in BOOLEAN :
        /\ full \in IF op = "retry" THEN RetryModes(row[r]) ELSE {FALSE}
        /\ req' = [req EXCEPT ![c] = [op |-> op, run |-> r, seen |-> row[r],
                                      step |-> "loaded", full |-> full]]
  BY DEF Begin, RetryModes
<1>3. \A x \in Runs : OwnRun(x)
  BY <1>1 DEF OwnInv
<1>4. \A x \in Runs \ {r} : OwnRun(x)'
  BY <1>1, <1>2, <1>3, OwnUntouched
<1>5. req'[c] = [op |-> op, run |-> r, seen |-> row[r], step |-> "loaded", full |-> full]
  BY <1>2
<1>6. CancelPending(r)' <=> CancelPending(r)
  BY <1>1, <1>2, <1>5 DEF CancelPending
<1>7. Owned(r)' /\ HandedOver(r)' /\ FoundRunning(r)' /\ ClaimsActive(r)'
  BY <1>1, <1>3, <1>6 DEF OwnRun, Owned, HandedOver, FoundRunning, ClaimsActive
<1>8. \A d \in Clients \ {c} : SeenStands(d, r)'
  BY <1>1, <1>2, <1>3 DEF OwnRun, SeenStands
<1>9. SeenStands(c, r)'
  <2>1. CASE op = "cancel"
    <3>1. row[r].parse \in Active \/ row[r].deid \in Active
      BY <2>1 DEF Begin, Cancellable
    <3> QED BY <1>1, <1>3, <1>5, <2>1, <3>1 DEF OwnRun, ClaimsActive, SeenStands
  <2>2. CASE op = "retry"
    <3>1. Retryable(row[r]) /\ (~full => row[r].parse = "SUCCEEDED")
      BY <1>2, <2>2 DEF Begin, RetryModes
    <3>2. row[r].parse = "SUCCEEDED" => row[r].parse \notin Active /\ pc[r] # "claim"
      BY DEF Active, ClaimInv
    <3> QED BY <1>1, <1>5, <2>2, <3>1, <3>2 DEF SeenStands, Active
  <2> QED BY <2>1, <2>2
<1>10. OwnRun(r)'
  BY <1>7, <1>8, <1>9 DEF OwnRun
<1> QED BY <1>1, <1>4, <1>10 DEF OwnInv

\* A retry makes columns PENDING; a column it leaves alone was not being claimed.
LEMMA OwnRetryCommit ==
  ASSUME TypeOK, StageInv, OwnInv, OneRequestPerRun, NEW c \in Clients, RetryCommit(c)
  PROVE  OwnInv'
<1> USE DEF TypeOK, StateOK
<1> DEFINE q == req[c]
<1> PICK r \in Runs : q # NoRequest /\ r = q.run
  BY RequestTypes DEF RetryCommit, InFlight
<1> DEFINE new == Flush(row[r], q.seen, Reset(q))
<1>1. /\ server = "up" /\ server' = server
      /\ q.op = "retry" /\ q.step = "loaded"
      /\ pc' = pc /\ task' = task /\ kind' = kind /\ cancelling' = cancelling
      /\ found' = found /\ row' = [row EXCEPT ![r] = new]
      /\ req' = [req EXCEPT ![c].step = "submit"]
  BY DEF RetryCommit, InFlight, tmVars, jobVars
<1>2. q \in Request /\ q.seen \in Row /\ q.full \in BOOLEAN /\ row[r] \in Row
  BY <1>1, RequestTypes
<1>3. req'[c] = [q EXCEPT !.step = "submit"] /\ \A d \in Clients \ {c} : req'[d] = req[d]
  BY <1>1
<1>4. /\ req'[c] # NoRequest => req'[c].run = r
      /\ req'[c].op = "retry" /\ req'[c].step = "submit"
      /\ req'[c].seen = q.seen /\ req'[c].full = q.full
  BY <1>1, <1>2, <1>3 DEF Request
<1>5. /\ \A x \in Runs : OwnRun(x)
      /\ row'[r] = new /\ \A x \in Runs \ {r} : row'[x] = row[x]
  BY <1>1, <1>2 DEF OwnInv
<1>6. \A x \in Runs \ {r} : OwnRun(x)'
  <2> HIDE DEF q, new
  <2> TAKE x \in Runs \ {r}
  <2> QED BY <1>1, <1>3, <1>4, <1>5, OwnUntouched DEF q
<1>7. \A d \in Clients \ {c} : req[d] # NoRequest => req[d].run # r
  BY <1>1 DEF OneRequestPerRun
<1>8. ~CancelPending(r) /\ ~CancelPending(r)'
  BY <1>1, <1>3, <1>4, <1>7 DEF CancelPending
<1>9. /\ Retryable(q.seen) /\ (~q.full => q.seen.parse = "SUCCEEDED")
      /\ q.seen.parse = "SUCCEEDED" => row[r].parse \notin Active /\ pc[r] # "claim"
      /\ q.seen.deid = "PENDING" /\ pc[r] = "dclaim" => row[r].deid \in Active
  BY <1>1, <1>2, <1>5 DEF OwnRun, SeenStands
<1>10. pc[r] = "dclaim" => deidWanted
  BY <1>2 DEF StageInv, DeidWork
<1>11. /\ q.full => new.parse = "PENDING"
       /\ ~q.full => new.parse = row[r].parse /\ new.deid = "PENDING"
       /\ q.full => \/ new.deid \in {"PENDING", "NOT_REQUESTED"}
                    \/ new.deid = row[r].deid
       /\ q.full /\ deidWanted => \/ new.deid = "PENDING"
                                  \/ q.seen.deid = "PENDING" /\ new.deid = row[r].deid
  BY <1>2, <1>9 DEF Flush, Reset, Retryable, Broken, Row
<1> HIDE DEF q, new
<1>12. Owned(r)' /\ HandedOver(r)' /\ FoundRunning(r)'
  BY <1>1, <1>2, <1>5, <1>8, <1>11 DEF OwnRun, Owned, HandedOver, FoundRunning
<1>13. ClaimsActive(r)'
  BY <1>1, <1>2, <1>5, <1>9, <1>10, <1>11 DEF OwnRun, ClaimsActive, Active
<1>14. \A d \in Clients : SeenStands(d, r)'
  BY <1>1, <1>3, <1>4, <1>7, <1>9 DEF SeenStands
<1> QED BY <1>1, <1>6, <1>12, <1>13, <1>14 DEF OwnInv, OwnRun

\* A cancellation makes every active column INTERRUPTED: those it did not see
\* active are still not.
LEMMA OwnCancelCommit ==
  ASSUME TypeOK, OwnInv, OneRequestPerRun, NEW c \in Clients, CancelCommit(c)
  PROVE  OwnInv'
<1> USE DEF TypeOK, StateOK
<1> DEFINE q == req[c]
<1> PICK r \in Runs : q # NoRequest /\ r = q.run
  BY RequestTypes DEF CancelCommit, InFlight
<1> DEFINE new == Flush(row[r], q.seen, Interrupt(q.seen))
<1>1. /\ server = "up" /\ server' = server /\ q.op = "cancel"
      /\ pc' = pc /\ task' = task /\ kind' = kind /\ cancelling' = cancelling
      /\ found' = found /\ row' = [row EXCEPT ![r] = new]
      /\ req' = [req EXCEPT ![c] = NoRequest]
  BY DEF CancelCommit, InFlight, tmVars, jobVars
<1>2. q.seen \in Row /\ row[r] \in Row
  BY <1>1, RequestTypes
<1>3. req'[c] = NoRequest /\ \A d \in Clients \ {c} : req'[d] = req[d]
  BY <1>1
<1>4. /\ \A x \in Runs : OwnRun(x)
      /\ row'[r] = new /\ \A x \in Runs \ {r} : row'[x] = row[x]
  BY <1>1, <1>2 DEF OwnInv
<1>5. \A x \in Runs \ {r} : OwnRun(x)'
  <2> HIDE DEF q, new
  <2> TAKE x \in Runs \ {r}
  <2> QED BY <1>1, <1>3, <1>4, OwnUntouched DEF q
<1>6. \A d \in Clients \ {c} : req[d] # NoRequest => req[d].run # r
  BY <1>1 DEF OneRequestPerRun
<1>7. /\ q.seen.parse \notin Active => row[r].parse \notin Active
      /\ q.seen.deid \notin Active => row[r].deid \notin Active
  BY <1>1, <1>2, <1>4 DEF OwnRun, SeenStands
<1>8. new.parse \notin Active /\ new.deid \notin Active
  BY <1>2, <1>7 DEF Flush, Interrupt, Active, Row
<1> HIDE DEF q, new
<1>9. Owned(r)' /\ HandedOver(r)' /\ FoundRunning(r)' /\ ClaimsActive(r)'
  BY <1>4, <1>8 DEF Owned, HandedOver, FoundRunning, ClaimsActive, Active
<1>10. \A d \in Clients : SeenStands(d, r)'
  BY <1>3, <1>6 DEF SeenStands
<1> QED BY <1>1, <1>5, <1>9, <1>10 DEF OwnInv, OwnRun

\* The calls into the TaskManager: submit() starts nothing that was running, and
\* cancel() is followed by a commit.
LEMMA OwnCalls ==
  ASSUME TypeOK, OwnInv, NEW c \in Clients, RetrySubmit(c) \/ CancelCall(c)
  PROVE  OwnInv'
<1> USE DEF TypeOK, StateOK, TM!TypeOK
<1>1. server = "up" /\ server' = server /\ req[c] # NoRequest /\ \A x \in Runs : OwnRun(x)
  BY DEF RetrySubmit, CancelCall, InFlight, OwnInv
<1>2. req[c] \in Request
  BY <1>1, RequestTypes
<1>3. CASE RetrySubmit(c)
  <2>1. /\ row' = row /\ pc' = pc /\ cancelling' = cancelling /\ found' = found
        /\ req[c].op = "retry" /\ req' = [req EXCEPT ![c] = NoRequest]
    BY <1>3 DEF RetrySubmit, SubmitJob, TM!Submit, InFlight
  <2>2. \A x \in Runs : task'[x] = "running" <=> task[x] = "running"
    BY <1>3 DEF RetrySubmit, SubmitJob, TM!Submit
  <2>3. \A x \in Runs : task[x] = "running" => kind'[x] = kind[x]
    BY <1>3 DEF RetrySubmit, SubmitJob
  <2>4. \A x \in Runs : CancelPending(x)' <=> CancelPending(x)
    BY <2>1 DEF CancelPending
  <2>5. \A x \in Runs : Owned(x)' /\ HandedOver(x)' /\ FoundRunning(x)' /\ ClaimsActive(x)'
    BY <1>1, <2>1, <2>2, <2>3, <2>4 DEF OwnRun, Owned, HandedOver, FoundRunning, ClaimsActive
  <2>6. \A x \in Runs, d \in Clients : SeenStands(d, x)'
    BY <1>1, <2>1 DEF OwnRun, SeenStands
  <2> QED BY <1>1, <2>5, <2>6 DEF OwnInv, OwnRun
<1>4. CASE CancelCall(c)
  <2>1. /\ row' = row /\ pc' = pc /\ kind' = kind /\ task' = task /\ found' = found
        /\ cancelling' \subseteq cancelling \cup {req[c].run}
        /\ req[c].op = "cancel" /\ req' = [req EXCEPT ![c].step = "commit"]
    BY <1>4 DEF CancelCall, TM!Cancel, InFlight, jobVars
  <2>2. /\ req'[c] \in Request /\ req'[c].run = req[c].run /\ req'[c].op = "cancel"
        /\ req'[c].seen = req[c].seen /\ req'[c].step = "commit"
        /\ req'[c] # NoRequest
        /\ \A d \in Clients \ {c} : req'[d] = req[d]
    BY <1>2, <1>4, <2>1, NoRequestAssumption DEF Request
  <2>3. \A x \in Runs : CancelPending(x) => CancelPending(x)'
    BY <2>2 DEF CancelPending
  <2>4. CancelPending(req[c].run)'
    BY <2>2 DEF CancelPending
  <2>5. \A x \in Runs : Owned(x)' /\ FoundRunning(x)' /\ ClaimsActive(x)'
    BY <1>1, <2>1, <2>3 DEF OwnRun, Owned, FoundRunning, ClaimsActive
  <2>6. \A x \in Runs : HandedOver(x)'
    BY <1>1, <2>1, <2>3, <2>4 DEF OwnRun, HandedOver
  <2>7. \A x \in Runs, d \in Clients : SeenStands(d, x)'
    BY <1>1, <2>1, <2>2 DEF OwnRun, SeenStands
  <2> QED BY <1>1, <2>5, <2>6, <2>7 DEF OwnInv, OwnRun
<1> QED BY <1>3, <1>4

LEMMA OwnNext ==
  ASSUME Env \cap {"db", "storage"} = {},
         TypeOK, StageInv, ClaimInv, OwnInv, OneRequestPerRun, [Next]_vars
  PROVE  OwnInv'
<1> USE DEF TypeOK, StateOK, TM!TypeOK
<1>1. CASE Create
  <2>1. /\ server' = server /\ task' = task /\ pc' = pc /\ cancelling' = cancelling
        /\ req' = req /\ kind' = kind /\ found' = found
    BY <1>1 DEF Create, tmVars, jobVars
  <2>2. \A c \in Clients : req[c] = NoRequest
    BY <1>1 DEF Create, StageInv
  <2>3. \A r \in Runs : row'[r].parse = "PENDING" /\ row'[r].deid \in {"PENDING", "NOT_REQUESTED"}
    BY <1>1 DEF Create
  <2>4. \A r \in Runs : pc[r] # "dclaim"
    BY <1>1 DEF Create, StageInv, DeidWork
  <2>5. \A r \in Runs : OwnRun(r)'
    BY <2>1, <2>2, <2>3, <2>4 DEF OwnRun, Owned, HandedOver, FoundRunning, ClaimsActive, SeenStands, Active
  <2> QED BY <1>1, <2>1, <2>2, <2>5 DEF OwnInv, Create
<1>2. CASE CreateSubmit
  <2>1. /\ server = "up" /\ server' = server /\ row' = row /\ pc' = pc /\ req' = req
        /\ cancelling' = cancelling /\ found' = found
    BY <1>2 DEF CreateSubmit, SubmitJob, TM!Submit
  <2>2. \A x \in Runs : /\ task'[x] = "running" <=> task[x] = "running"
                        /\ task[x] = "running" => kind'[x] = kind[x]
    BY <1>2 DEF CreateSubmit, SubmitJob, TM!Submit
  <2>3. \A x \in Runs : CancelPending(x)' <=> CancelPending(x)
    BY <2>1 DEF CancelPending
  <2>4. \A x \in Runs : OwnRun(x)'
    BY <2>1, <2>2, <2>3 DEF OwnInv, OwnRun, Owned, HandedOver, FoundRunning, ClaimsActive, SeenStands
  <2> QED BY <2>1, <2>4 DEF OwnInv
<1>3. ASSUME NEW c \in Clients,
             \/ \E op \in {"retry", "cancel"}, r \in Runs : Begin(c, op, r)
             \/ RequestStep(c) \/ RequestFails(c)
      PROVE  OwnInv'
  BY <1>3, OwnBegin, OwnRetryCommit, OwnCancelCommit, OwnCalls DEF RequestStep, RequestFails
<1>4. ASSUME NEW r \in Runs, JobStep(r) \/ JobDbFails(r) PROVE OwnInv'
  BY <1>4, OwnJob
<1>5. CASE Stop
  BY <1>5 DEF Stop, OwnInv
<1>6. CASE Stopped \/ Crash
  BY <1>6 DEF Stopped, Crash, Vanish, TM!Reset, OwnInv
<1>7. CASE Restart
  <2>1. /\ pc' = pc /\ req' = req /\ task' = task /\ cancelling' = cancelling
        /\ \A c \in Clients : req[c] = NoRequest
        /\ \A r \in Runs : pc[r] = "idle"
        /\ cancelling = {}
    BY <1>7 DEF Restart, OwnInv, tmVars, jobVars
  <2>2. \A r \in Runs : row'[r].parse # "RUNNING" /\ row'[r].deid # "RUNNING"
    BY <1>7 DEF Restart, Recovered
  <2>3. \A r \in Runs : OwnRun(r)'
    BY <2>1, <2>2 DEF OwnRun, Owned, HandedOver, FoundRunning, ClaimsActive, SeenStands
  <2> QED BY <1>7, <2>3 DEF OwnInv, Restart
<1>8. CASE UNCHANGED vars
  <2>1. \A x \in Runs : CancelPending(x)' <=> CancelPending(x)
    BY <1>8 DEF CancelPending, vars
  <2> QED BY <1>8, <2>1
       DEF vars, tmVars, jobVars, OwnInv, OwnRun, Owned, HandedOver, FoundRunning, ClaimsActive, SeenStands
<1> QED BY <1>1, <1>2, <1>3, <1>4, <1>5, <1>6, <1>7, <1>8 DEF Next

\* No zombie: as long as transactions and error.log writes succeed and requests
\* about one run do not overlap, what a live server shows as RUNNING has somebody
\* who will write it again, through every cancellation, retry, shutdown, crash
\* and restart (pipeline.py 50-55, 158-203, 227-325; main.py startup updates).
THEOREM RunningHasAnOwner ==
  ASSUME Env \cap {"db", "storage"} = {}
  PROVE  Spec /\ []OneRequestPerRun => []RunningIsOwned
<1>1. Init => OwnInv
  BY DEF Init, TM!Init, OwnInv, OwnRun, Owned, HandedOver, FoundRunning, Recorders, NewRow, ClaimsActive, SeenStands
<1>2. TypeOK /\ StageInv /\ ClaimInv /\ OwnInv /\ OneRequestPerRun /\ [Next]_vars => OwnInv'
  BY OwnNext
<1>3. OwnInv => RunningIsOwned
  BY DEF OwnInv, OwnRun, Owned, RunningIsOwned
<1>4. Spec => []StageInv
  BY StageIsInvariant
<1>5. Spec => []ClaimInv
  <2>1. Init => ClaimInv
    BY DEF Init, ClaimInv
  <2> QED BY <2>1, ClaimInductive, StateCorrect, PTL DEF Spec
<1> QED BY <1>1, <1>2, <1>3, <1>4, <1>5, SystemTypeCorrect, PTL DEF Spec

\* With one client, as in the run that checks the property, requests do not overlap.
COROLLARY RunningHasAnOwnerAlone ==
  ASSUME Env \cap {"db", "storage"} = {}, \A c, d \in Clients : c = d
  PROVE  Spec => []RunningIsOwned
<1>1. Init => OneRequestPerRun
  BY DEF OneRequestPerRun
<1>2. [Next]_vars => OneRequestPerRun'
  BY DEF OneRequestPerRun
<1> QED BY <1>1, <1>2, RunningHasAnOwner, PTL DEF Spec

-----------------------------------------------------------------------------
(* A final status is final *)

\* What the row of a run looks like at each position of its job while nobody
\* sends a request: only the job and the recovery write it.
Stands(r) ==
    /\ kind[r] = "run"
    /\ pc[r] = "claim" => row[r].parse = "PENDING"
    /\ pc[r] \in {"parse", "finish"} => row[r].parse = "RUNNING"
    /\ pc[r] \in {"fail", "failing"} =>
        \/ row[r].parse = "RUNNING"
        \/ row[r].parse = "SUCCEEDED" /\ row[r].deid = "RUNNING"
    /\ pc[r] = "dclaim" => row[r].parse = "SUCCEEDED" /\ row[r].deid = "PENDING"
    /\ pc[r] \in {"deid", "dfinish", "derror", "dfail", "dfailing"}
        => row[r].parse = "SUCCEEDED" /\ row[r].deid = "RUNNING"
    /\ pc[r] \in Recorders => found[r] = row[r]

Unstarted == \A r \in Runs : task[r] = "absent" /\ pc[r] = "idle"

QuietInv ==
    /\ \A r \in Runs : Stands(r)
    /\ server = "down" \/ experiment # "created" => Unstarted
    /\ experiment = "absent" => \A r \in Runs : row[r].parse = "PENDING"

\* Without a task there is no step of a job.
LEMMA UnstartedJob ==
  ASSUME Unstarted, NEW r \in Runs
  PROVE  ~JobStep(r) /\ ~JobDbFails(r)
BY DEF Unstarted, JobStep, JobDbFails, JobStart, JobWaits, JobDropped, JobCancelled, JobEnd,
   LoadRun, ClaimRun, ParseDocument, FinishRun, LoadRow, RecordFailure, LoadDeid, ClaimDeid,
   Deidentify, FinishDeid, SaveDeidError, RecordDeidFailure, MarkInterrupted, CloseSession,
   Ready, At, TM!StartJob, TM!Resume, TM!StartWaiting, TM!CancelUnstarted,
   TM!AbandonWait, TM!DeliverCancel

LEMMA StandsJob ==
  ASSUME "db" \notin Env, StateOK, NEW r \in Runs, Stands(r), JobStep(r) \/ JobDbFails(r)
  PROVE  Stands(r)'
<1> USE DEF StateOK
<1>1. kind' = kind /\ row[r] \in Row /\ pc[r] \in Locations
  BY JobEffect
<1>2. CASE JobStart(r) \/ JobWaits(r) \/ JobDropped(r) \/ JobEnd(r) \/ CloseSession(r)
  BY <1>1, <1>2 DEF Stands, Recorders, JobStart, JobWaits, JobDropped, JobEnd, CloseSession, Goto
<1>3. CASE JobCancelled(r)
  <2>1. pc'[r] \in {"mark", "dmark", "unwind"}
    BY <1>1, <1>3 DEF JobCancelled, Goto, Reraised, Locations, RunLocations, DeidLocations
  <2> QED BY <1>1, <2>1 DEF Stands, Recorders
<1>4. CASE LoadRun(r) \/ ParseDocument(r) \/ Deidentify(r) \/ SaveDeidError(r)
  BY <1>1, <1>4 DEF Stands, Recorders, LoadRun, ParseDocument, Deidentify, SaveDeidError, Escaped,
     Ready, At, Goto
<1>5. CASE LoadDeid(r)
  BY <1>1, <1>5 DEF Stands, Recorders, LoadDeid, Ready, At, Goto
<1>6. CASE ClaimRun(r) \/ FinishRun(r)
  BY <1>1, <1>6 DEF Stands, Recorders, ClaimRun, FinishRun, Ready, At, Goto, Commit, RowAfter, Row
<1>7. CASE ClaimDeid(r)
  BY <1>1, <1>7 DEF Stands, Recorders, ClaimDeid, Ready, At, Goto, Commit, RowAfter, Row
<1>8. CASE FinishDeid(r) \/ RecordFailure(r) \/ RecordDeidFailure(r) \/ MarkInterrupted(r)
  <2>1. pc'[r] \in {"close", "unwind", "mark"}
    BY <1>8 DEF FinishDeid, RecordFailure, RecordDeidFailure, MarkInterrupted, Reraised, Goto
  <2> QED BY <1>1, <2>1 DEF Stands, Recorders
<1>9. CASE LoadRow(r)
  <2>1. PICK loc \in DOMAIN Recording : pc[r] = loc /\ pc'[r] = Recording[loc]
    BY <1>9 DEF LoadRow, Ready, At, Goto
  <2>2. row' = row /\ found'[r] = row[r]
    BY <1>9 DEF LoadRow
  <2> QED BY <1>1, <2>1, <2>2 DEF Stands, Recorders, Recording
<1> QED BY <1>2, <1>3, <1>4, <1>5, <1>6, <1>7, <1>8, <1>9 DEF JobStep, JobDbFails

LEMMA QuietNext ==
  ASSUME Clients = {}, "db" \notin Env, StateOK, QuietInv, [Next]_vars
  PROVE  QuietInv'
<1> USE DEF StateOK
<1>1. CASE Create
  BY <1>1 DEF Create, QuietInv, Stands, Recorders, Unstarted, tmVars, jobVars
<1>2. CASE CreateSubmit
  BY <1>2 DEF CreateSubmit, SubmitJob, QuietInv, Stands, Recorders, Unstarted
<1>3. ASSUME NEW r \in Runs, JobStep(r) \/ JobDbFails(r) PROVE QuietInv'
  <2>1. server # "down" /\ experiment = "created"
    BY <1>3, UnstartedJob DEF QuietInv
  <2>2. UNCHANGED <<experiment, server, kind>>
    BY <1>3, JobEffect
  <2>3. Stands(r)'
    BY <1>3, StandsJob DEF QuietInv
  <2>4. ASSUME NEW x \in Runs \ {r} PROVE Stands(x)'
    <3>1. row'[x] = row[x] /\ pc'[x] = pc[x] /\ found'[x] = found[x]
      BY <1>3, JobParse
    <3> QED BY <2>2, <3>1 DEF QuietInv, Stands
  <2> QED BY <2>1, <2>2, <2>3, <2>4 DEF QuietInv
<1>4. CASE Stop
  BY <1>4 DEF Stop, TM!Shutdown, QuietInv, Stands, Recorders, Unstarted, jobVars
<1>5. CASE Stopped \/ Crash
  BY <1>5 DEF Stopped, Crash, Vanish, TM!Reset, QuietInv, Stands, Recorders, Unstarted
<1>6. CASE Restart
  BY <1>6 DEF Restart, Recovered, QuietInv, Stands, Recorders, Unstarted, tmVars, jobVars
<1>7. CASE UNCHANGED vars
  BY <1>7 DEF vars, tmVars, jobVars, QuietInv, Stands, Recorders, Unstarted
<1> QED BY <1>1, <1>2, <1>3, <1>4, <1>5, <1>6, <1>7 DEF Next

\* What calculate_experiment_status() looks at of one row.
Settled(r) == row[r].parse \notin Active /\ (row[r].parse = "SUCCEEDED" => row[r].deid \notin Active)

SameForStatus(r) ==
    row'[r].parse = row[r].parse /\ (row[r].parse = "SUCCEEDED" => row'[r].deid = row[r].deid)

LEMMA FinalStatus ==
  ASSUME ExperimentStatus \notin Active
  PROVE  (\A r \in Runs : Settled(r)) /\ (\E r \in Runs : row[r].parse # "PENDING")
<1> DEFINE parses == {row[r].parse : r \in Runs}
           deids == {row[r].deid : r \in {x \in Runs : row[x].parse = "SUCCEEDED"}}
<1>1. /\ ~(parses \subseteq {"PENDING"})
      /\ parses \cap Active = {}
      /\ "SUCCEEDED" \in parses => deids \cap Active = {}
  BY DEF ExperimentStatus, Active
<1> QED BY <1>1 DEF Settled

LEMMA StatusDepends ==
  ASSUME \A r \in Runs : SameForStatus(r)
  PROVE  ExperimentStatus' = ExperimentStatus
<1> DEFINE parses == {row[r].parse : r \in Runs}
           done == {x \in Runs : row[x].parse = "SUCCEEDED"}
           deids == {row[r].deid : r \in done}
<1>1. parses' = parses
  BY DEF SameForStatus
<1>2. done' = done
  BY DEF SameForStatus
<1>3. deids' = deids
  BY <1>2 DEF SameForStatus
<1> QED BY <1>1, <1>3 DEF ExperimentStatus

\* No step touches what the status of a finished experiment is computed from.
LEMMA SettledStays ==
  ASSUME Clients = {}, StateOK, QuietInv, [Next]_vars, ExperimentStatus \notin Active,
         NEW r \in Runs
  PROVE  SameForStatus(r)
<1>1. /\ \A x \in Runs : Settled(x)
      /\ \E x \in Runs : row[x].parse # "PENDING"
  BY FinalStatus
<1>2. ~Create
  BY <1>1 DEF Create, QuietInv
<1>3. CASE CreateSubmit \/ Stop \/ Stopped \/ Crash \/ UNCHANGED vars
  BY <1>3 DEF CreateSubmit, Stop, Stopped, Crash, Vanish, vars, SameForStatus
<1>4. CASE Restart
  BY <1>1, <1>4 DEF Restart, Recovered, Settled, SameForStatus, Active, StateOK
<1>5. ASSUME NEW x \in Runs, JobStep(x) \/ JobDbFails(x) PROVE SameForStatus(r)
  <2>1. row' = row \/ Commit(x)
    BY <1>5, JobEffect
  <2>2. CASE row' = row
    BY <2>2 DEF SameForStatus
  <2>3. CASE Commit(x) /\ x # r
    BY <2>3 DEF Commit, SameForStatus, StateOK
  <2>4. CASE Commit(x) /\ x = r
    <3>1. row'[r] = RowAfter(pc[r], row[r], found[r]) /\ row[r] \in Row /\ Stands(r) /\ Settled(r)
      BY <1>1, <2>4 DEF Commit, StateOK, QuietInv
    <3>2. /\ pc[r] \notin {"claim", "parse", "finish", "failing", "dclaim", "deid", "dfinish",
                           "derror", "dfailing"}
          /\ pc[r] \in {"marking", "dmarking"} => found[r] = row[r]
      BY <3>1 DEF Stands, Settled, Active, Recorders
    <3> QED BY <3>1, <3>2 DEF RowAfter, Flush, Interrupt, Settled, SameForStatus, Row
  <2> QED BY <2>1, <2>2, <2>3, <2>4
<1> QED BY <1>2, <1>3, <1>4, <1>5 DEF Next

\* The page that stopped polling shows what is stored for ever: an experiment
\* nobody sends requests about keeps a status that is not PENDING or RUNNING,
\* through failures of its parsers, of error.log, shutdowns and crashes
\* (experiment_service.py, calculate_experiment_status; ExperimentPage.tsx).
THEOREM FinalStatusIsFinal ==
  ASSUME Clients = {}, "db" \notin Env
  PROVE  Spec => PollingStopsForGood
<1>1. Init => QuietInv
  BY DEF Init, TM!Init, QuietInv, Stands, Recorders, NewRow, Unstarted
<1>2. StateOK /\ QuietInv /\ [Next]_vars => QuietInv'
  BY QuietNext
<1>3. StateOK /\ QuietInv /\ [Next]_vars =>
        (ExperimentStatus \notin Active => ExperimentStatus' = ExperimentStatus)
  BY SettledStays, StatusDepends
<1> QED BY <1>1, <1>2, <1>3, StateCorrect, PTL DEF Spec, PollingStopsForGood
=============================================================================
