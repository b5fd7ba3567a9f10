------------------------------- MODULE Pilot -------------------------------
(***************************************************************************)
(* The paired-repair pilot (research/pilot.py): run_case() executes every  *)
(* condition of every repeat once, in shuffled order, through an external  *)
(* runner, and keeps manifest.json, frozen_case.json and records.jsonl in  *)
(* a directory of its own; load_complete_run() decides whether a directory *)
(* may be scored, and score() counts what each condition recovered.        *)
(*                                                                         *)
(* Processes may be interrupted (KeyboardInterrupt) or killed between any  *)
(* two steps; a file being written when its process ends is torn.  Every   *)
(* process has a case of its own, which stands for the digests of the case *)
(* and of the payloads made from it.                                       *)
(***************************************************************************)
EXTENDS Integers, FiniteSets, Sequences

CONSTANTS
    Processes,  \* "pilot run" commands that were given the same --out
    Repeats,    \* --repeats
    Shuffles,   \* orders the conditions may be shuffled into
    Questions   \* of the case

VARIABLES
    shuffle,   \* the order of each repeat; the case and the repeat determine it
    pc,        \* per process, where it stands
    done,      \* per process, the conditions begun in this repeat
    repeat,    \* per process, the repeat at work
    memory,    \* per process, its manifest
    active,    \* per process, the condition at work
    manifest,  \* manifest.json: [status, completed, case]; status also "absent" or "torn"
    frozen,    \* frozen_case.json: [status, case], "absent", "torn" or "whole"
    records,   \* records.jsonl, by line: [repeat, condition, case, execution_id, text]
    directory, \* --out exists
    stream,    \* records.jsonl exists
    scored     \* what score() made of the judgments: [correct, net, interaction]

process == <<shuffle, pc, done, repeat, memory, active>>
disk == <<manifest, frozen, records, directory, stream>>
vars == <<process, disk, scored>>

\* The repairs a condition applies.
CONDITIONS == [baseline |-> {}, no_op |-> {}, A |-> {"A"}, B |-> {"B"}, AB |-> {"A", "B"}]
Conditions == DOMAIN CONDITIONS
None == "none"
Unscored == [correct |-> <<>>, net |-> <<>>, interaction |-> 0]
Running(p) == [status |-> "running", completed |-> 0, case |-> p]
Damaged(status) == [status |-> status, completed |-> 0, case |-> None]

Init ==
    /\ shuffle \in [0..(Repeats - 1) -> Shuffles]
    /\ pc = [p \in Processes |-> "check"]
    /\ done = [p \in Processes |-> 0]
    /\ repeat = [p \in Processes |-> 0]
    /\ memory = [p \in Processes |-> Running(p)]
    /\ active = [p \in Processes |-> None]
    /\ manifest = Damaged("absent") /\ frozen = [status |-> "absent", case |-> None]
    /\ records = <<>> /\ directory = FALSE /\ stream = FALSE
    /\ scored = Unscored

Go(p, step) == pc' = [pc EXCEPT ![p] = step]
Remember(p, m) == memory' = [memory EXCEPT ![p] = m]

\* main(): an output that exists is refused.
Check(p) ==
    /\ pc[p] = "check"
    /\ Go(p, IF directory THEN "ended" ELSE "mkdir")
    /\ UNCHANGED <<shuffle, done, repeat, memory, active, disk, scored>>

\* out.mkdir(exist_ok=False)
MakeDirectory(p) ==
    /\ pc[p] = "mkdir"
    /\ directory' = TRUE
    /\ Go(p, IF directory THEN "ended" ELSE "manifest")
    /\ UNCHANGED <<shuffle, done, repeat, memory, active, manifest, frozen, records, stream, scored>>

WriteManifest(p) == manifest' = memory[p]

FirstManifest(p) ==
    /\ pc[p] = "manifest"
    /\ WriteManifest(p)
    /\ Go(p, "freeze")
    /\ UNCHANGED <<shuffle, done, repeat, memory, active, frozen, records, directory, stream, scored>>

Freeze(p) ==
    /\ pc[p] = "freeze"
    /\ frozen' = [status |-> "whole", case |-> p]
    /\ Go(p, "open")
    /\ UNCHANGED <<shuffle, done, repeat, memory, active, manifest, records, directory, stream, scored>>

\* open("x") refuses a file that exists.
OpenRecords(p) ==
    /\ pc[p] = "open"
    /\ stream' = TRUE
    /\ IF stream THEN Remember(p, [memory[p] EXCEPT !.status = "failed"]) /\ Go(p, "finally")
       ELSE UNCHANGED memory /\ Go(p, "choose")
    /\ UNCHANGED <<shuffle, done, repeat, active, manifest, frozen, records, directory, scored>>

\* The next condition of the shuffled order; the manifest names it.
Choose(p) ==
    /\ pc[p] = "choose" /\ repeat[p] < Repeats /\ done[p] < Len(shuffle[repeat[p]])
    /\ active' = [active EXCEPT ![p] = shuffle[repeat[p]][done[p] + 1]]
    /\ done' = [done EXCEPT ![p] = @ + 1]
    /\ WriteManifest(p)
    /\ Go(p, "call")
    /\ UNCHANGED <<shuffle, repeat, memory, frozen, records, directory, stream, scored>>

NextRepeat(p) ==
    /\ pc[p] = "choose" /\ repeat[p] < Repeats /\ done[p] = Len(shuffle[repeat[p]])
    /\ repeat' = [repeat EXCEPT ![p] = @ + 1]
    /\ done' = [done EXCEPT ![p] = 0]
    /\ UNCHANGED <<shuffle, pc, memory, active, disk, scored>>

\* The runner returned an answer to every question (validate_response()).
CallReturns(p) ==
    /\ pc[p] = "call"
    /\ Go(p, "record")
    /\ UNCHANGED <<shuffle, done, repeat, memory, active, disk, scored>>

\* Mutant of CallFails: the failed condition is left out and the run goes on.
CallFailsAlone(p) ==
    /\ pc[p] = "call"
    /\ Go(p, "choose")
    /\ UNCHANGED <<shuffle, done, repeat, memory, active, disk, scored>>

\* A time-out, an exit code, no JSON, or an invalid response: the run has failed.
CallFails(p) ==
    /\ pc[p] = "call"
    /\ Remember(p, [memory[p] EXCEPT !.status = "failed"])
    /\ Go(p, "finally")
    /\ UNCHANGED <<shuffle, done, repeat, active, disk, scored>>

\* A line of records.jsonl; execution_id is new (uuid4).
Line(p, written) ==
    Append(records, [repeat |-> repeat[p], condition |-> active[p], case |-> p,
                     execution_id |-> Len(records) + 1, text |-> written])

\* The record is written and flushed before it is counted.  dumps(ensure_ascii=False)
\* keeps a U+0085, U+2028 or U+2029 of the answers or of the case's name as it is.
Record(p) ==
    /\ pc[p] = "record"
    /\ \E written \in {"plain", "separator"} : records' = Line(p, written)
    /\ Go(p, "count")
    /\ UNCHANGED <<shuffle, done, repeat, memory, active, manifest, frozen, directory, stream, scored>>

\* A disk that is full tears the line and fails the run.
RecordFails(p) ==
    /\ pc[p] = "record"
    /\ records' = Line(p, "torn")
    /\ Remember(p, [memory[p] EXCEPT !.status = "failed"])
    /\ Go(p, "finally")
    /\ UNCHANGED <<shuffle, done, repeat, active, manifest, frozen, directory, stream, scored>>

Count(p) ==
    /\ pc[p] = "count"
    /\ LET m == [memory[p] EXCEPT !.completed = @ + 1] IN Remember(p, m) /\ manifest' = m
    /\ Go(p, "choose")
    /\ UNCHANGED <<shuffle, done, repeat, active, frozen, records, directory, stream, scored>>

\* records.jsonl is closed; the manifest is complete in memory.
Finish(p) ==
    /\ pc[p] = "choose" /\ repeat[p] = Repeats
    /\ Remember(p, [memory[p] EXCEPT !.status = "complete"])
    /\ Go(p, "finally")
    /\ UNCHANGED <<shuffle, done, repeat, active, disk, scored>>

Finally(p) ==
    /\ pc[p] = "finally"
    /\ WriteManifest(p)
    /\ Go(p, "ended")
    /\ UNCHANGED <<shuffle, done, repeat, memory, active, frozen, records, directory, stream, scored>>

\* Ctrl-C between two steps: before the try statement the process just ends.
Interrupt(p) ==
    /\ pc[p] \notin {"ended", "check"}
    /\ IF pc[p] \in {"open", "choose", "call", "record", "count"}
       THEN Remember(p, [memory[p] EXCEPT !.status = "interrupted"]) /\ Go(p, "finally")
       ELSE UNCHANGED memory /\ Go(p, "ended")
    /\ UNCHANGED <<shuffle, done, repeat, active, disk, scored>>

\* The process is killed, or interrupted in a write: what it was writing is torn.
Kill(p) ==
    /\ pc[p] \notin {"ended", "check"}
    /\ Go(p, "ended")
    /\ manifest' = IF pc[p] \in {"manifest", "choose", "count", "finally"}
                   THEN Damaged("torn") ELSE manifest
    /\ frozen' = IF pc[p] = "freeze" THEN [status |-> "torn", case |-> None] ELSE frozen
    /\ records' = IF pc[p] = "record" THEN Line(p, "torn") ELSE records
    /\ UNCHANGED <<shuffle, done, repeat, memory, active, directory, stream, scored>>

Expected == (0..(Repeats - 1)) \X Conditions
Actual == [k \in DOMAIN records |-> <<records[k].repeat, records[k].condition>>]

\* read_jsonl(): splitlines() also splits at the separators that a line holds, and
\* what is left of a record then, as of a torn one, is no JSON.
Readable == \A k \in DOMAIN records : records[k].text = "plain"

\* The checks of load_complete_run() on what was read: the frozen case is the one
\* that was run, every condition of every repeat is there once, no execution has
\* the name of another, and the payloads are those of the frozen case.  A response
\* that is read back is the one that was digested, and was valid for its payload.
RecordsFit ==
    /\ frozen.status = "whole" /\ frozen.case = manifest.case
    /\ \A k, l \in DOMAIN records : Actual[k] = Actual[l] => k = l
    /\ {Actual[k] : k \in DOMAIN records} = Expected
    /\ \A k, l \in DOMAIN records : records[k].execution_id = records[l].execution_id => k = l
    /\ \A k \in DOMAIN records : records[k].case = frozen.case

\* load_complete_run() accepts the directory.
Loadable == manifest.status = "complete" /\ Readable /\ RecordsFit

Net(recovered, regressed) == Cardinality(recovered) - Cardinality(regressed)

\* recovered_question_ids less regressed_question_ids.
NetRecovery(base, current) == Net(current \ base, base \ current)

\* score() of a run that loads: the judgments say which answers of one repeat are correct.
Score(correct) ==
    /\ LET net == [c \in Conditions |-> NetRecovery(correct["baseline"], correct[c])] IN
       scored' = [correct |-> correct, net |-> net,
                  interaction |-> net["AB"] - net["A"] - net["B"]]
    /\ UNCHANGED <<process, disk>>

Next ==
    \/ \E p \in Processes :
         \/ Check(p) \/ MakeDirectory(p) \/ FirstManifest(p) \/ Freeze(p) \/ OpenRecords(p)
         \/ Choose(p) \/ NextRepeat(p) \/ CallReturns(p) \/ CallFails(p) \/ Record(p) \/ RecordFails(p) \/ Count(p)
         \/ Finish(p) \/ Finally(p) \/ Interrupt(p) \/ Kill(p)
    \/ Loadable /\ scored = Unscored /\ \E correct \in [Conditions -> SUBSET Questions] : Score(correct)

Spec == Init /\ [][Next]_vars

-----------------------------------------------------------------------------
TypeOK ==
    /\ manifest.status \in {"absent", "torn", "running", "complete", "failed", "interrupted"}
    /\ frozen.status \in {"absent", "torn", "whole"} /\ {directory, stream} \subseteq BOOLEAN
    /\ \A p \in Processes : done[p] \in Nat /\ repeat[p] \in 0..Repeats

\* Of a run whose manifest says complete, every condition of every repeat was
\* recorded once, counted and not torn, for the case that was frozen, and the run
\* loads unless a record holds a separator of lines; a manifest never counts a
\* call whose record is missing or torn, wherever the process was stopped.
CompleteRunLoads ==
    /\ manifest.status = "complete" =>
          /\ RecordsFit /\ manifest.completed = Len(records)
          /\ Loadable \/ \E k \in DOMAIN records : records[k].text = "separator"
    /\ manifest.completed <= Cardinality({k \in DOMAIN records : records[k].text # "torn"})

Correct(c) == Cardinality(scored.correct[c])

\* G(S) = correct(S) - correct(baseline), as the report defines it, and the
\* interaction is what A and B recover together beyond what each does alone.
NetRecoveryIsDifference ==
    scored # Unscored =>
        /\ \A c \in Conditions : scored.net[c] = Correct(c) - Correct("baseline")
        /\ scored.interaction = Correct("AB") - Correct("A") - Correct("B") + Correct("baseline")

\* What a report of the pilot rests on: the runs it may score are complete, and its
\* counts are the differences it calls them.
StudyIsSound == CompleteRunLoads /\ NetRecoveryIsDifference
=============================================================================
