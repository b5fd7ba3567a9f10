----------------------------- MODULE MCServices -----------------------------
(***************************************************************************)
(* Model checking of the services that do not take part in a run, and of   *)
(* the research scripts.  They share no state while they work, so that one *)
(* run checks them side by side: a behaviour is one of the modules at      *)
(* work, and the others at rest.                                           *)
(***************************************************************************)
EXTENDS Pilot

CONSTANTS
    Clients, EvaluatedRuns,                       \* Evaluations, Accounts
    Emails, MockEntries, LocalEntries, SynapEntries, OtherEntries, MaxChanges,  \* Accounts
    DocumentRuns, Uploads, Recomputes,            \* GroundTruths
    Payloads, RunnerConfigs, Answers, Overhead,   \* PipelineRunner
    CaseBlocks, CaseEdits,                        \* Repairs
    Families, Scale,                              \* BenchmarkMetrics
    Letters, MaxLength, Precision,                \* TextDiff
    MaxChunks, MaxVersion                         \* Documents, SqliteSnapshot

\* An experiment has finitely many runs; a request has one purpose and is no run,
\* and none is a mark for a version that is missing or was not read.
ASSUME EvaluatedAssumption == IsFiniteSet(EvaluatedRuns)
ASSUME UploadsAssumption ==
    /\ Uploads \cap Recomputes = {} /\ (Uploads \cup Recomputes) \cap DocumentRuns = {}
    /\ (Uploads \cup Recomputes \cup DocumentRuns) \cap {"none", "unread", "same"} = {}
ASSUME BoundsAssumption ==
    {MaxChunks, MaxVersion, MaxLength, MaxChanges} \subseteq Nat /\ Precision \in Nat \ {0}

\* Payloads are JSON, settings were read by RunnerConfig.load(), texts are strings.
IsList(s) == Len(s) \in Nat /\ DOMAIN s = 1..Len(s) /\ s = [i \in DOMAIN s |-> s[i]]
ASSUME InputsAssumption ==
    /\ \A p \in Payloads : /\ IsList(p.blocks) /\ IsList(p.questions)
                           /\ \A i \in DOMAIN p.blocks : IsList(p.blocks[i].text)
    /\ \A c \in RunnerConfigs :
          {c.limit, c.size, c.overlap, c.top_k, c.max_calls, c.retries} \subseteq Int
    /\ \A t \in Answers : IsList(t)
    /\ Overhead \in Nat

\* Texts of a case are strings, here sequences of characters; offsets count from 0.
ASSUME CasesAssumption ==
    /\ \A blocks \in CaseBlocks : \A b \in DOMAIN blocks : blocks[b] \in Seq(STRING)
    /\ \A e \in CaseEdits : e.start \in Nat /\ e.end \in Nat /\ e.after \in Seq(STRING)

\* Documents as the evaluator reads them: texts of characters; boxes that _bbox()
\* accepts; cells with row, column and spans.
IsBlock(b) ==
    /\ {b.page, b.order} \subseteq Int /\ b.text \in Seq(STRING)
    /\ \/ b.bbox = <<>>
       \/ b.bbox \in [1..4 -> Int] /\ b.bbox[1] <= b.bbox[3] /\ b.bbox[2] <= b.bbox[4]
    /\ IsList(b.cells)
    /\ \A c \in DOMAIN b.cells : b.cells[c].key \in [1..4 -> Int] /\ b.cells[c].text \in Seq(STRING)
IsDocument(d) ==
    /\ d.text \in Seq(STRING) /\ IsFiniteSet(d.entities)
    /\ IsList(d.blocks) /\ \A k \in DOMAIN d.blocks : IsBlock(d.blocks[k])
ASSUME DocumentsAssumption ==
    /\ \A family \in Families : \A d \in family : IsDocument(d)
    /\ Scale \in Nat \ {0}

SeqsUpTo(S, n) == UNION {[1..k -> S] : k \in 0..n}

-----------------------------------------------------------------------------
(* PipelineRunner: inputs with an empty, a long and a foreign block, and every *)
(* text of up to five characters; settings on each side of each limit.         *)

Block(id, document, text) == [id |-> id, document |-> document, text |-> text]
Question(id, document) == [id |-> id, document |-> document]
Words(n) == [k \in 1..n |-> "x"]

SamplePayloads ==
    {[blocks |-> <<Block("b1", "d1", Words(5)), Block("b2", "d1", <<>>), Block("b3", "d1", Words(1))>>,
      questions |-> <<Question("q1", "d1"), Question("q2", "d1")>>],
     [blocks |-> <<Block("b1", "d1", Words(1)), Block("b2", "d1", Words(2))>>,
      questions |-> <<Question("q1", "d1")>>],
     [blocks |-> <<Block("b1", "d1", Words(1))>>, questions |-> <<Question("q1", "d2")>>],
     [blocks |-> <<Block("b1", "d1", Words(1)), Block("b1", "d1", Words(2))>>,
      questions |-> <<Question("q1", "d1")>>]}
    \cup {[blocks |-> <<Block("b1", "d1", t)>>, questions |-> <<Question("q1", "d1")>>] :
             t \in SeqsUpTo({"x", "nl"}, 5)}

\* What the model writes: words, line breaks, and markers of blocks near and far.
SampleAnswers == {<<"x">>, <<"nl", "nl">>, <<"x", "nl", "x", "x", "nl">>,
                  <<"[", "b1", "x", "[", "b3">>, <<"x", "[", "b1", "nl", "[", "b2", "x">>}

Model == [mode |-> "model", limit |-> 4, size |-> 3, overlap |-> 1, top_k |-> 2,
          max_calls |-> 5, retries |-> 1, sampling |-> {}, model |-> "m",
          provider |-> "openai_responses", api_key |-> TRUE, loopback |-> FALSE]
Ollama == [Model EXCEPT !.provider = "ollama_generate", !.api_key = FALSE, !.loopback = TRUE]
NoModel == [Model EXCEPT !.mode = "passthrough", !.retries = 0]
SampleConfigs ==
    {Model, Ollama, [Ollama EXCEPT !.loopback = FALSE], [Model EXCEPT !.model = "none"],
     [Model EXCEPT !.sampling = {"temperature", "top_p"}],
     [Model EXCEPT !.limit = 8, !.retries = 0], [Model EXCEPT !.max_calls = 1],
     [Model EXCEPT !.overlap = 3], [NoModel EXCEPT !.overlap = 0],
     [NoModel EXCEPT !.size = 1, !.overlap = 0], [NoModel EXCEPT !.size = 4, !.overlap = 3],
     [NoModel EXCEPT !.size = 2]}

-----------------------------------------------------------------------------
(* Pilot and Repairs *)

Order == <<"baseline", "no_op", "A", "B", "AB">>
Orders == {Order, <<"AB", "A", "baseline", "B", "no_op">>}

\* Two candidate edits anywhere in two short blocks, shorter or longer than before.
SampleBlocks == {[b1 |-> t, b2 |-> <<"x", "y">>] : t \in {<<"x", "y", "x">>, <<"x", "x", "y">>}}
SampleEdits == [block : {"b1", "b2"}, start : 0..2, end : 1..3,
                after : {<<>>, <<"y">>, <<"x", "x">>, <<"y", "x", "y">>}]

-----------------------------------------------------------------------------
(* BenchmarkMetrics: each family varies what one metric reads. *)

Element(type, box, order, text, cells) ==
    [page |-> 1, type |-> type, bbox |-> box, order |-> order, text |-> text, cells |-> cells]
Document(text, blocks, entities) == [text |-> text, blocks |-> blocks, entities |-> entities]

Formula(text) == Element("formula", <<>>, -1, text, <<>>)
TextDocuments ==
    {Document(t, <<Formula(t)>>, {}) :
        t \in {<<>>, <<"a">>, <<"b">>, <<"a", "b">>, <<"b", "b", "a">>,
               <<"a", "c", "c">>, <<"a", "b", "c">>}}
    \cup {Document(<<>>, <<Formula(<<>>), Formula(<<"a">>)>>, {})}

\* Boxes that overlap in part, contain one another, or are empty.
Box(b) == Element("text", b, -1, <<>>, <<>>)
Boxes == {<<0, 0, 2, 2>>, <<0, 0, 3, 2>>, <<1, 0, 3, 2>>, <<0, 0, 0, 2>>}
LayoutDocuments ==
    {Document(<<>>, bs, {}) : bs \in SeqsUpTo({Box(b) : b \in Boxes}, 2)}
    \cup {Document(<<>>, <<Box(<<0, 0, 2, 2>>), Box(<<0, 0, 3, 2>>), Box(<<1, 0, 3, 2>>)>>, {})}

\* Tables with cells out of order, twice at one place, or missing.
Cell(row, column, text) == [key |-> <<row, column, 1, 1>>, text |-> text]
Table(cells) == Element("table", <<>>, -1, <<>>, cells)
CellLists ==
    {<<>>, <<Cell(0, 0, <<"a">>)>>,
     <<Cell(0, 0, <<"a", "b">>), Cell(0, 1, <<"b">>)>>,
     <<Cell(0, 0, <<"b">>), Cell(0, 1, <<"a">>), Cell(1, 0, <<"a">>)>>,
     <<Cell(0, 0, <<"a">>), Cell(0, 0, <<"b">>)>>,
     <<Cell(1, 0, <<"a">>), Cell(1, 1, <<"b", "a">>), Cell(0, 1, <<"a">>)>>}
TableDocuments ==
    {Document(<<>>, <<Table(cells)>>, {}) : cells \in CellLists}
    \cup {Document(<<>>, <<>>, {}),
          Document(<<>>, <<Table(<<Cell(0, 0, <<"a">>)>>), Table(<<Cell(0, 0, <<"b">>)>>)>>, {})}

\* Blocks with equal, contained and no texts, numbered, not numbered or null.
Paragraph(order, text) == Element("text", <<>>, order, text, <<>>)
OrderDocuments ==
    {Document(<<>>, <<Paragraph(o[1], t[1]), Paragraph(o[2], t[2]), Paragraph(-1, t[3])>>, {}) :
        o \in {<<-1, -1>>, <<2, 1>>, <<1, 1>>}, t \in [1..3 -> {<<"a">>, <<"a", "b">>, <<>>}]}
    \cup {Document(<<>>, <<Paragraph(-2, <<"a">>), Paragraph(o, t)>>, {}) :
             o \in {-2, -1, 1}, t \in {<<"a">>, <<"a", "b">>}}

PiiDocuments == {Document(<<>>, <<>>, es) : es \in SUBSET {"e1", "e2", "e3"}}

SampleFamilies == {TextDocuments, LayoutDocuments, TableDocuments, OrderDocuments, PiiDocuments}

-----------------------------------------------------------------------------
VARIABLES
    part,                                                              \* the module at work
    rows, tx, todo, wrote,                                             \* Evaluations
    users, signup, connectors, settings, touched, renamed, changes,    \* Accounts
    file, row, holder, finished, evals, at, pending, seen, flushed, alone, disturbed,  \* GroundTruths
    payload, config, batches, current, current_chars, stage, index, text, start, chunks,
    answers, tries, calls,                                             \* PipelineRunner
    given, case,                                                       \* Repairs
    ground_truth, prediction, metrics,                                 \* BenchmarkMetrics
    mode, base, target, base_start, target_start, part_type, parts, diff,  \* TextDiff
    upload, stored, progress, thrown, saved, doubtful, left,           \* Documents
    live, snapshot, temporary, operation, step, damaged                \* SqliteSnapshot

Evaluation == INSTANCE Evaluations WITH Runs <- EvaluatedRuns, Rated <- EvaluatedRuns
Account == INSTANCE Accounts WITH Mocks <- MockEntries, Locals <- LocalEntries,
                                  Synap <- SynapEntries, Others <- OtherEntries
Truth == INSTANCE GroundTruths WITH Runs <- DocumentRuns, Requests <- Uploads, todo <- pending,
                                 done <- finished
Runner == INSTANCE PipelineRunner WITH Configs <- RunnerConfigs, Texts <- Answers
Repair == INSTANCE Repairs WITH Blocks <- CaseBlocks, Edits <- CaseEdits
Metric == INSTANCE BenchmarkMetrics
Diff == INSTANCE TextDiff
Uploading == INSTANCE Documents WITH chunks <- progress, raised <- thrown
Snapshot == INSTANCE SqliteSnapshot

evaluation == <<rows, tx, todo, wrote>>
account == <<users, signup, connectors, settings, touched, renamed, changes>>
truth == <<file, row, holder, finished, evals, at, pending, seen, flushed, alone, disturbed>>
runner == <<payload, config, batches, current, current_chars, stage, index, text, start, chunks,
            answers, tries, calls>>
study == <<process, disk, scored>>
repair == <<given, case>>
metric == <<ground_truth, prediction, metrics>>
textdiff == <<mode, base, target, base_start, target_start, part_type, parts, diff>>
files == <<upload, stored, progress, thrown, saved, doubtful, left,
           live, snapshot, temporary, operation, step, damaged>>
allVars == <<part, evaluation, account, truth, runner, study, repair, metric, textdiff, files>>

AtRest == "at rest"

AllInit ==
    /\ part \in {"evaluations", "accounts", "truths", "runner", "pilot", "repairs",
                 "metrics", "diff", "documents", "snapshot"}
    /\ IF part = "evaluations" THEN Evaluation!Init
       ELSE rows = AtRest /\ tx = AtRest /\ todo = AtRest /\ wrote = AtRest
    /\ IF part = "accounts" THEN Account!Init
       ELSE /\ users = AtRest /\ signup = AtRest /\ connectors = AtRest
            /\ settings = AtRest /\ touched = AtRest /\ renamed = AtRest /\ changes = AtRest
    /\ IF part = "truths" THEN Truth!Init
       ELSE /\ file = AtRest /\ row = AtRest /\ holder = AtRest /\ finished = AtRest
            /\ evals = AtRest /\ at = AtRest /\ pending = AtRest /\ seen = AtRest
            /\ flushed = AtRest /\ alone = AtRest /\ disturbed = AtRest
    /\ IF part = "runner" THEN Runner!Init
       ELSE /\ payload = AtRest /\ config = AtRest /\ batches = AtRest /\ current = AtRest
            /\ current_chars = AtRest /\ stage = AtRest
            /\ index = AtRest /\ text = AtRest /\ start = AtRest /\ chunks = AtRest
            /\ answers = AtRest /\ tries = AtRest /\ calls = AtRest
    /\ Init /\ (part # "pilot" => shuffle = [r \in 0..(Repeats - 1) |-> Order])
    /\ IF part = "repairs" THEN Repair!Init ELSE given = AtRest /\ case = AtRest
    /\ IF part = "metrics" THEN Metric!Init
       ELSE ground_truth = AtRest /\ prediction = AtRest /\ metrics = AtRest
    /\ IF part = "diff" THEN Diff!Init
       ELSE /\ mode = AtRest /\ base = AtRest /\ target = AtRest /\ base_start = AtRest
            /\ target_start = AtRest /\ part_type = AtRest /\ parts = AtRest /\ diff = AtRest
    /\ IF part = "documents" THEN Uploading!Init
       ELSE /\ upload = AtRest /\ stored = AtRest /\ progress = AtRest /\ thrown = AtRest
            /\ saved = AtRest /\ doubtful = AtRest /\ left = AtRest
    /\ IF part = "snapshot" THEN Snapshot!Init
       ELSE /\ live = AtRest /\ snapshot = AtRest /\ temporary = AtRest
            /\ operation = AtRest /\ step = AtRest /\ damaged = AtRest

RunnerSteps ==
    /\ part = "runner" /\ Runner!Progress
    /\ UNCHANGED <<part, evaluation, account, truth, study, repair, metric, textdiff, files>>

AllNext ==
    \/ part = "evaluations" /\ Evaluation!Next
         /\ UNCHANGED <<part, account, truth, runner, study, repair, metric, textdiff, files>>
    \/ part = "accounts" /\ Account!Next
         /\ UNCHANGED <<part, evaluation, truth, runner, study, repair, metric, textdiff, files>>
    \/ part = "truths" /\ Truth!Next
         /\ UNCHANGED <<part, evaluation, account, runner, study, repair, metric, textdiff, files>>
    \/ RunnerSteps
    \/ part = "pilot" /\ Next
         /\ UNCHANGED <<part, evaluation, account, truth, runner, repair, metric, textdiff, files>>
    \/ part = "repairs" /\ Repair!Next
         /\ UNCHANGED <<part, evaluation, account, truth, runner, study, metric, textdiff, files>>
    \/ part = "metrics" /\ Metric!Next
         /\ UNCHANGED <<part, evaluation, account, truth, runner, study, repair, textdiff, files>>
    \/ part = "diff" /\ Diff!Next
         /\ UNCHANGED <<part, evaluation, account, truth, runner, study, repair, metric, files>>
    \/ part = "documents" /\ Uploading!Next
         /\ UNCHANGED <<part, evaluation, account, truth, runner, study, repair, metric, textdiff,
                        live, snapshot, temporary, operation, step, damaged>>
    \/ part = "snapshot" /\ Snapshot!Next
         /\ UNCHANGED <<part, evaluation, account, truth, runner, study, repair, metric, textdiff,
                        upload, stored, progress, thrown, saved, doubtful, left>>

AllSpec == AllInit /\ [][AllNext]_allVars /\ WF_allVars(RunnerSteps)

-----------------------------------------------------------------------------
\* Evaluations: of runs that are rated, one is preferred at most.
OnePreferred == part = "evaluations" => Evaluation!OnePreferred

\* Accounts: one administrator signs up.
OneFirstAdmin == part = "accounts" => Account!OneFirstAdmin

\* Accounts: a start of the server repeats no seeding.
SeedingIsIdempotent == [][part = "accounts" /\ Account!Start => Account!SeedingChanges]_allVars

\* GroundTruths: evaluations follow the file.
EvaluationsMatchFile == part = "truths" => Truth!EvaluationsMatchFile

\* PipelineRunner: batches and chunks keep every character, within their limits.
TextIsKept == part = "runner" => Runner!ChunksCover /\ Runner!BatchesKeepText

\* PipelineRunner: a completed execution is accepted and made the announced calls.
ResponseAccepted == part = "runner" => Runner!ResponseAccepted

\* PipelineRunner: every execution ends.
PipelineEnds == part = "runner" => Runner!PipelineEnds

\* Of Pilot: StudyIsSound.

\* Repairs: injected corruptions are taken back by their repairs.
RepairsInvert == part = "repairs" => Repair!RepairsInvert

\* BenchmarkMetrics: scores lie in 0..1, and are what they claim.
MetricsSound ==
    part = "metrics" =>
        /\ Metric!ScoresInUnit /\ Metric!PerfectScoresOne /\ Metric!ContentNeverHelps
        /\ Metric!LayoutIsMatched /\ Metric!RowDistanceIsLeast

\* TextDiff: both texts can be rebuilt from a diff, and the similarity fits it.
DiffRebuilds == part = "diff" => Diff!DiffRebuilds

\* Documents and SqliteSnapshot: no row without its file, no snapshot that cannot
\* be restored, wherever an upload, a backup or a restore is stopped.
FilesAreWhole ==
    /\ part = "documents" => Uploading!RowsHaveFiles
    /\ part = "snapshot" => Snapshot!SnapshotUsable
=============================================================================
