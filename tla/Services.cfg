SPECIFICATION AllSpec
CONSTANTS
    Clients = {c1, c2}
    EvaluatedRuns = {e1, e2, e3}
    Emails = {mail1, mail2}
    MockEntries = {mock}
    LocalEntries = {paddle}
    SynapEntries = {synap}
    OtherEntries = {mineru}
    MaxChanges = 2
    DocumentRuns = {r1}
    Uploads = {u1, u2}
    Recomputes = {v1}
    Processes = {p1, p2}
    Repeats = 1
    Shuffles <- Orders
    Questions = {q1, q2}
    Payloads <- SamplePayloads
    RunnerConfigs <- SampleConfigs
    Answers <- SampleAnswers
    Overhead = 1
    CaseBlocks <- SampleBlocks
    CaseEdits <- SampleEdits
    Families <- SampleFamilies
    Scale = 6
    Letters = {"a", "b"}
    MaxLength = 3
    Precision = 2
    MaxChunks = 2
    MaxVersion = 3
INVARIANTS
    OnePreferred
    OneFirstAdmin
    EvaluationsMatchFile
    TextIsKept
    ResponseAccepted
    StudyIsSound
    RepairsInvert
    MetricsSound
    DiffRebuilds
    FilesAreWhole
PROPERTIES
    SeedingIsIdempotent
    PipelineEnds
\* Requests, documents, pilots and pipelines end.
CHECK_DEADLOCK FALSE
