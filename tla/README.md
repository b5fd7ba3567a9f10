# ParseLab in TLA+

A TLA+ model of ParseLab (the repository beside this directory). Its core is
what the backend does with the runs of an experiment between the request that
creates them and the status a page shows at the end, through cancellations,
retries, failing parsers, failing transactions, crashes and restarts. Around it
stand models of the parser and deidentifier adapters, of the files of a run, of
the services that keep user data, of the metrics and the text diff, and of the
two research scripts. TLC checks small instances; TLAPS proves every safety
property that the passing runs check, for every number of runs, clients, permits, files,
pages, blocks or processes, and for documents and texts of any size. Liveness is
checked by TLC only.

All paths below are relative to `src/`; `app/` is `backend/app/`.

## 1. The system

ParseLab compares document parsers. A user uploads a document, creates an
*experiment* that names several parsers, and gets one *run* per parser. A run
has two stages: the parser, then (optionally) the deidentification of its
result by a Fasoo server. A single backend process (FastAPI on one asyncio event
loop, SQLAlchemy over PostgreSQL, files under a data root) executes the runs in
the background and serves the pages that poll their status.

```
 pages (React) --HTTP--> ExperimentService --submit/cancel--> TaskManager
      ^                     | commit                       | one task per run
      | poll status         v                              v
      +---------------- experiment, run rows <--commit-- execute_run
                            ^                            |  parser adapter, storage
   lifespan: recovery ------+                            v
             shutdown --> TaskManager         execute_deidentification
                                                 |  Fasoo adapter --> Fasoo server + NAS
```

### Components

| Component | State | Operations | What makes it correct |
| --- | --- | --- | --- |
| Task manager, `app/task_manager/manager.py` | registry `_tasks`, `asyncio.Semaphore` | submit, `_execute`, cancel, shutdown | at most `max_concurrent_runs` jobs; no permit or wake-up lost when a task is cancelled at any moment; order kept; every waiter leaves; the registry forgets ended tasks |
| Run pipeline, `app/task_manager/pipeline.py` | `parse_status`, `deidentification_status`, result rows and files | `execute_run`, `execute_deidentification`, their handlers, `_mark_interrupted` | a job never starts over an outcome; no stage stays RUNNING without an owner; the second stage never spoils the first |
| Experiment service, `app/services/experiment_service.py` | experiment and run rows | create, retry, cancel, derived status | a request decided on a stale row does no harm; the derived status is final when it says so |
| Lifespan, `app/main.py` | server up, stopping, down | startup recovery, shutdown | nothing RUNNING after a restart; shutdown ends |
| Fasoo adapter, `app/adapters/deidentifiers/fasoo_http.py` | cached access token, `asyncio.Lock`, staging directory per run | login, request, repeat after 401, wait for artifacts | one login for calls refused together; the repeated request carries a newer token; stale artifacts are not taken for answers; the lock is handed on |
| Paddle runtime, `app/adapters/parsers/paddle_structure.py` | pipeline, init lock, inference semaphore, executor threads | predict, lazy initialisation | built once; slots conserved although cancelled runs leave threads behind; file operations still get a worker |
| Synap adapter, `app/adapters/parsers/synap_http.py` | remote conversion, fetched pages | submit, poll, fetch, delete | the call ends by its limits; the conversion is deleted on every path; pages and artifacts complete and in order |
| Command adapters, `generic_command.py`, `docling_command.py` | child process, `config.json` | start, communicate, kill | neither the parser nor, failures of the file operations and of the command line apart, its configuration file outlives the call |
| Other HTTP adapters, `mineru_http.py`, `docling_http.py`, `generic_http.py` | none | one request, normalize | no item lost or doubled, blocks in the order of the text, a stored text has words |
| Normalizers, `app/normalizers/` | none | pages to canonical blocks | the parser's reading order and the tables' HTML are kept |
| Storage service, `app/services/storage_service.py` | work directories, files of runs, documents, ground truths | write results, save error, clean up | a successful run shows the files of one attempt |
| Document service | document rows and files | upload | a row has its file; a refused upload leaves none |
| Benchmark service and metrics | ground-truth file and row, evaluations | save, evaluate, recompute | evaluations follow the ground truth although uploads, recomputations and pipelines overlap; scores are what they claim |
| Comparison and diff, `app/utils/text_diff.py` | none | compare | both texts can be rebuilt from the diff |
| Evaluation service | evaluations, preferred run | upsert | at most one preferred run per user and experiment |
| Authentication service | users | sign-up, login | one first administrator |
| Parser service and catalogue | connectors | create, update, disable, presets, seed | seeding is idempotent: a start changes nothing that nobody changed since the last one, and of existing connectors those of `synap_http` only (which it overwrites from the settings) |
| SQLite snapshot, `app/sqlite_snapshot.py` | live database, snapshot on the NAS | backup, restore | a usable snapshot at every moment; it may lag behind what a pod serves, and is never ahead of it |
| Research pipeline, `research/pipeline_runner.py` | none between executions | batches, synthesis, chunks, answers, preflight | no text lost, every execution ends, with the announced calls and an acceptable answer |
| Research pilot, `research/pilot.py` | output directory: manifest, frozen case, records | run, load, score, inject repairs | a complete manifest belongs to a complete run; repairs undo the injected errors |
| Frontend, API routes, schemas, migrations | views and data | | see section 8 |

`PROJECT.json` lists all of them with their files and status.

### What is hard

* **Handlers hold stale rows.** A request loads a row, awaits, and writes the
  columns it changed: there is no version column, the session factory keeps the
  values it loaded (`expire_on_commit=False`), the last writer of a column wins.
* **Cancellation arrives at every await**, inside error handlers, in the nested
  second stage, while a commit is on its way, and before the first step of a
  task, where no `finally` runs.
* **Threads and servers outlive the task that awaits them**: the Paddle
  inference, the preparation of the staging directory, a Fasoo request.
* **The process dies** between two commits; recovery looks at RUNNING only.
* **Two stages share one exception path**: what leaves the handler of the second
  reaches the handler of the first.
* **A file and a row change one after the other**: results, documents and ground
  truths are written before the row that makes them visible is committed.
* **A file is read before an await and used after it**: an evaluation is computed in
  a thread and flushed later, while an upload may replace the ground truth; the row
  lock that would order the two is taken only by an upload that changes the row.
* **Checks and writes of one transaction are apart** under READ COMMITTED: two
  requests count users, or clear preferences, and see nothing of each other.
* **Data at its edges**: empty documents and tables, missing page numbers and
  reading orders, chunks that overlap, edits that shift one another.

The full list, with lines and the properties that watch them, is under
`hazards` in `PROJECT.json`.

## 2. Modules

| Module | Models | Composed with |
| --- | --- | --- |
| `TaskManager` | `manager.py` and the asyncio semaphore as it uses it | |
| `RunLifecycle` | `pipeline.py`, `experiment_service.py`, `main.py`, the status columns | `TM == INSTANCE TaskManager`, sharing its four variables |
| `FasooAdapter` | `fasoo_http.py`, the server and the NAS directory it shares | stands in `RunLifecycle` as the steps `Deidentify` |
| `PaddleRuntime` | `PPStructureRuntime` and the thread executor | stands in `RunLifecycle` as the step `ParseDocument` |
| `SynapAdapter` | `synap_http.py`, the conversion on its server | `MCParsers` |
| `CommandAdapter` | `generic_command.py`, the child process, `config.json` | `MCParsers` |
| `HttpAdapters` | the adapters of one request, with their normalization | `MCParsers` |
| `Normalizers` | `synap_normalizer.py`, `paddle_normalizer.py` | `MCParsers` |
| `ResultStorage` | files of a run: `storage_service.py`, their use in `pipeline.py` | `Published == INSTANCE PublishedResult` |
| `PublishedResult` | abstract: what a run promises to a reader of its result | implemented by `ResultStorage` |
| `Documents` | `document_service.py`, `save_document()` | `MCServices` |
| `Evaluations` | `evaluation_service.py` | `MCServices` |
| `Accounts` | `auth_service.py`, `parser_catalog.py`, `parser_service.py` | `MCServices` |
| `GroundTruths` | `benchmark_service.py`, `save_ground_truth()`, the evaluation step of the pipeline | `MCServices` |
| `SqliteSnapshot` | `sqlite_snapshot.py` | `MCServices` |
| `BenchmarkMetrics` | `benchmark_metrics.py`: each metric an operator over two documents | `MCServices` |
| `TextDiff` | `text_diff.py`: the loop over the operations a library returns | `MCServices` |
| `PipelineRunner` | `research/pipeline_runner.py` | `MCServices` |
| `Pilot`, `Repairs` | `research/pilot.py`: executions and scores; edits | `MCServices` |
| `Positions` | positions selected from a list, in order | used by `HttpAdapters` and `Normalizers` |
| `MC*` | constants of the instances TLC checks; the behaviours of `MCParsers` and `MCServices` | |
| `TaskManagerProofs`, `RunLifecycleProofs`, `FasooAdapterProofs`, `PaddleRuntimeProofs` | theorems and proofs about the module of that name | |
| `ParsersProofs` | the adapters and normalizers of `MCParsers`; `ResultStorage` and its refinement | |
| `ServicesProofs` | the services and the pipeline of `MCServices`; the pilot | |
| `AlgorithmProofs` | induction and recursion over finite orders; `TextDiff` | extends `MCServices` |
| `MetricsProofs` | `BenchmarkMetrics` | extends `AlgorithmProofs` |

`MCParsers` and `MCServices` hold several modules that share no state while they
are at work: their variable `part` says which one a behaviour is about, and the
others rest. `MCParsers` extends `ResultStorage` and `MCServices` extends `Pilot`, and
both take the rest as instances. Their states add up instead of multiplying, and
every module is checked exactly as on its own. `AllSpec` is the specification of
these behaviours, and the one `ParsersProofs`, `ServicesProofs`, `AlgorithmProofs` and
`MetricsProofs` are about.

An operator whose comment begins "Mutant of" is a plausible wrong version of the
definition after it. No specification uses it; it exists so that one can see
that the property named for it in `PROJECT.json` really depends on that line of
the code.

### TaskManager

`task[r]` is what the registry holds for a run: nothing, a task that has not
executed its first step, one suspended in `acquire()`, one whose future is
resolved but that has not resumed (it owns a permit: the case most semaphore
bugs are about), one inside its job, or a *stale* entry. `cancelling` are
`Task.cancel()` requests not yet delivered, `permits` is `Semaphore._value`,
`ahead[r]` says who stands before `r` in `Semaphore._waiters`. A step is what
the event loop executes between two awaits: `StartJob`/`StartWaiting` is the
first step of `_execute`, `Resume`/`AbandonWait` the end of a wait, `Finish` the
return of the job with `release()` and the `finally` clause, `CancelUnstarted`
a task cancelled before its first step. The semaphore's code is not in the
repository; it is modelled as CPython 3.12 and later implement it (a release
hands the permit to the first waiter; an arriving task does not overtake).

### RunLifecycle

`row[r]` is the committed pair of status columns. `pc[r]` is the await a job is
suspended at, with one location per commit, so a cancellation, a failing
transaction or a crash hits each of them. An error handler loads the row (`LoadRow`,
`found[r]`) and commits later what it decided on it. `kind[r]` tells `execute_run` from a
deidentification alone, `follow[r]` is `should_deidentify`, evaluated on the row
as it was loaded. `req[c]` is a retry or cancel request: the row it saw, and the
step it is at. `Flush` is the SQLAlchemy unit of work: only columns whose value
changed are written, over whatever the row holds by then. `JobCancelled` sends
each location to the handler the code has around that await, and lets a commit
in flight take effect or not. `server` is the lifespan: `Stop` cancels all tasks,
`Stopped` waits for them, `Crash` waits for nothing, `Restart` applies the two
startup updates. `Env` chooses which of crash, stop, db (a transaction fails)
and storage (writing `error.log` fails) an instance contains. What a parser or
the deidentifier computes is not modelled: it succeeds or raises.

### FasooAdapter

`at[r]` is the await of the current call of a run. Tokens are numbered as the
server issues them; `cached` is `_access_token`; `ahead` is the queue of
`_token_lock` (its head holds it), as in `TaskManager`. `Refuse` is the first
401, `Reject` the second. `staging[r]` says which attempt wrote each artifact;
`threads` and `jobs` are the staging thread and the files the server has still
to write. They are not undone by `GiveUp`, which is a cancellation or any of the
time limits and errors after the login. `overlap[r]` is a history variable: the
call began while something of an earlier attempt was at work.

### PaddleRuntime

`stage[p]` follows a call of `predict()` from the executor's queue through the
inference semaphore, the double-checked initialisation and the inference.
`Abandon` is the cancellation of the awaiting task: it drops a queued call, and
leaves a started thread where it is. A call that ended can be submitted again, so
the finite set of calls stands for an unlimited sequence; at most `MaxRuns` are
awaited at a time, because a run needs a permit of the task manager, but any
number of abandoned threads may be at work beside them. `FileCalls` are the
other `asyncio.to_thread` calls of the process, which share its workers.

### SynapAdapter

`at` is the await of the call; every `Request` is an HTTP request or the sleep
between two polls. `Leave` is the way out of the `try` block: with a known `fid`
it goes through `cleanup`, the POST /delete of the `finally` clause. `cursor`
counts result requests; `Type` and `Page` compute from it where the two nested
loops stand. `Limit` is the adapter's `asyncio.timeout`, `Interrupt` a
cancellation or the limit of the pipeline. The server's conversion (`job`)
advances by itself, and a request whose answer is lost may have been carried
out. `lost` remembers that the delete request could not be sent or was refused.
A page in `pages` says which request it answers (`of`) and what `number` it has: the
server may override the number. An artifact has the ending its name gets, on which
`Bundled`, the ZIP of all of them, and the reading of Markdown depend; both follow
the cleanup (`Finish`), and text that is not UTF-8 raises there.

### CommandAdapter

`child` and `config` are the parser process and `config.json` with the thread
that writes or removes it; `held` is a descendant of the parser that keeps its
pipes open, so that `communicate()` does not return although the parser has
exited. `CancelledError` is what an interruption does at each await: kill and
reap, the `finally` clause, or leaving a thread behind (`abandoned`). `failed` says
what else kept the file: `WriteFails` (before or after the file was created), the command
line, which is rendered before the `try`, or `UnlinkFails`. `TimeUp` is the
connector's own limit, and may meet a process that has just exited
(`ProcessLookupError`).

### HttpAdapters and Normalizers

One request each; what matters is which of the fields of an answer become the
stored text and the blocks. Texts are "missing", empty, blank or words; an item
or block is its position in the answer. MinerU's `normalize()` is modelled item by item:
`Place` appends the next one to its page in the dict `groups`, which `MinerUPages`
sorts. `Normalizers` is one action per block, with the counter `global_order` and the
iterator of tables' HTML of the code.

### ResultStorage and PublishedResult

`written[f]` is the attempt that wrote file `f` last, `writer[a]` the position of
the thread of attempt `a`, `work` the attempt the work directory belongs to. An attempt
awaits its threads; `CancelWork` and `CancelCleanup` end the wait and leave the
thread at work (`abandoned`), `Crash` stops threads where they are. `tainted` is set
when an attempt is claimed while such a thread is still at work: the code has no
protection then and nothing is claimed. `PublishedResult` says what remains: the
content a reader sees changes only when an attempt succeeds, and is then the
output of that attempt alone. The refinement maps `content` to `Shown`.

### Documents, GroundTruths, SqliteSnapshot

Each follows the steps between a file and its row, or a file and its
replacement. `Documents!Stop` is a cancellation or crash at every await (a
`CancelledError` is no `Exception`, so the file stays).

The *evaluators* of `GroundTruths` are uploads, recomputations and the pipelines of the
runs, each with a transaction of its own. `file` changes in place (`SaveFile`) before
the row is flushed (`FlushRow`): an INSERT or an UPDATE of changed metadata waits for
the lock of the row and keeps it (`holder`), but with unchanged metadata the session emits
no UPDATE and there is no lock. A run of `todo[e]` is evaluated in three steps, between
which others work: the row is looked up and the file read (`Read`), the thread returns and
the evaluation is loaded (`Load`), it is inserted or updated (`Flush`), where a metric
equal to the loaded one is left out of the UPDATE. `seen[e]` is what is being compared,
`flushed[e]` what is not committed. A pipeline evaluates its run before the
commit of SUCCEEDED and again before that of the deidentification, in a savepoint
(`EvaluationFails`). `alone` are the evaluators nothing has run beside, which
repair what others left; `disturbed` remembers the interleavings after which an
evaluation may differ from the file, and each of its conditions stands at the step
that causes it.

In `SqliteSnapshot` a version is a number of commits, `Torn`
a half-written or damaged file; the deployment guide
(`docs/ARCHITECTURE_PRESENTATION_GUIDE.md:385-410`) gives the order: restored before
the pod serves, backed up before it stops, one pod at a time.

### Evaluations and Accounts

Requests are transactions under READ COMMITTED. `rows`, `users` and `connectors` are
committed; what a transaction has written (`wrote`, `signup`) blocks others that
want the same row or unique key. `Evaluations!Clear` is the UPDATE row by row: it
takes the rows its snapshot shows and waits for whoever holds one. `Accounts!Start` is
the lifespan's refresh of the catalogue, beside the `Create`, `Update` and `Disable` of
administrators. The catalogue has four kinds of entries: `Mocks` (seeded by the first
sign-up only), `Locals` and `Synap` (always listed), `Others` (listed when configured).
`touched` are the slugs that an administrator or a new environment has changed since
the last seeding, `renamed` those an administrator has taken from their connectors.

### PipelineRunner, Pilot, Repairs

A text of `PipelineRunner` is a sequence of characters, line breaks and `[source:ID]`
markers. `PackSegment` is one round of the loop of `synthesis_batches()`, whose variables
are `current`, `current_chars` and `batches`, with the generator `_source_segments()` it
runs over (`Segment`, at `index` and `start`); a segment names its block by position.
Afterwards `start`, `text` and `chunks` are the variables of `_chunk_text()`. The model,
the ranking and the transport are nondeterministic; `NoGenerator` is a missing key or
SDK, or an Ollama server that is not there or lacks the model. In `Pilot` several processes are
given one directory and each is interrupted or killed between any two steps;
files being written are torn by a kill. Each process has a case of its own, which
stands for the digests `load_complete_run()` compares. A line of `records.jsonl` may hold a
separator (U+0085, U+2028, U+2029) that `dumps(ensure_ascii=False)` keeps and
`splitlines()` splits at: `Readable`. `Repairs` applies and inverts edits of
short blocks in the orders of the code; `ApplyLast` is one round of the loop over the
sorted edits of a block, of which there are two at most.

### BenchmarkMetrics and TextDiff

`Evaluate` compares two documents and writes the report of `evaluate_documents()`.
Ratios are kept as numerator and denominator. The loops of the code are recursive
functions: the table of `_tree_distance()` over the children of two nodes
(`Distance`), the matches over the sorted candidates (`LayoutMatches`) and over the
predicted blocks in reading order (`BlockMatches`), sums and joined texts. A null
reading order beside another order of its page cannot be sorted (`EvaluateRaises`). `Families`
are the sets of documents that are compared with one another; a document is any that
`_blocks()`, `_bbox()` and `_cell_map()` let through (`DocumentsAssumption`), and TLC
takes `SampleFamilies`. What the libraries compute (`difflib`, diff-match-patch) is
modelled by its definition: where several scripts are shortest, `EditDistance` takes the
costliest. `TextDiff` assumes less: `Equal`, `Removed` and `Added` may follow one another
in any way that spells both texts, one word or character at a time, and the model is
what `_append_word()`, `_append_part()` and `_summarize()` make of them; the similarity is
rounded to one part in `Precision`, which is 10^4 in the code (`Rounded`).

## 3. Runs

| Run | Instance | States | Asks |
| --- | --- | --- | --- |
| `task_manager` | 4 runs, 2 permits, liveness | 12 240 | Is a permit or a wake-up ever lost, a waiter overtaken or left? |
| `requests` | 1 run, 2 clients, every fault | 1 510 000 | What can handlers with stale rows do to a run? |
| `runs` | 2 runs, 1 permit, 1 client, crash and stop | 3 019 000 | Does RUNNING always have an owner? Does the second stage leave a parsed run alone? |
| `unattended` | 2 runs, no client, every fault but db, liveness | 1 574 | Do runs, experiments and shutdowns come to an end, and is a final status final? |
| `fasoo` | 2 runs, one of them twice, 2 revocations, liveness | 269 000 | Tokens, artifacts and the lock of the Fasoo adapter |
| `paddle` | 4 parses, 1 file call, 2 slots, 3 workers, liveness | 20 000 | Slots, initialisation and workers of the Paddle runtime |
| `parsers` | one call of each adapter, 3 blocks, 2 files and 3 attempts, liveness | 1 310 000 | Do interrupted calls leave anything behind, and do they end? Do pages, blocks, tables and result files belong together? |
| `services` | section "bounds" below, liveness | 761 000 | User data under concurrent transactions and failures; research runs; scores and diffs |
| `registry_release`, `restart_interrupts`, `deid_isolation`, `preferred` | 1 or 2 runs | | violated: section 7 |

### Why these bounds are enough to be interesting

* `task_manager`: two permits and four runs is the least where two holders
  release while one task is woken and another still waits, and where a woken
  task is cancelled with a third behind it. Runs are submitted again for ever.
* `requests`: two clients give every pair of concurrent requests on one run;
  clients issue new requests for ever, so a third one only repeats a pair with
  an older stale row. The properties are about one run; another run matters only
  through the semaphore, which `runs` has.
* `runs`: two runs and one permit make one wait for the other. One client is a
  real bound here, see `RunningIsOwned` below.
* `fasoo`: a retry needs two attempts of one run, sharing a login needs a second
  run, and a call is refused for good only after two revocations. With two
  attempts of both runs the instance exceeds two million states and shows nothing else.
* `parsers`: two pages and up to two result types beside `json`, which stands in
  the middle or is not named, are the least where both loops of the Synap adapter turn
  and a ZIP can answer for one page; a connector may ask for no type. Two polls
  find the conversion unfinished once after it was unfinished. Two cancellations
  and a limit interrupt the handler of an interruption. Three blocks on two pages
  with every mix of given and missing numbers and orders. Two files, so that a
  thread stands between them; three attempts, so that a thread outlives a whole
  attempt.
* `services`: two concurrent requests on two e-mails, three runs (one stays as it is
  while two are preferred). One connector of each kind, two changes by
  administrators. Two uploads and one recomputation beside the pipeline of one run, which
  evaluates as often as it likes: two transactions conflict over the evaluation of a run, a
  third is the one that repairs, and `ServicesProofs` covers more runs. Two processes given one directory, all five conditions of one
  repeat (`ServicesProofs` covers more), two questions. Texts of up to five characters
  with chunks of 1 to 4 and overlaps up to 3; answers with markers near and far.
  Diffs of all texts of up to three words over two letters, with a similarity rounded to
  halves (`Precision` is 2), so that texts of this length meet the rounding. For the metrics, one
  family of documents per metric, with each edge the code tests for (nothing,
  empty, equal, contained, twice at one place, no area, a null order). `Overhead` and `Scale` stand
  for the length of the segment header and for the denominators of cell costs. Two
  chunks of an upload reach the size limit between them; three commits
  put versions before, between and after a backup.
* `paddle`: two awaited and two abandoned parses can hold all three workers
  while the file call queues; two slots let two threads race for the lock.

`CHECK_DEADLOCK FALSE` is used where the instance really stops: `fasoo` when all
attempts are used up, `parsers` and `services`, where a call, a request, a document
or an execution is one behaviour and ends, and two of the violated runs, where no
client or a single run may leave nothing to do.

### Properties worth knowing

* `NoLostWakeup`, `PermitsConserved`, `NoOvertaking`, `EveryWaiterLeaves`: the
  semaphore under cancellation of woken waiters.
* `RunningIsOwned`: as long as transactions and the writes of `error.log` succeed and
  requests about one run do not overlap, a RUNNING stage has a job, or a cancel
  request, that will write it again. It is checked for one client because with two
  on one run it does not hold: a cancel request that loaded
  (INTERRUPTED, PENDING) keeps a stale row over a retry, its `cancel()` then hits
  the error handler of the retried job, and its commit does not include
  the parse column, which stays RUNNING until the next restart. No document
  promises otherwise.
* `ClaimKeepsOutcome`: a job starts over a PENDING row, or over one that was
  interrupted while it was claiming it, and over nothing else.
* `RequestedStageKept`: deidentification is NOT_REQUESTED exactly when the
  experiment does not want it, although five places rewrite the column.
* `PollingStopsForGood`, `ExperimentSettles`: the page stops polling at a final
  status; it stays final, and it comes.
* `RunningEnds`, `ShutdownCompletes`: through crashes, failing error logs and
  cancellations delivered inside handlers.
* `OneRevocationIsHarmless`, `LoginsAreNeeded`, `RetryUsesNewerToken`:
  `README.md:1059-1060` as invariants. `ArtifactsAreFresh`: stale
  artifacts; it leaves out attempts that began with remains of an earlier one
  still at work, for which the code has no protection.
* `SlotsConserved`, `OnePipeline`, `FileCallsStart`: abandoned threads.
* `RemoteResultRemoved`, `CallLeavesNothing`, `CallsEnd`: what is left after a call
  that was interrupted anywhere, any number of times, and that it ends. The exceptions
  are stated: a `fid` that was never received, a delete that was refused or
  interrupted (`lost`); a `config.json` whose own write or removal failed or was interrupted
  (`abandoned`, `failed`), or whose command line could not be rendered, but of a call that
  started its parser only the removal counts; a descendant that holds the pipes, which
  only the pipeline's limit ends.
* `PagesInOrder`: one response per page and type, in order, and pages in the order of
  the document whatever numbers the server gives them; nothing but the bundle follows.
* `BlocksKeepOrder` also includes that a stored text of MinerU
  and Docling has words, that the benchmark's order of blocks is the parser's if
  that is consistent, and that tables keep their HTML.
* `WorkDirectoryKept`, `ResultIsPublished`: retries beside threads of earlier attempts;
  the second is the refinement of `PublishedResult`.
* `OnePreferred` holds from a state in which the runs have evaluations already, because
  then the UPDATEs meet on a row; without, it is violated (section 7).
* `OneFirstAdmin`: both of two first sign-ups count no user; the unique slugs of the
  connectors they seed let only one commit. The guarantee hangs on the seeding, and
  ends when every connector that is always listed has been renamed before the second
  one seeds.
* `SeedingIsIdempotent`: a start changes what an administrator or a new environment has
  changed since the last seeding, and nothing else; and of connectors that exist those of
  `synap_http` only. These it overwrites by design, see section 7.
* `EvaluationsMatchFile`: with nothing under way the evaluations are those of the
  file, unless `disturbed`. What disturbs: an upload that fails after writing the file; one
  that writes the file when an evaluator without the lock of the row has read it; one that
  evaluates without the lock beside the comparisons of the upload that holds it; a first
  evaluation that fails or looks up a row not yet committed. An upload or recomputation
  that runs alone ends the disturbance.
* `FilesAreWhole`: a document and its row, the snapshot and the live database, wherever a
  step fails. What remains is in the history variables (`doubtful`, `left`, `damaged`).
* `TextIsKept`, `ResponseAccepted`, `PipelineEnds`: chunks and batches cover the text
  within their limits, batches in the order of the document; a completed execution made exactly the calls
  `preflight()` announced and passes the pilot's `validate_response()`.
* `StudyIsSound`: whatever is called complete has one whole record per condition and repeat,
  of the case that was frozen, and `load_complete_run()` accepts it unless a record holds a
  separator of lines; a manifest never counts a record that is missing; scores are
  differences.
* `RepairsInvert`, `MetricsSound`, `DiffRebuilds`: pure algorithms against their
  definitions (an edit list applied and taken back; least cost over all pairings;
  both texts rebuilt). The similarity a diff shows is 1 for equal texts, but not for these
  only: it is rounded, and `DiffRebuilds` bounds how far texts shown as 1 can differ.

## 4. Fairness

* Steps of tasks, of request handlers and of threads are weakly fair: the event
  loop runs every ready callback, a thread that can run does.
* `Finish` in `TaskManager` and `ParseDocument`, `Deidentify` in `RunLifecycle`
  are fair because the pipeline puts `asyncio.wait_for` around both adapters
  (`pipeline.py:78`, `pipeline.py:248`).
* A Fasoo login is fair because it has its own limit of at most ten seconds;
  nothing is assumed of the other waits of a call, or that it is cancelled.
* `Infer` is fair: a native inference returns. Nothing in the code bounds it,
  and `FileCallsStart` fails without it; `README.md` documents that it cannot be
  stopped. No fairness is assumed of the inference semaphore or the init lock.
* Synap: `Limit` and `CleanupAnswered` are timers of the event loop
  (`asyncio.timeout`, five seconds for the delete). Nothing is assumed of the
  server's answers. Command: the loop's own steps, the connector's limit and the
  exit of a *killed* process; a parser or a descendant may run for ever.
* `PipelineRunner!Progress` is fair: requests carry a time limit and nothing else waits.
* A process that is down is started again (`Restart`). Requests, cancellations,
  failures, crashes and shutdowns are never fair. `ExperimentSettles` assumes
  that the server stays up.

## 5. Proofs

TLAPS proves the following from the named assumptions on the constants, which TLC
evaluates on every run: the sets of runs, calls and questions are finite, the limits
are positive, a shuffle is an order of all conditions (`StudyAssumption`), `NoRequest`
is no request; in `MCParsers`, a connector asks for each result type once
(`_artifact_result_types()` removes repetitions) and a document has a page
(`TypeListsAssumption`, `PagesAssumption`); in `MCServices`, an upload is neither a
recomputation nor a run (`UploadsAssumption`), an experiment has finitely many runs
(`EvaluatedAssumption`), the bounds are numbers (`BoundsAssumption`), payloads,
settings and texts are lists and integers (`InputsAssumption`), the texts of a case
are strings and its offsets natural numbers (`CasesAssumption`), documents have texts of
characters, finitely many entities, boxes with ordered corners and cells with integer
keys, and costs are counted in parts of a positive number (`DocumentsAssumption`).
Section 3's instances are one case of each.

**`TaskManagerProofs`** proves `TypeOK`, `PermitsConserved`, `NoLostWakeup` and that
at most `MaxConcurrency` jobs run. `permits \in 0..MaxConcurrency` is not
inductive: a release stays below the limit because permits in use and free ones
add up to it, and a woken task does not exist without a permit reserved for it.
The three invariants are proved together (`IInv`). `HoldersAfterMove` is the one
counting lemma; each action is then arithmetic. `FirstComeFirstServed` is
`NoOvertaking`: `QueueOrder` says that `ahead` is a total order of the tasks in the
queue, whichever of them are cancelled where they stand.

**`RunLifecycleProofs`**:

* `SystemTypeCorrect`, `SystemPermits`: the theorems of `TaskManagerProofs`,
  instantiated: they are not proved again. What carries them over is a lemma, `Spec =>
  TM!Spec`, which holds because every action is written as a step of the task manager
  with something added, or leaves its four variables alone.
* `StageIsKept`: `RequestedStageKept` is not inductive, since a retry writes a
  row decided on what it loaded; `StageInv` says that every row a request has
  seen agrees with the experiment too, and that requests follow the creation.
* `OutcomeIsKept`: `ClaimInv` relates the position of a job to its row (a job at
  `claim` has a PENDING or INTERRUPTED row whatever requests did since).
* `ParseSurvives`: `ParseSurvivesDeid` when transactions and `error.log` writes
  succeed (`Env \cap {"db", "storage"} = {}`); without that assumption it is false
  (section 7). `WorkInv` says that a job that can still record a parse
  failure does not have a successful row.
* `RunningHasAnOwner`: `RunningIsOwned` for any number of runs and clients, under the
  same assumption on `Env` and as long as no two requests about one run are under way
  (`OneRequestPerRun`); both are needed, see section 3. `RunningHasAnOwnerAlone` is the
  case of at most one client, where the second holds by itself. `OwnInv` adds to the
  property: a second cancellation that reaches a handler, and so skips its write, came
  from a request that will write instead (`HandedOver`); a request that will not write a
  column saw no active status in it, and none appears before it commits (`SeenStands`).
* `FinalStatusIsFinal`: `PollingStopsForGood` for experiments nobody sends requests
  about, when transactions succeed. `QuietInv` gives the row of a run at each position
  of its job, and says that recovery meets no tasks.

**`FasooAdapterProofs`** proves the type invariant and the four safety properties. The
order of the lock's queue (`LockInv`) gives one login at a time; tokens move
forward (`TokenInv`: a refused token is revoked and not newer than the cached
one); `FilesInv` says which attempt every file, request and thread belongs to.

**`PaddleRuntimeProofs`** proves `SlotsConserved`, with the range of the semaphore, and
`OnePipeline`, from what the lock protects (`PipelineInv`).

**`ParsersProofs`** proves the four invariants of the run `parsers` that are about adapters,
of the modules by themselves (`ConversionIsRemoved`, `NothingIsLeft`) or of `AllSpec`.
While one part is at work its invariant holds (`PartsInv`).

* `RemoteResultIsRemoved`, for any number of pages, polls and result types: a conversion
  exists only while the call is going on with its `fid`, or `lost` is set, and `cleaned`
  agrees with the server (`RemoteInv`).
* `PagesStayInOrder`: `PagesInv` says that the responses kept are those of the first
  `cursor` requests, type by type and page by page, and that the delete request of a
  call without an error follows all of them; the bundle is all that comes after it.
* `CommandLeavesNothing`, for any number of cancellations: the parser runs only while
  the call is at `talk`, so every way out of it must kill (`ChildInv`); `ConfigInv` says
  at each await what `config.json` is, and that a thread still writing it has no parser
  beside it.
* `OrderIsKept` is `BlocksKeepOrder`. For MinerU, `Grouped` is the invariant of the
  loop: the lists of `groups` hold the items placed so far, each once, ascending, under
  the number of its page; `InOrder` then lists the numbers (`HttpInv` and the
  lemmas about `InOrder`). For the normalizers, blocks so far are the
  first of the parser's, and while all tables of a page have HTML the iterator holds that
  of the tables to come (`NormInv`).
* `WorkDirectoryIsKept`, and `StoragePublishes`, the refinement
  `Spec => Published!Spec`, for any number of files and attempts. `ThreadInv`
  says whose threads may be at work; `FileInv` says that the files before the
  position of the thread are of this attempt, that at the commit all are and nobody
  writes any more. Every step then maps to a step or a stutter of `PublishedResult`.

**`ServicesProofs`** proves eight properties of the run `services`, of `AllSpec`; `ServicesInv`
is the invariant of the service at work.

* `OneResultIsPreferred`: a request that prefers a run holds, at the commit, every row of
  the experiment (`EvaluationInv`), since the rows exist already; two such requests
  cannot both hold them.
* `OneAdminSignsUp`: two uncommitted administrators would have written one slug, which
  its unique key forbids (`SlugsAreOwn`); one who has committed left the
  connectors that are always listed, so that the next meets them unless they have been
  renamed (`OneAdmin`).
* `SeedingRepeatsNothing` (`SeedingIsIdempotent`): once there is an administrator, every
  entry of the catalogue that nobody has touched has a connector, and a `synap_http` one
  is as `Refreshed` would make it (`SeededInv`), so that refreshing it again changes nothing.
* `EvaluationsFollowFile`: `TruthInv`. While nothing has `disturbed` it, whatever is being
  compared or not yet committed is of the file as it is, but for the holder of the row
  while an upload waits for it; and the evaluation of a finished run is that of the
  file, or an upload owes it: has the run still to evaluate, or to flush, or to commit
  (`UndisturbedInv`). An evaluator that nothing runs beside sees one file throughout and
  leaves no finished run out (`AloneInv`), which is why it repairs.
* `FilesStayWhole`: where the file of a document stands at each step of the upload
  (`UploadInv`); the versions of the snapshot, its temporary copy and the live database
  are ordered, so that the snapshot lags behind and is never ahead (`SnapshotInv`).
* `NoTextIsLost`: while blocks are packed, the batches and the current one hold exactly
  what stands before the next segment, each character once and in order, and are
  counted for at most the limit unless they are one segment (`PackInv`); the chunks of a
  text cover it up to the start of the next one (`CutInv`). That characters are counted
  rather than summed keeps recursion out of the proof.
* `CompletedIsAccepted`: calls are the batches written plus the questions answered
  (`CallInv`), answers follow the questions (`AnswerInv`), which are there because the
  input was checked first (`CheckedInv`).
* `CorruptionsAreTakenBack`: one of two accepted edits of a block ends before the other
  begins, so that the block is what lies before, between and behind them with the two
  spans (`Five`, or `Three` for one edit). Applied from the right, each edit exchanges
  its own span and leaves the offsets of the other (`TwoSpans`); the later one is moved
  by exactly what the earlier one adds (`Shifts`), and that `after` is not empty keeps
  the inverse an edit.
* `PilotIsSound` (`StudyIsSound`) follows from `CompleteRunIsLoadable` and
  `ScoresAreDifferences`. `mkdir(exist_ok=False)` makes one process the owner of the
  directory (`OwnerInv`); while it works, the records are exactly the conditions
  behind it, each once and whole (`RecordsInv`); counts never run ahead of records
  (`CountInv`); nobody touches a directory whose manifest is complete (`CompleteInv`).
  Counting the pairs of repeat and condition shows that every test of
  `load_complete_run()` holds of the records as they were written (`RecordsFit`); that they
  are read back as written is `Readable`, which a separator in a text can break. The
  scores follow from cardinalities of set differences.

**`AlgorithmProofs`** proves `DiffsRebuild`, that is `DiffRebuilds` for texts of any
length. The theorems of the library that take a property as a parameter cannot be used
with these provers, but one that does not (`WFMin`) gives a least element of every set
of numbers (`LeastNumber`), hence induction over the *set* of the numbers that have a
property (`SetInduction`), hence a function that satisfies a recursive definition
(`LoopExists`): a recursive function of a model is a CHOOSE, of which nothing is known
before it is shown to exist. The rest is about the loop of `_append_part()`: with each
operation both texts grow by what it spells, spaces between words included; neighbours
differ in type; and the characters counted as equal are in both texts. How far texts
with a similarity of 1 differ follows from `Rounded` in integers.

**`MetricsProofs`** proves `MetricsAreSound`, that is `MetricsSound` for any two
documents, with `RecursionExists` and `OrderedRecursion`, which give the same for loops
over a finite set in an order. The invariant only says that both documents are documents
and that `metrics` is the report on them (`MetricsInv`); what is hard is what a report
says.

* Costs: the table of `_tree_distance()` holds, at each entry, the least cost of the
  increasing pairings of the children before it. A pairing either holds the pair of both
  last children or leaves one of them out (`LastOfPairing`), which are the three terms
  of the minimum (`RowsOfTables`). By induction over the table, costs that are lower
  everywhere give a lower entry, so that structure alone is never further away than
  structure with texts (`ContentIsNoHelp`), and equal sequences are at distance 0.
* Ratios: the mean of scores is a score, perfect when all of them are (`MeanOfOnes`),
  and it grows with its terms (`MeanGrows`).
* Layout: candidates are totally ordered (`ByOverlapIsOrder`). What a greedy loop takes
  is a matching no candidate can be added to (`GreedyIsMatching`, `LayoutOneToOne`), so
  it has no more members than either side has boxes. In a document compared with itself,
  a box with area overlaps wholly with its copies only (`IoUFacts`), which the loop
  therefore takes first, and a class of equal boxes is used up (`GreedyTakesClass`).
* Reading order: blocks are totally ordered by place (`ReadOrderIsOrder`); each takes a
  block no other has (`BlocksAreMatchedOnce`), so that the inversions are at most half
  of all ordered pairs (`HalfOfPairs`); in a document compared with itself each block
  with a text is matched with itself (`MatchOfSame`), and there are none.

Only model-checked: the liveness properties `EveryWaiterLeaves`, `RunningEnds`,
`ShutdownCompletes`, `ExperimentSettles`, `LockIsPassedOn`, `FileCallsStart`, `CallsEnd`
and `PipelineEnds`, because TLAPS does not reason about fairness and ENABLED here.

## 6. Plan

Done: the core (task manager, lifecycle, Fasoo, Paddle); the other adapters, the
storage of results with its refinement; the services; the algorithms; the
research scripts; theorems for every safety property of the passing runs. Left, in this
order:

1. Compose `ResultStorage` with `RunLifecycle`, so that `tainted` is derived from
   the retries that requests really make.
2. Presets of the parser service; the polling of the pages against the served status.

## 7. Where the code and its documentation disagree

Each is a run that TLC ends with a counterexample of a few steps.

* `registry_release`: a task cancelled before its first step never enters the
  `try` of `_execute`, so its entry stays in `_tasks` (`manager.py:29`) and the
  run cannot be submitted again in this process.
  `docs/PROJECT_UNDERSTANDING_GUIDE.md:563` says the entry is removed however the
  task ends.
* `restart_interrupts`: an orderly shutdown cancels such tasks without recording
  anything and the startup update selects RUNNING rows (`main.py:38`): the run
  stays PENDING with no task. `README.md:457` says INTERRUPTED, and `README.md:408`
  admits a PENDING run only for a process that dies between commit and submission.
* `deid_isolation`: if writing `error.log` fails in the handler of the second
  stage (`pipeline.py:302`), the exception reaches the handler of the first, which
  commits FAILED over SUCCEEDED. The docstring (`pipeline.py:38-39`) excludes it.
* `preferred`: `upsert()` clears the other preferences with an UPDATE, which sees
  committed rows only (`evaluation_service.py:53`). Two first evaluations of
  different runs of one experiment, both preferred, see nothing of each other, and
  both commit. The comment above it (line 49) allows one per experiment.

Met while modelling, outside those runs:

* `render_command()` stands between the write of `config.json` and the `try` whose `finally`
  clause removes it (`generic_command.py:97`). `validate_command_template()` checks the
  names of the fields only, so that a template with `{input_path:d}` is accepted and
  fails there: the file stays, although the comment at line 132 says that it is deleted
  at once. A failing `unlink()` leaves it too, and takes the place of the error under way.
* Every start of the server overwrites URL and activity of the `synap_http` connectors
  from the settings (`parser_catalog.py:196-206`): one that an administrator has disabled
  is active again.
* A retry whose `submit()` is refused, because the previous task is still unwinding,
  answers 200 and leaves the run PENDING with no task. A row may end as
  (INTERRUPTED, SUCCEEDED) or (FAILED, SUCCEEDED) after a cancel raced with a job.
* Of two retries that loaded the same broken row, the later commit resets a run that
  is RUNNING or SUCCEEDED by then (`experiment_service.py:316`), although the message
  at line 287 says that only failed or interrupted runs can retry.
* A result thread that outlives its cancelled attempt may overwrite the files of
  the retry (`storage_service.py:289`): `tainted`.
* Synap pages from a ZIP number themselves from 1 again, so that page numbers and
  block ids of different requests collide.
* `TimeUp` on a command parser that has just exited raises ProcessLookupError: the
  call ends with that error where it timed out. A descendant of the parser that
  keeps its pipes open makes the reaping wait until the pipeline's limit.
* An empty `text_content` of Docling hides the Markdown beside it. A Paddle page with
  and without block orders reads the latter last from page 2 on; a table without
  HTML shifts the HTML of the tables after it.
* `_diff_slots` is given back when a comparison is cancelled while its thread goes on
  (`text_diff.py:142`), so more comparisons run than there are slots.
* Of two first sign-ups the loser meets the unique slugs of the connectors: an
  IntegrityError, hence a 500, and no account.
* A commit of a document whose answer is lost removes a file whose row exists
  (`document_service.py:27-31`); a cancelled upload leaves its file.
* A ground truth whose commit fails leaves the new file beside the old evaluations. An
  upload with unchanged metadata emits no UPDATE and holds no lock: of two such uploads
  that overlap, the one that read the old file may write its evaluations last
  (`benchmark_service.py:261`, 321-373). Both are repaired by the next one that runs alone.
* `validate_ground_truth()` accepts a `reading_order` of null, on which sorting raises a
  TypeError beside another order of the same page (`benchmark_metrics.py:315-328`).
* A block with no area in the ground truth is not matched with itself
  (`benchmark_metrics.py:84`): identical documents then score less than 1.
* `text_diff.py:40` rounds the similarity to four places: texts that differ in one character
  of more than about 20 000 are shown as 1.0.
* `records.jsonl` keeps U+0085, U+2028 and U+2029 as they are (`pilot.py:456`), and
  `splitlines()` (`pilot.py:53`) splits there: a complete run with one of them in an answer
  cannot be loaded.
* A chunk boundary may split a `[source:ID]` marker; the chunk is then attributed to
  all sources of its batch (`pipeline_runner.py:867-870`).
* `max_calls_per_pipeline` counts generations, not the requests that were repeated.
* The edit script of diff-match-patch is not always the shortest ("xxA" against "Ayy"
  costs 4, the distance is 3), so that the character error rate may be too high.

## 8. Not modelled

* `health_check()` of the adapters: one request, no state.
* Presets of connectors (`parser_service.py`); `validate_ground_truth()`
  and the statistics of `summary()`; `comparison_service.py`, which only reads.
* Of the metrics: exact-match flags, page count, mean IoU. Of the normalizers:
  coordinates and cell spans. Of the command adapters: the text of the
  command line and which of several outputs wins.
* Of the research scripts: the ranking of BM25, prompts and provenance records;
  `select_questions()` and `prepare()`, which build the inputs once. `Pilot` stops
  processes, not the machine: data a process has written is not lost.
* Ownership checks, parser selection and configuration snapshots in
  `ExperimentService`: reads and single transactions around the behaviour modelled.
* The mock deidentifier, a substitution on text. The Fasoo mode with a fixed
  `FASOO_API_KEY`, which never logs in; whether the Fasoo server can show a file
  before it is complete, an assumption this code cannot settle.
* A second backup at the same time as the first: both would write one temporary file.
  The deployment runs one pod and replaces it (`Recreate`).
* API routes, schemas, repositories, migrations, configuration: no behaviour
  of their own. The frontend's one assumption on the backend is
  `PollingStopsForGood`.
