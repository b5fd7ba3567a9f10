--------------------------- MODULE PipelineRunner ---------------------------
(***************************************************************************)
(* One execution of the research pipeline (research/pipeline_runner.py,    *)
(* run_pipeline()): the blocks of a document are packed into batches, each *)
(* batch is rewritten by the model (or, in passthrough mode, each block is *)
(* taken as it is), the texts are cut into overlapping chunks, and every   *)
(* question is answered from the chunks retrieved for it.  Any refusal     *)
(* ends the execution: it fails closed.                                    *)
(*                                                                         *)
(* A text is a sequence of characters: "x", "nl" (a line break), "[" (the  *)
(* start of a marker "[source:") and block identifiers (its end).  The     *)
(* scores of retrieval are arbitrary: any chunks may be retrieved.         *)
(***************************************************************************)
EXTENDS Integers, FiniteSets, Sequences

CONSTANTS
    Payloads,   \* inputs: blocks and questions
    Configs,    \* settings
    Texts,      \* what the model may write
    Overhead    \* 180 + len(block_id): what a segment's header is counted for

VARIABLES
    payload, config,
    batches,   \* the segments of each model call
    current, current_chars,   \* the batch being packed, and what it is counted for
    stage,     \* of run_pipeline()
    index,     \* the block being packed, then the batch (or block) at work
    text,      \* its text, being cut
    start,     \* where the next segment or chunk starts
    chunks,    \* so far: [unit, start, end, sources]
    answers,   \* so far: [question, evidence], evidence a set of block ids
    tries,     \* failed requests of the call at work
    calls      \* generations so far (call_count)

inputs == <<payload, config>>
packing == <<batches, current, current_chars>>
cutting == <<index, text, start, chunks>>
asking == <<answers, tries, calls>>
vars == <<inputs, packing, stage, cutting, asking>>

\* RunnerConfig.validate(): limits, sampling, and what each provider requires.
ValidConfig(c) ==
    /\ c.limit > 0 /\ c.size > 0 /\ c.top_k > 0 /\ c.max_calls > 0
    /\ 0 <= c.overlap /\ c.overlap < c.size
    /\ c.retries >= 0
    /\ c.sampling # {"temperature", "top_p"}
    /\ c.provider = "openai_responses" => c.api_key
    /\ c.provider = "ollama_generate" => ~c.api_key /\ c.loopback

Distinct(rows) == \A i, j \in DOMAIN rows : rows[i].id = rows[j].id => i = j

\* _validate_payload(): names are unique, every question has a document.
ValidPayload(p) ==
    /\ p.blocks # <<>> /\ p.questions # <<>>
    /\ Distinct(p.blocks) /\ Distinct(p.questions)
    /\ \A i \in DOMAIN p.questions :
          \E j \in DOMAIN p.blocks : p.blocks[j].document = p.questions[i].document

MinN(a, b) == IF a < b THEN a ELSE b

Synthesizing == config.mode = "model"
Units == IF Synthesizing THEN Len(batches) ELSE Len(payload.blocks)

\* The block identifiers a unit was made from.
Sources(u) ==
    IF Synthesizing THEN {payload.blocks[batches[u][i].block].id : i \in DOMAIN batches[u]}
    ELSE {payload.blocks[u].id}

\* What preflight() announces for this input.
Preflight == (IF Synthesizing THEN Len(batches) ELSE 0) + Len(payload.questions)

Init ==
    /\ payload \in Payloads /\ config \in Configs
    /\ batches = <<>> /\ current = <<>> /\ current_chars = 0
    /\ stage = "begin" /\ index = 1
    /\ text = <<>> /\ start = 0 /\ chunks = <<>> /\ answers = <<>>
    /\ tries = 0 /\ calls = 0

Fail == stage' = "failed" /\ UNCHANGED <<inputs, packing, cutting, asking>>

\* The checks before anything is done.
Accepted == ValidConfig(config) /\ ValidPayload(payload) /\ config.model # "none"

Accept ==
    /\ stage = "begin" /\ Accepted
    /\ stage' = "packing"
    /\ UNCHANGED <<inputs, packing, cutting, asking>>

Refuse == stage = "begin" /\ ~Accepted /\ Fail

\* _source_segments(): the next piece of at most limit characters; an empty block is one.
Segment ==
    [block |-> index, start |-> start,
     end |-> MinN(Len(payload.blocks[index].text), start + config.limit)]
Size(s) == s.end - s.start + Overhead

\* A segment that does not fit opens a batch.
Fits == current = <<>> \/ current_chars + Size(Segment) <= config.limit
BlockEnds == Segment.end = Len(payload.blocks[index].text)

\* One round of the loop of synthesis_batches().
PackSegment ==
    /\ stage = "packing" /\ index <= Len(payload.blocks)
    /\ batches' = IF Fits THEN batches ELSE Append(batches, current)
    /\ current' = IF Fits THEN Append(current, Segment) ELSE <<Segment>>
    /\ current_chars' = IF Fits THEN current_chars + Size(Segment) ELSE Size(Segment)
    /\ index' = IF BlockEnds THEN index + 1 ELSE index
    /\ start' = IF BlockEnds THEN 0 ELSE Segment.end
    /\ UNCHANGED <<inputs, stage, text, chunks, asking>>

\* The last batch; a block is never without segments.
EndPacking ==
    /\ stage = "packing" /\ index > Len(payload.blocks)
    /\ batches' = IF current = <<>> THEN batches ELSE Append(batches, current)
    /\ current' = <<>> /\ current_chars' = 0
    /\ stage' = "packed" /\ index' = 1 /\ start' = 0
    /\ UNCHANGED <<inputs, text, chunks, asking>>

\* More calls than the settings allow.
TooManyCalls == stage = "packed" /\ Preflight > config.max_calls /\ Fail

Begin ==
    /\ stage = "packed" /\ Preflight <= config.max_calls
    /\ stage' = IF Synthesizing THEN "synthesis" ELSE "passthrough"
    /\ UNCHANGED <<inputs, packing, cutting, asking>>

\* _generator_for(): the API key or the SDK is missing; or Ollama cannot be reached,
\* or has not installed the model.
NoGenerator ==
    /\ stage = "packed" /\ Preflight <= config.max_calls
    /\ config.provider \in {"openai_responses", "ollama_generate"}
    /\ Fail

\* Mutant of RequestFails: the count of failed requests starts over.
RequestFailsForever ==
    /\ stage \in {"synthesis", "qa"}
    /\ tries' = (tries + 1) % 2
    /\ UNCHANGED <<inputs, packing, stage, cutting, answers, calls>>

\* generate(): a request that fails is repeated max_retries times.
RequestFails ==
    /\ stage \in {"synthesis", "qa"}
    /\ tries' = tries + 1
    /\ stage' = IF tries = config.retries THEN "failed" ELSE stage
    /\ UNCHANGED <<inputs, packing, cutting, answers, calls>>

\* An answer that is empty, truncated or not completed is no generation.
Unfinished == stage \in {"synthesis", "qa"} /\ Fail

\* _parse_qa(): what is no JSON object, has no answer or cites chunks not retrieved.
BadAnswer == stage = "qa" /\ Fail

HasWords(t) == \E i \in DOMAIN t : t[i] # "nl"

Cut(t) == text' = t /\ start' = 0 /\ stage' = "chunking"

Synthesize(t) ==
    /\ stage = "synthesis" /\ HasWords(t)
    /\ Cut(t)
    /\ tries' = 0 /\ calls' = calls + 1
    /\ UNCHANGED <<inputs, packing, index, chunks, answers>>

Passthrough ==
    /\ stage = "passthrough"
    /\ Cut(payload.blocks[index].text)
    /\ UNCHANGED <<inputs, packing, index, chunks, asking>>

\* rfind("\n", start + size // 2, end): the last break of the chunk's second half.
Breaks(end) == {p \in (start + config.size \div 2)..(end - 1) : text[p + 1] = "nl"}
LastOf(ps) == CHOOSE p \in ps : \A q \in ps : q <= p

\* Where a chunk ends: at the limit, or at a line break after its start.
ChunkEnd ==
    LET end == MinN(Len(text), start + config.size)
        found == Breaks(end)
    IN IF end < Len(text) /\ found # {} /\ LastOf(found) > start THEN LastOf(found) ELSE end

\* Markers that lie within [from, to), of blocks of the unit; all blocks if none.
Referenced(from, to) ==
    {text[p + 2] : p \in {q \in from..(to - 2) : text[q + 1] = "["}} \cap Sources(index)
ChunkSources(from, to) ==
    IF Referenced(from, to) = {} THEN Sources(index) ELSE Referenced(from, to)

\* Mutant of NextStart: the line break the chunk ends at is left out.
NextStartAfter(end) ==
    IF end - config.overlap > start THEN end + 1 - config.overlap ELSE start + 1

NextStart(end) == IF end - config.overlap > start THEN end - config.overlap ELSE start + 1

\* One round of the loop of _chunk_text().
Chunk ==
    /\ stage = "chunking" /\ start < Len(text)
    /\ chunks' = Append(chunks, [unit |-> index, start |-> start, end |-> ChunkEnd,
                                 sources |-> ChunkSources(start, ChunkEnd)])
    /\ start' = IF ChunkEnd = Len(text) THEN start ELSE NextStart(ChunkEnd)
    /\ stage' = IF ChunkEnd = Len(text) THEN "chunked" ELSE stage
    /\ UNCHANGED <<inputs, packing, index, text, asking>>

\* An empty text has no chunks.
NothingToCut ==
    /\ stage = "chunking" /\ text = <<>>
    /\ stage' = "chunked"
    /\ UNCHANGED <<inputs, packing, cutting, asking>>

NextUnit ==
    /\ stage = "chunked" /\ index < Units
    /\ index' = index + 1
    /\ stage' = IF Synthesizing THEN "synthesis" ELSE "passthrough"
    /\ UNCHANGED <<inputs, packing, text, start, chunks, asking>>

\* "Pipeline produced no searchable chunks", or the first question.
StartAsking ==
    /\ stage = "chunked" /\ index = Units
    /\ stage' = IF chunks = <<>> THEN "failed" ELSE "qa"
    /\ UNCHANGED <<inputs, packing, cutting, asking>>

\* bm25_search(): the top_k best rows, whatever the scores are.
Retrievals == {r \in SUBSET DOMAIN chunks :
                  Cardinality(r) = MinN(config.top_k, Len(chunks))}

\* evidence_block_ids: the blocks of the chunks the answer cites.
Evidence(cited) == UNION {chunks[k].sources : k \in cited}

\* Mutant of Asked: the first question is put every time.
AskedFirst == payload.questions[1].id

Asked == payload.questions[Len(answers) + 1].id

\* The answer names some of the retrieved chunks.
Answer(retrieved, cited) ==
    /\ stage = "qa" /\ cited \subseteq retrieved
    /\ answers' = Append(answers, [question |-> Asked, evidence |-> Evidence(cited)])
    /\ stage' = IF Len(answers) + 1 = Len(payload.questions) THEN "done" ELSE stage
    /\ tries' = 0 /\ calls' = calls + 1
    /\ UNCHANGED <<inputs, packing, cutting>>

\* Of the pilot's validate_response(): every question is answered once, with
\* evidence among the blocks of the payload, after at least one call.
ValidResponse ==
    /\ \A i, j \in DOMAIN answers : answers[i].question = answers[j].question => i = j
    /\ {answers[i].question : i \in DOMAIN answers} =
          {payload.questions[i].id : i \in DOMAIN payload.questions}
    /\ \A i \in DOMAIN answers :
          answers[i].evidence \subseteq {payload.blocks[j].id : j \in DOMAIN payload.blocks}
    /\ calls >= 1

Progress ==
    \/ Accept \/ Refuse \/ PackSegment \/ EndPacking \/ TooManyCalls
    \/ Begin \/ NoGenerator
    \/ RequestFails \/ Unfinished \/ BadAnswer
    \/ \E t \in Texts : Synthesize(t)
    \/ Passthrough \/ Chunk \/ NothingToCut \/ NextUnit \/ StartAsking
    \/ \E r \in Retrievals : \E cited \in SUBSET r : Answer(r, cited)

Next == Progress
Spec == Init /\ [][Next]_vars
\* Requests have a time limit, and nothing else waits.
FairSpec == Spec /\ WF_vars(Progress)

-----------------------------------------------------------------------------
TypeOK ==
    /\ payload \in Payloads /\ config \in Configs
    /\ stage \in {"begin", "packing", "packed", "synthesis", "passthrough", "chunking",
                  "chunked", "qa", "done", "failed"}
    /\ index \in Nat /\ start \in Nat /\ tries \in Nat /\ calls \in Nat

UnitChunks == {k \in DOMAIN chunks : chunks[k].unit = index}

\* No character of a text is lost between its chunks, every chunk keeps the size
\* limit, and each starts after the one before (_chunk_text()).
ChunksCover ==
    /\ stage = "chunked" =>
         \A p \in 0..(Len(text) - 1) :
            \E k \in UnitChunks : chunks[k].start <= p /\ p < chunks[k].end
    /\ \A k \in DOMAIN chunks :
         /\ chunks[k].start < chunks[k].end
         /\ chunks[k].end - chunks[k].start <= config.size
    /\ \A k \in DOMAIN chunks \ {1} :
         chunks[k].unit = chunks[k - 1].unit => chunks[k - 1].start < chunks[k].start

\* Where the segments of batches bs stand, and what is counted for a batch.
Places(bs) == UNION {{i} \X DOMAIN bs[i] : i \in DOMAIN bs}
Before(v, w) == v[1] < w[1] \/ (v[1] = w[1] /\ v[2] < w[2])
Counted(b) == Cardinality(UNION {{k} \X (1..Size(b[k])) : k \in DOMAIN b})

\* The segments of batches bs follow each other in the document ...
InDocumentOrder(bs) ==
    \A v, w \in Places(bs) : Before(v, w) =>
       LET s == bs[v[1]][v[2]]
           t == bs[w[1]][w[2]]
       IN s.block < t.block \/ (s.block = t.block /\ s.end <= t.start)
\* ... and one of them holds character p of block j.
Holds(bs, j, p) ==
    \E w \in Places(bs) :
       LET s == bs[w[1]][w[2]] IN s.block = j /\ s.start <= p /\ p < s.end

\* Every character of every block is in a batch, and in one only because segments
\* keep the order of the document; only a segment alone may exceed the limit
\* (synthesis_batches()).
BatchesKeepText ==
    stage \notin {"begin", "packing", "failed"} =>
        /\ InDocumentOrder(batches)
        /\ \A j \in DOMAIN payload.blocks : \A p \in 0..(Len(payload.blocks[j].text) - 1) :
              Holds(batches, j, p)
        /\ \A i \in DOMAIN batches : Len(batches[i]) > 1 => Counted(batches[i]) <= config.limit

\* A completed execution is accepted by the pilot that started it, and made exactly
\* the calls preflight() announced, within max_calls_per_pipeline.
ResponseAccepted ==
    /\ stage = "done" => ValidResponse /\ calls = Preflight
    /\ calls <= config.max_calls \/ stage \in {"begin", "failed"}

\* Every execution ends.
PipelineEnds == <>(stage \in {"done", "failed"})
=============================================================================
