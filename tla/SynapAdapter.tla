---------------------------- MODULE SynapAdapter ----------------------------
(***************************************************************************)
(* One call of SynapHttpAdapter.parse() (adapters/parsers/synap_http.py)   *)
(* and the job it leaves on the Synap server: POST /da, POST /filestatus   *)
(* until the conversion ends, POST /result for the archive or page after   *)
(* page, and POST /delete in the finally clause.  The call can be          *)
(* interrupted at every await: by its own time limit, by the limit of the  *)
(* pipeline around it and by the cancellation of the job.                  *)
(***************************************************************************)
EXTENDS Integers, Sequences

CONSTANTS
    MaxPages,   \* pages of a document
    MaxPolls,   \* status requests that find the conversion unfinished
    TypeLists   \* artifact_result_types a connector may ask for

VARIABLES
    at,        \* where the call stands (below)
    config,    \* the validated parser config
    job,       \* the conversion on the server
    fid,       \* fid is set: the finally clause has something to delete
    polls,     \* status requests answered
    total,     \* total_pages
    cursor,    \* result requests answered
    pages,     \* pages assembled: the page asked for and the page_number kept
    artifacts, \* responses kept: their result type, page and the ending of their name
    cleaned,   \* cleanup_succeeded
    raised,    \* the error on its way through the finally clause
    result,    \* what the call returned or raised
    lost       \* history: the delete request was never sent, or not carried out

vars == <<at, config, job, fid, polls, total, cursor, pages, artifacts, cleaned,
          raised, result, lost>>
answers == <<total, cursor, pages, artifacts>>

(***************************************************************************)
(* idle     no call yet              submit   POST /da                      *)
(* poll     POST /filestatus         sleep    asyncio.sleep(poll_interval)  *)
(* archive  POST /result, once       page     POST /result, by page         *)
(* cleanup  POST /delete             ended    returned or raised            *)
(***************************************************************************)
Requests == {"submit", "poll", "sleep", "archive", "page"}
Errors == {"PARSER_CONFIGURATION_INVALID", "PARSER_OUTPUT_NOT_FOUND",
           "PARSER_EXECUTION_FAILED", "PARSER_TIMEOUT", "cancelled", "exception"}
Configs == [delivery : {"pages", "archive"}, types : TypeLists, bundle : BOOLEAN]

TypeOK ==
    /\ at \in Requests \cup {"idle", "cleanup", "ended"}
    /\ config \in Configs
    /\ job \in {"none", "working", "ready", "failed", "gone"}
    /\ fid \in BOOLEAN /\ lost \in BOOLEAN
    /\ polls \in 0..MaxPolls + 1
    /\ total \in 0..MaxPages
    /\ cursor \in Nat
    /\ pages \in Seq([of : 0..MaxPages, number : 0..MaxPages])
    /\ artifacts \in Seq([type : STRING, page : 0..MaxPages, ending : {"zip", "md", "other"}])
    /\ cleaned \in {"unknown", "yes", "no"}
    /\ raised \in Errors \cup {"none"}
    /\ result \in Errors \cup {"none", "returned"}
    /\ (result = "none") <=> (at # "ended")

Init ==
    /\ at = "idle" /\ config \in Configs
    /\ job = "none" /\ fid = FALSE /\ polls = 0
    /\ total = 0 /\ cursor = 0 /\ pages = <<>> /\ artifacts = <<>>
    /\ cleaned = "unknown" /\ raised = "none" /\ result = "none" /\ lost = FALSE

-----------------------------------------------------------------------------
(* The ways out of the try block *)

End(e) == at' = "ended" /\ result' = IF e = "none" THEN "returned" ELSE e

\* Mutant of Leave: the result is deleted only by a call that succeeded.
LeaveErrorsAtOnce(e) ==
    IF fid /\ e = "none"
    THEN at' = "cleanup" /\ raised' = e /\ UNCHANGED result
    ELSE End(e) /\ raised' = "none"

\* The finally clause: a known fid is deleted first, then the error goes on.
Leave(e) ==
    IF fid
    THEN at' = "cleanup" /\ raised' = e /\ UNCHANGED result
    ELSE End(e) /\ raised' = "none"

Go(stage) == at' = stage /\ UNCHANGED <<raised, result>>

\* What the checks of a response make of an unusable one: an HTTP error or a bad
\* status in the body, or a body that is not the expected JSON.  A result that is
\* to be kept as text may also hold what UTF-8 cannot write.
Unusable == {"PARSER_EXECUTION_FAILED", "PARSER_OUTPUT_NOT_FOUND"}
Unkept == Unusable \cup {"exception"}

-----------------------------------------------------------------------------
(* The call *)

\* The API key and the config are checked before any request.
Begin(valid) ==
    /\ at = "idle"
    /\ IF valid
       THEN Go("submit")
       ELSE End("PARSER_CONFIGURATION_INVALID") /\ UNCHANGED raised
    /\ UNCHANGED <<config, job, fid, polls, answers, cleaned, lost>>

\* POST /da.  The server may have begun the conversion although its answer is of
\* no use, and then nobody knows the fid.
SubmitAnswered ==
    /\ at = "submit"
    /\ \/ fid' = TRUE /\ job' = "working" /\ Go("poll") /\ UNCHANGED lost
       \/ /\ fid' = FALSE /\ \E e \in Unusable : Leave(e)
          /\ job' \in {"none", "working"} /\ lost' = (job' # "none")
    /\ UNCHANGED <<config, polls, answers, cleaned>>

\* POST /filestatus: LOADING or RUNNING, SUCCESS with the page count, FAILED, an
\* unknown status, a page count that is no positive number, or nothing usable.
Polled ==
    /\ at = "poll"
    /\ polls <= MaxPolls
    /\ polls' = polls + 1
    /\ \/ job = "working" /\ polls < MaxPolls /\ Go("sleep") /\ UNCHANGED total
       \/ /\ job = "ready" /\ total' \in 1..MaxPages
          /\ Go(IF config.delivery = "archive" THEN "archive" ELSE "page")
       \/ job = "failed" /\ Leave("PARSER_EXECUTION_FAILED") /\ UNCHANGED total
       \/ \E e \in Unusable : Leave(e) /\ UNCHANGED total
    /\ UNCHANGED <<config, job, fid, cursor, pages, artifacts, cleaned, lost>>

Slept ==
    /\ at = "sleep"
    /\ Go("poll")
    /\ UNCHANGED <<config, job, fid, polls, answers, cleaned, lost>>

\* The pages read from one answer.  A page keeps the page_number that the server
\* gave it, and without one gets the number asked for or its place in the answer.
Answers(of, sizes) == UNION {[1..n -> [of : {of}, number : 0..MaxPages]] : n \in sizes}

\* _artifact_from_response(): the name ends as the type says, or in .zip when the
\* response is a ZIP.  The archive may be asked for in any type.
Endings(type) ==
    {"zip"} \cup (IF type \in {"markdown", "archive"} THEN {"md"} ELSE {})
            \cup (IF type \in {"markdown", "zip"} THEN {} ELSE {"other"})

Keep(type, page, ending) ==
    artifacts' = Append(artifacts, [type |-> type, page |-> page, ending |-> ending])

\* POST /result for the archive.  The response is kept before it is read; a ZIP
\* or a list of pages gives several pages, or none, any other result one.
ArchiveAnswered ==
    /\ at = "archive"
    /\ cursor' = cursor + 1
    /\ \/ /\ \E ending \in Endings("archive") : Keep("archive", 0, ending)
          /\ Leave("none")
          /\ pages' \in Answers(0, 0..MaxPages)
       \/ /\ \E e \in Unusable : Leave(e)
          /\ UNCHANGED pages
          /\ UNCHANGED artifacts \/ \E ending \in Endings("archive") : Keep("archive", 0, ending)
    /\ UNCHANGED <<config, job, fid, polls, total, cleaned, lost>>

\* The requests for page results: all pages as json, then all of every other type
\* in the order of the config, which names none twice (dict.fromkeys()).  That is
\* the list of the config with json moved to the front.
Kinds ==
    LET types == config.types
        json == {n \in DOMAIN types : types[n] = "json"}
    IN  [n \in 1..(IF json = {} THEN Len(types) + 1 ELSE Len(types)) |->
            IF n = 1 THEN "json" ELSE IF \A m \in json : n <= m THEN types[n - 1] ELSE types[n]]
Type == Kinds[(cursor \div total) + 1]
Page == (cursor % total) + 1
LastRequest == cursor + 1 = Len(Kinds) * total

\* Mutant of PageAnswered: the loop over the types restarts the pages at 2.
PageAnsweredSkipping ==
    /\ at = "page"
    /\ cursor' = cursor + (IF Page = total /\ ~LastRequest /\ total > 1 THEN 2 ELSE 1)
    /\ \E ending \in Endings(Type) : Keep(Type, Page, ending)
    /\ IF LastRequest THEN Leave("none") ELSE Go("page")
    /\ pages' = IF Type = "json" THEN Append(pages, [of |-> Page, number |-> Page]) ELSE pages
    /\ UNCHANGED <<config, job, fid, polls, total, cleaned, lost>>

\* POST /result for the next page and type.  A json page may come as a ZIP of
\* several; of the other types only the response is kept.
PageAnswered ==
    /\ at = "page"
    /\ cursor' = cursor + 1
    /\ \/ \E ending \in Endings(Type) :
             /\ Keep(Type, Page, ending)
             /\ IF LastRequest THEN Leave("none") ELSE Go("page")
             /\ IF Type = "json"
                THEN \E s \in Answers(Page, IF ending = "zip" THEN 1..MaxPages ELSE {1}) :
                         pages' = pages \o s
                ELSE UNCHANGED pages
       \/ /\ \E e \in Unkept : Leave(e)
          /\ UNCHANGED pages
          /\ UNCHANGED artifacts \/ \E ending \in Endings(Type) : Keep(Type, Page, ending)
    /\ UNCHANGED <<config, job, fid, polls, total, cleaned, lost>>

\* _bundle_artifacts(): one ZIP of all responses, unless one of them is a ZIP.
Bundled ==
    IF config.bundle /\ artifacts # <<>> /\ \A i \in DOMAIN artifacts : artifacts[i].ending # "zip"
    THEN Append(artifacts, [type |-> "bundle", page |-> 0, ending |-> "zip"])
    ELSE artifacts

\* The end of parse().  Without markdown in its pages the document gets that of the
\* .md artifacts, and one of them may not be UTF-8.
Finish ==
    /\ artifacts' = Bundled
    /\ \/ End("none")
       \/ End("exception") /\ \E i \in DOMAIN artifacts : artifacts[i].ending = "md"

\* _cleanup(): a refused or failed delete, or one not answered within its own
\* five seconds, is only noted.  The server may have carried it out all the same.
\* An error then goes on, and a call without one comes to its end.
CleanupAnswered ==
    /\ at = "cleanup"
    /\ \/ cleaned' = "yes" /\ job' = "gone" /\ UNCHANGED lost
       \/ cleaned' = "no" /\ job' \in {job, "gone"} /\ lost' = TRUE
    /\ IF raised = "none" THEN Finish ELSE End(raised) /\ UNCHANGED artifacts
    /\ UNCHANGED <<config, fid, polls, total, cursor, pages, raised>>

-----------------------------------------------------------------------------
(* Interruptions and the server *)

\* A submission in flight may reach the server, and then nobody knows its fid.
Abort(e) ==
    /\ Leave(e)
    /\ job' \in IF at = "submit" THEN {"none", "working"} ELSE {job}
    /\ lost' = (lost \/ job' # job)
    /\ UNCHANGED <<config, fid, polls, answers, cleaned>>

\* Mutant of Limit: it covers the submission and the results, not the polling.
LimitWithoutPolls == at \in Requests \ {"sleep", "poll"} /\ Abort("PARSER_TIMEOUT")

\* asyncio.timeout(timeout_seconds) around the requests, the delete excepted.
Limit == at \in Requests /\ Abort("PARSER_TIMEOUT")

\* The task is cancelled, or the pipeline's own limit passes (seen here as a
\* cancellation, too): the finally clause still runs, but is interrupted like
\* anything else when the second of them comes during the delete.
Interrupt ==
    \/ at \in Requests /\ Abort("cancelled")
    \/ /\ at = "cleanup"
       /\ End("cancelled")
       /\ job' \in {job, "gone"} /\ lost' = TRUE
       /\ UNCHANGED <<config, fid, polls, answers, cleaned, raised>>

JobAdvances ==
    /\ job = "working"
    /\ job' \in {"ready", "failed"}
    /\ UNCHANGED <<at, config, fid, polls, answers, cleaned, raised, result, lost>>

Next ==
    \/ \E valid \in BOOLEAN : Begin(valid)
    \/ SubmitAnswered \/ Polled \/ Slept \/ ArchiveAnswered \/ PageAnswered
    \/ CleanupAnswered \/ Limit \/ Interrupt \/ JobAdvances

Spec == Init /\ [][Next]_vars

\* The limits are timers of the event loop: one of them ends every wait.
FairSpec == Spec /\ WF_vars(Limit) /\ WF_vars(CleanupAnswered)

-----------------------------------------------------------------------------
(* Properties *)

\* A conversion stays on the server after the call only when the delete request
\* could not be sent (the fid was never received) or was not carried out, and a
\* delete that was reported as successful removed it: an error, a time limit or
\* a cancellation at any other await leaves nothing behind.
RemoteResultRemoved ==
    /\ at = "ended" /\ job \notin {"none", "gone"} => lost
    /\ cleaned = "yes" => job = "gone"

\* A call that returns has kept one response for every page and type it asked
\* for, in order, and its pages are those of the document in order, none missing,
\* whatever page_number the server gave them (result_delivery=pages; several pages
\* may stand for one answered by a ZIP).  Nothing but the bundle comes after them,
\* and a connector that asks for a bundle gets a ZIP.
PagesInOrder ==
    result = "returned" /\ config.delivery = "pages" =>
        LET n == Len(Kinds) * total IN
        /\ \A i \in 1..n : /\ artifacts[i].type = Kinds[((i - 1) \div total) + 1]
                           /\ artifacts[i].page = ((i - 1) % total) + 1
        /\ \/ Len(artifacts) = n
           \/ Len(artifacts) = n + 1 /\ artifacts[n + 1].type = "bundle"
        /\ config.bundle => \E i \in DOMAIN artifacts : artifacts[i].ending = "zip"
        /\ {pages[i].of : i \in DOMAIN pages} = 1..total
        /\ \A i \in 1..Len(pages) - 1 : pages[i].of <= pages[i + 1].of

\* Every call ends, whatever the server answers or leaves unanswered.
CallEnds == at \in Requests \cup {"cleanup"} ~> at = "ended"
=============================================================================
