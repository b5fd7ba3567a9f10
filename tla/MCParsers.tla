----------------------------- MODULE MCParsers -----------------------------
(***************************************************************************)
(* Model checking of the parser adapters, the normalizers and the storage  *)
(* of results.  They share no state while they run, so that one run checks *)
(* them side by side: a behaviour is one of the modules at work, and the   *)
(* others at rest.                                                         *)
(***************************************************************************)
EXTENDS ResultStorage, Sequences

CONSTANTS MaxPages, MaxPolls, MaxCancels, MaxItems, MaxBlocks,
          TypeLists   \* lists of result types a connector may ask Synap for

\* _artifact_result_types() leaves one of each; a document has a page at least.
ASSUME TypeListsAssumption ==
    \A types \in TypeLists :
        types \in Seq(STRING) /\ \A i, j \in DOMAIN types : types[i] = types[j] => i = j
ASSUME PagesAssumption == MaxPages \in Nat \ {0}

\* Values of the constants that a configuration file cannot write.
ResultTypes == {<<>>, <<"markdown">>, <<"xml", "json", "zip">>}
Orders == {-1, 0, 1}
Numbers == {0, 1, 2}
Kinds == {"synap", "paddle"}

VARIABLES
    part,                              \* the module at work
    at, raised, result,                \* of the adapter at work
    config, job, fid, polls, total, cursor, pages, artifacts, cleaned, lost,
    child, held, file, abandonedFile, failedFile, cancels, limited,
    kind, answer, text, placed, groups, blocks,
    source, numbers, raw, canonical, global_order, htmls

Synap == INSTANCE SynapAdapter
Command == INSTANCE CommandAdapter WITH config <- file, abandoned <- abandonedFile,
                                         failed <- failedFile
Http == INSTANCE HttpAdapters WITH pages <- blocks
Norm == INSTANCE Normalizers WITH kind <- source

adapter == <<at, raised, result>>
synap == <<config, job, fid, polls, total, cursor, pages, artifacts, cleaned, lost>>
command == <<child, held, file, abandonedFile, failedFile, cancels, limited>>
http == <<kind, answer, text, placed, groups, blocks>>
norm == <<source, numbers, raw, canonical, global_order, htmls>>
storage == <<status, row, attempt, stage, error, files>>
allVars == <<part, adapter, synap, command, http, norm, storage>>

Parts == {"synap", "command", "http", "normalize", "storage"}

AllInit ==
    /\ part \in Parts
    /\ Synap!Init /\ (part # "synap" => config = [delivery |-> "pages", types |-> <<>>, bundle |-> FALSE])
    /\ Command!Init
    /\ Http!Init /\ (part # "http" => kind = "generic")
    /\ Norm!Init /\ (part # "normalize" => raw = <<>> /\ source = "synap" /\ numbers = <<0, 0>>)
    /\ Init

AllNext ==
    \/ part = "synap" /\ Synap!Next
         /\ UNCHANGED <<part, command, http, norm, storage>>
    \/ part = "command" /\ Command!Next
         /\ UNCHANGED <<part, synap, http, norm, storage>>
    \/ part = "http" /\ Http!Next
         /\ UNCHANGED <<part, raised, synap, command, norm, storage>>
    \/ part = "normalize" /\ Norm!Next
         /\ UNCHANGED <<part, adapter, synap, command, http, storage>>
    \/ part = "storage" /\ Next
         /\ UNCHANGED <<part, adapter, synap, command, http, norm>>

Others == <<http, norm, storage, part>>

\* The fairness of the two adapters that are more than one request.
Fairness ==
    /\ WF_allVars(part = "synap" /\ Synap!Limit /\ UNCHANGED <<command, Others>>)
    /\ WF_allVars(part = "synap" /\ Synap!CleanupAnswered /\ UNCHANGED <<command, Others>>)
    /\ WF_allVars(part = "command" /\ Command!LoopGoesOn /\ UNCHANGED <<synap, Others>>)
    /\ WF_allVars(part = "command" /\ Command!TimeUp /\ UNCHANGED <<synap, Others>>)
    /\ WF_allVars(part = "command" /\ Command!KilledExits /\ UNCHANGED <<synap, Others>>)

AllSpec == AllInit /\ [][AllNext]_allVars /\ Fairness

-----------------------------------------------------------------------------

\* SynapAdapter: no conversion is left on the server (POST /delete in finally).
RemoteResultRemoved == part = "synap" => Synap!RemoteResultRemoved

\* SynapAdapter: pages and artifacts are complete and in order.
PagesInOrder == part = "synap" => Synap!PagesInOrder

\* CommandAdapter: no parser process is left, and config.json only if the
\* interruption or failure of its own writing, rendering or removal left it.
CallLeavesNothing == part = "command" => Command!CallLeavesNothing

\* SynapAdapter and CommandAdapter: every call ends by its time limit.
CallsEnd == (part = "synap" => Synap!CallEnds) /\ (part = "command" => Command!CallEnds)

\* HttpAdapters and Normalizers: a stored text has words and its blocks in the
\* order of the answer, blocks keep their place, and tables their HTML.
BlocksKeepOrder ==
    /\ part = "http" => Http!StoredTextHasWords /\ Http!BlocksKeepOrder
    /\ Norm!ReadingOrderKept /\ Norm!TableKeepsHtml

\* Of ResultStorage: WorkDirectoryKept and ResultIsPublished.
=============================================================================
