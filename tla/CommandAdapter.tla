--------------------------- MODULE CommandAdapter ---------------------------
(***************************************************************************)
(* One call of GenericCommandParserAdapter.parse() (adapters/parsers/      *)
(* generic_command.py, which docling_command.py inherits): write the       *)
(* config file, start the parser, read its output until it exits, remove   *)
(* the config file, look for what the parser wrote.  The call is           *)
(* interrupted at any await by a cancellation or by the time limit of the  *)
(* pipeline, and the child process by the call's own time limit.           *)
(***************************************************************************)
EXTENDS Naturals

CONSTANT MaxCancels   \* cancellations of the task during one call

VARIABLES
    at,        \* where the call stands (below)
    child,     \* the parser process
    held,      \* a descendant of the parser holds its stdout or stderr open
    config,    \* config.json and the thread that writes or removes it
    abandoned, \* the file operation whose await was interrupted
    failed,    \* what else kept config.json: the write, the command line or the unlink failed
    raised,    \* the error on its way out of the try block
    result,    \* what the call returned or raised
    cancels,   \* cancellations so far
    limited    \* the pipeline's time limit has passed

vars == <<at, child, held, config, abandoned, failed, raised, result, cancels, limited>>

(***************************************************************************)
(* idle     no call yet           write    to_thread(write_text)            *)
(* spawn    create_subprocess_exec talk     wait_for(communicate())         *)
(* reap     communicate() after a kill      unlink  to_thread(unlink)       *)
(* discover to_thread(_discover_outputs)    ended   returned or raised      *)
(***************************************************************************)
Awaits == {"write", "spawn", "talk", "reap", "unlink", "discover"}
Errors == {"PARSER_CONFIGURATION_INVALID", "PARSER_EXECUTION_FAILED",
           "PARSER_OUTPUT_NOT_FOUND", "PARSER_TIMEOUT", "cancelled",
           "exception"}   \* of another class: OSError, ProcessLookupError, ValueError

TypeOK ==
    /\ at \in Awaits \cup {"idle", "ended"}
    /\ child \in {"none", "running", "killed", "exited"}
    /\ held \in BOOLEAN /\ limited \in BOOLEAN
    /\ config \in {"absent", "writing", "present", "removing"}
    /\ abandoned \in {"none", "write", "unlink"}
    /\ failed \in {"none", "write", "render", "unlink"}
    /\ raised \in Errors \cup {"none"}
    /\ result \in Errors \cup {"none", "returned"}
    /\ (result # "none") <=> (at = "ended")
    /\ cancels \in Nat

Init ==
    /\ at = "idle" /\ child = "none" /\ held = FALSE /\ config = "absent"
    /\ abandoned = "none" /\ failed = "none" /\ raised = "none" /\ result = "none"
    /\ cancels = 0 /\ limited = FALSE

End(e) == at' = "ended" /\ result' = e /\ UNCHANGED raised

\* The finally clause: config.json exists, and a thread removes it.
Finally(e) == at' = "unlink" /\ config' = "removing" /\ raised' = e /\ UNCHANGED result

\* A kill is followed by a second communicate().
Reap(e) ==
    /\ at' = "reap" /\ raised' = e
    /\ child' = IF child = "running" THEN "killed" ELSE child
    /\ UNCHANGED <<config, result>>

timers == <<cancels, limited>>
files == <<abandoned, failed>>

-----------------------------------------------------------------------------
(* The call *)

\* A connector without a template is refused before anything is written.
Begin(template) ==
    /\ at = "idle"
    /\ IF template
       THEN at' = "write" /\ config' = "writing" /\ UNCHANGED <<raised, result>>
       ELSE End("PARSER_CONFIGURATION_INVALID") /\ UNCHANGED config
    /\ UNCHANGED <<child, held, files, timers>>

\* The thread writes config.json, awaited or not.  The command line is rendered
\* before the try: an error there leaves the file.
ConfigWritten ==
    /\ config = "writing"
    /\ config' = "present"
    /\ IF at # "write" THEN UNCHANGED <<at, failed, raised, result>>
       ELSE \/ at' = "spawn" /\ UNCHANGED <<failed, raised, result>>
            \/ failed' = "render" /\ End("exception")
    /\ UNCHANGED <<child, held, abandoned, timers>>

\* write_text() fails before or after it has created the file.
WriteFails ==
    /\ config = "writing"
    /\ config' \in {"absent", "present"} /\ failed' = "write"
    /\ IF at = "write" THEN End("exception") ELSE UNCHANGED <<at, raised, result>>
    /\ UNCHANGED <<child, held, abandoned, timers>>

\* The parser starts, with or without a descendant sharing its pipes, or cannot:
\* it is not found, or another error.
Spawn ==
    /\ at = "spawn"
    /\ \/ /\ child' = "running" /\ held' \in BOOLEAN
          /\ at' = "talk" /\ UNCHANGED <<config, raised, result>>
       \/ /\ Finally("PARSER_EXECUTION_FAILED") \/ Finally("exception")
          /\ UNCHANGED <<child, held>>
    /\ UNCHANGED <<files, timers>>

Silent == child = "exited" /\ ~held

\* communicate() returns when both pipes are closed and the parser has exited.
Communicated ==
    /\ at = "talk" /\ Silent
    /\ Finally("none")
    /\ UNCHANGED <<child, held, files, timers>>

Reaped ==
    /\ at = "reap" /\ Silent
    /\ Finally(raised)
    /\ UNCHANGED <<child, held, files, timers>>

\* The time limit of the connector.  A parser that has just ended, its pipes
\* closed, cannot be killed: ProcessLookupError takes the place of the time-out.
TimeUp ==
    /\ at = "talk"
    /\ IF Silent
       THEN Finally("exception") /\ UNCHANGED child
       ELSE Reap("PARSER_TIMEOUT")
    /\ UNCHANGED <<held, files, timers>>

\* The config file is gone.  An error goes on, an exit code other than 0 is one.
ConfigRemoved ==
    /\ config = "removing"
    /\ config' = "absent"
    /\ IF at # "unlink" THEN UNCHANGED <<at, raised, result>>
       ELSE \/ raised # "none" /\ End(raised)
            \/ raised = "none" /\ End("PARSER_EXECUTION_FAILED")
            \/ raised = "none" /\ at' = "discover" /\ UNCHANGED <<raised, result>>
    /\ UNCHANGED <<child, held, files, timers>>

\* unlink() fails; its error takes the place of the one on its way out.
UnlinkFails ==
    /\ config = "removing"
    /\ config' = "present" /\ failed' = "unlink"
    /\ IF at = "unlink" THEN End("exception") ELSE UNCHANGED <<at, raised, result>>
    /\ UNCHANGED <<child, held, abandoned, timers>>

\* _discover_outputs() finds a file of a supported kind, the parser has printed
\* something, or there is no output.
Discovered ==
    /\ at = "discover"
    /\ End("returned") \/ End("PARSER_OUTPUT_NOT_FOUND")
    /\ UNCHANGED <<child, held, config, files, timers>>

-----------------------------------------------------------------------------
(* Interruptions *)

\* The thread of an abandoned file operation goes on once it has begun; one still
\* queued is dropped.
AbandonFile(op, undone) ==
    /\ abandoned' = op
    /\ End("cancelled") /\ config' \in {config, undone}
    /\ UNCHANGED child

\* Mutant of CancelledError: the parser is not killed.
CancelledErrorOnly ==
    \/ at = "write" /\ AbandonFile("write", "absent")
    \/ at = "spawn" /\ Finally("cancelled") /\ UNCHANGED <<child, abandoned>>
    \/ at \in {"talk", "reap"} /\ Finally("cancelled") /\ UNCHANGED <<child, abandoned>>
    \/ at = "unlink" /\ AbandonFile("unlink", "present")
    \/ at = "discover" /\ End("cancelled") /\ UNCHANGED <<child, config, abandoned>>

\* CancelledError at each await.  A parser that has not exited is killed and
\* reaped, once more if the interruption came while it was reaped after the time
\* limit; while it is reaped after an interruption, the handler is left at once.
CancelledError ==
    \/ at = "write" /\ AbandonFile("write", "absent")
    \/ at = "spawn" /\ Finally("cancelled") /\ UNCHANGED <<child, abandoned>>
    \/ /\ at = "talk" \/ (at = "reap" /\ raised = "PARSER_TIMEOUT")
       /\ IF child = "exited"
          THEN Finally("cancelled") /\ UNCHANGED child
          ELSE Reap("cancelled")
       /\ UNCHANGED abandoned
    \/ at = "reap" /\ raised = "cancelled" /\ Finally("cancelled") /\ UNCHANGED <<child, abandoned>>
    \/ at = "unlink" /\ AbandonFile("unlink", "present")
    \/ at = "discover" /\ End("cancelled") /\ UNCHANGED <<child, config, abandoned>>

Cancel ==
    /\ cancels < MaxCancels
    /\ cancels' = cancels + 1
    /\ CancelledError
    /\ UNCHANGED <<held, failed, limited>>

\* wait_for(parse(), timeout_seconds + 1) in the pipeline.
Limit ==
    /\ ~limited /\ limited' = TRUE
    /\ CancelledError
    /\ UNCHANGED <<held, failed, cancels>>

\* The parser and its descendants.
Exit ==
    /\ child \in {"running", "killed"}
    /\ child' = "exited"
    /\ UNCHANGED <<at, held, config, files, raised, result, timers>>

Release ==
    /\ held
    /\ held' = FALSE
    /\ UNCHANGED <<at, child, config, files, raised, result, timers>>

Next ==
    \/ \E template \in BOOLEAN : Begin(template)
    \/ ConfigWritten \/ WriteFails \/ Spawn \/ Communicated \/ Reaped \/ TimeUp
    \/ ConfigRemoved \/ UnlinkFails \/ Discovered \/ Cancel \/ Limit \/ Exit \/ Release

Spec == Init /\ [][Next]_vars

\* The event loop and its workers go on, the timers fire, and the operating
\* system ends a killed process; a parser or a descendant may run forever.
LoopGoesOn ==
    \/ ConfigWritten \/ WriteFails \/ Spawn \/ Communicated \/ Reaped
    \/ ConfigRemoved \/ UnlinkFails \/ Discovered
KilledExits == child = "killed" /\ Exit

FairSpec == Spec /\ WF_vars(LoopGoesOn) /\ WF_vars(TimeUp) /\ WF_vars(KilledExits)

-----------------------------------------------------------------------------
(* Properties *)

\* No parser goes on in the background once its call has ended: it has exited or
\* was killed, whichever of the time limit, a cancellation and its own exit came
\* first, and however often the call was interrupted.
ChildEndsWithCall == at = "ended" => child # "running"

\* config.json, which may hold sensitive options, is left by a call in these cases
\* only: the await of the very thread that writes or removes it was interrupted, or
\* the write, the rendering of the command line or the removal failed.  A call that
\* has started its parser leaves it only if the removal was interrupted or failed.
ConfigIsRunScoped ==
    at = "ended" /\ config # "absent" =>
        /\ abandoned # "none" \/ failed # "none"
        /\ child # "none" => abandoned = "unlink" \/ failed = "unlink"

\* Neither a parser nor, with these exceptions, its config file outlives the call.
CallLeavesNothing == ChildEndsWithCall /\ ConfigIsRunScoped

\* A call ends by itself after its time limit, unless a descendant of a parser
\* that has exited keeps its pipes open.
CallEnds == at \in Awaits ~> (at = "ended" \/ (child = "exited" /\ held))
=============================================================================
