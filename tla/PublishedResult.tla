-------------------------- MODULE PublishedResult --------------------------
(***************************************************************************)
(* What a run promises to whoever reads its result: a run that is          *)
(* SUCCEEDED shows the complete output of one attempt, the same until the  *)
(* run is attempted again, and an attempt that succeeds shows its own.     *)
(* Once an attempt has run beside the abandoned threads of an earlier one  *)
(* (tainted), nothing is promised.                                         *)
(***************************************************************************)
EXTENDS Naturals

VARIABLES
    status,  \* parse_status
    attempt, \* attempts so far
    content, \* the attempts whose output a reader sees, {} unless SUCCEEDED
    tainted  \* an attempt ran beside the threads of an earlier one

vars == <<status, attempt, content, tainted>>

Init ==
    /\ status = "PENDING" /\ attempt = 0
    /\ content = {} /\ tainted = FALSE

Attempt ==
    /\ status # "RUNNING"
    /\ status' = "RUNNING" /\ attempt' = attempt + 1 /\ content' = {}
    /\ tainted' \in BOOLEAN /\ (tainted => tainted')

Publish ==
    /\ status = "RUNNING" /\ ~tainted
    /\ status' = "SUCCEEDED" /\ content' = {attempt}
    /\ UNCHANGED <<attempt, tainted>>

Break ==
    /\ status = "RUNNING"
    /\ status' \in {"FAILED", "INTERRUPTED"}
    /\ UNCHANGED <<attempt, content, tainted>>

\* Nothing is promised any more, except that a run is attempted from the start.
Anything ==
    /\ tainted /\ tainted'
    /\ attempt' \in {attempt, attempt + 1}

Next == Attempt \/ Publish \/ Break \/ Anything

Spec == Init /\ [][Next]_vars
=============================================================================
