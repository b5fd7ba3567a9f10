---------------------------- MODULE FasooAdapter ----------------------------
(***************************************************************************)
(* The deidentifier of adapters/deidentifiers/fasoo_http.py: every run of  *)
(* the process calls deidentify() of one shared adapter, which keeps one   *)
(* access token behind an asyncio lock, and each run exchanges files with  *)
(* the Fasoo server through its own staging directory on the NAS.          *)
(*                                                                         *)
(* A step of a call is what happens between two awaits.  The worker thread *)
(* that prepares the staging directory, and the requests the server works  *)
(* on, go on when the call that started them is cancelled or timed out.    *)
(* Tokens are numbered in the order the server issues them, the files of a *)
(* staging directory by the attempt of the run they were written for.      *)
(***************************************************************************)
EXTENDS Integers, FiniteSets

CONSTANTS
    Runs,           \* the runs that are deidentified
    MaxAttempts,    \* bound: how often each run is deidentified
    MaxRevoked      \* bound: how many tokens the server invalidates

ASSUME RunsAssumption == IsFiniteSet(Runs)
ASSUME BoundsAssumption == MaxAttempts \in [Runs -> Nat] /\ MaxRevoked \in Nat

VARIABLES
    at,        \* where the current call of each run stands
    attempt,   \* how many calls each run has made
    token,     \* the token a call sends, 0 before it has one
    refused,   \* the token of a call's first request that got 401, 0 if none
    cached,    \* _access_token, 0 for None
    ahead,     \* _token_lock: who holds it or queued for it before a call
    issued,    \* server: the number of tokens issued
    revoked,   \* server: the tokens it does not accept any more
    jobs,      \* server: files it has still to write, as <<run, attempt, file>>
    staging,   \* the artifacts in each staging directory, by attempt, 0 if absent
    threads,   \* prepare_staging calls not finished, as <<run, attempt>>
    got,       \* the attempt whose result.json a call has read
    overlap    \* history: a call began while remains of an earlier one were at work

adapter == <<at, attempt, token, refused, cached, ahead>>
files == <<jobs, staging, threads, got, overlap>>
vars == <<adapter, files, issued, revoked>>

(***************************************************************************)
(* idle      not called yet          prepare  awaiting prepare_staging      *)
(* lock      in _token, the head of the queue holds the lock                *)
(* login     awaiting the answer to the login request, holds the lock       *)
(* sent      a request with token is under way                              *)
(* served    the server accepted the request and works on it                *)
(* wait      in _wait_for_artifacts  copy  result.json is read              *)
(* done, failed, rejected   the call is over; rejected: by the second 401   *)
(***************************************************************************)
Ended == {"idle", "done", "failed", "rejected"}
Active == {"prepare", "lock", "login", "sent", "served", "wait", "copy"}

Files == {"result", "masked"}
\* The calls of a run, numbered from 1; 0 stands for none.
Attempts(r) == 0..MaxAttempts[r]

TypeOK ==
    /\ at \in [Runs -> Ended \cup Active]
    /\ attempt \in [Runs -> Nat] /\ \A r \in Runs : attempt[r] <= MaxAttempts[r]
    /\ token \in [Runs -> 0..issued]
    /\ refused \in [Runs -> 0..issued]
    /\ cached \in 0..issued
    /\ ahead \in [Runs -> SUBSET Runs]
    /\ issued \in Nat
    /\ revoked \subseteq 1..issued
    /\ jobs \subseteq Runs \X Nat \X Files
    /\ staging \in [Runs -> [Files -> Nat]]
    /\ threads \subseteq Runs \X Nat
    /\ got \in [Runs -> Nat]
    /\ overlap \in [Runs -> BOOLEAN]

Init ==
    /\ at = [r \in Runs |-> "idle"]
    /\ attempt = [r \in Runs |-> 0]
    /\ token = [r \in Runs |-> 0]
    /\ refused = [r \in Runs |-> 0]
    /\ cached = 0
    /\ ahead = [r \in Runs |-> {}]
    /\ issued = 0
    /\ revoked = {}
    /\ jobs = {}
    /\ staging = [r \in Runs |-> [f \in Files |-> 0]]
    /\ threads = {}
    /\ got = [r \in Runs |-> 0]
    /\ overlap = [r \in Runs |-> FALSE]

InLock == {r \in Runs : at[r] \in {"lock", "login"}}
HoldsLock(r) == r \in InLock /\ ahead[r] = {}

\* Something of run r goes on outside the current call.
AtWork(r) ==
    \/ \E n \in Attempts(r) : <<r, n>> \in threads
    \/ \E n \in Attempts(r), f \in Files : <<r, n, f>> \in jobs

LeaveLock(r) == ahead' = [x \in Runs |-> IF x = r THEN {} ELSE ahead[x] \ {r}]

-----------------------------------------------------------------------------
(* The call of a run *)

\* deidentify() starts the thread that prepares the staging directory.
Begin(r) ==
    /\ at[r] \in Ended
    /\ attempt[r] < MaxAttempts[r]
    /\ at' = [at EXCEPT ![r] = "prepare"]
    /\ attempt' = [attempt EXCEPT ![r] = @ + 1]
    /\ token' = [token EXCEPT ![r] = 0]
    /\ refused' = [refused EXCEPT ![r] = 0]
    /\ threads' = threads \cup {<<r, attempt[r] + 1>>}
    /\ overlap' = [overlap EXCEPT ![r] = AtWork(r)]
    /\ got' = [got EXCEPT ![r] = 0]
    /\ UNCHANGED <<cached, ahead, issued, revoked, jobs, staging>>

\* The call comes back to the event loop and asks for the token lock.
Prepared(r) ==
    /\ at[r] = "prepare"
    /\ <<r, attempt[r]>> \notin threads
    /\ at' = [at EXCEPT ![r] = "lock"]
    /\ ahead' = [ahead EXCEPT ![r] = InLock]
    /\ UNCHANGED <<attempt, token, refused, cached, issued, revoked, files>>

\* Mutant of Reusable: a refused call logs in again whatever is cached by now.
ReusableAtFirst(r) == cached # 0 /\ refused[r] = 0

\* Mutant of Reusable: the refused token is not looked at.
ReusableIfCached(r) == cached # 0

\* The test of _token under the lock: the cached token is not the refused one.
Reusable(r) == cached # 0 /\ (refused[r] = 0 \/ cached # refused[r])

\* The cached token is taken without logging in.
UseCached(r) ==
    /\ at[r] = "lock" /\ HoldsLock(r) /\ Reusable(r)
    /\ at' = [at EXCEPT ![r] = "sent"]
    /\ token' = [token EXCEPT ![r] = cached]
    /\ LeaveLock(r)
    /\ UNCHANGED <<attempt, refused, cached, issued, revoked, files>>

StartLogin(r) ==
    /\ at[r] = "lock" /\ HoldsLock(r) /\ ~Reusable(r)
    /\ at' = [at EXCEPT ![r] = "login"]
    /\ UNCHANGED <<attempt, token, refused, cached, ahead, issued, revoked, files>>

\* The login succeeds: the new token replaces the cached one.
LoggedIn(r) ==
    /\ at[r] = "login"
    /\ issued' = issued + 1
    /\ cached' = issued + 1
    /\ token' = [token EXCEPT ![r] = issued + 1]
    /\ at' = [at EXCEPT ![r] = "sent"]
    /\ LeaveLock(r)
    /\ UNCHANGED <<attempt, refused, revoked, files>>

\* Mutant of LoginFails: the lock is not freed.
LoginFailsInLock(r) ==
    /\ at[r] = "login"
    /\ at' = [at EXCEPT ![r] = "failed"]
    /\ issued' \in {issued, issued + 1}
    /\ UNCHANGED <<attempt, token, refused, cached, ahead, revoked, files>>

\* The login fails, times out after at most ten seconds, or the call is cancelled
\* meanwhile.  Leaving "async with" frees the lock; unknown to the call, the server
\* may have issued a token.
LoginFails(r) ==
    /\ at[r] = "login"
    /\ at' = [at EXCEPT ![r] = "failed"]
    /\ LeaveLock(r)
    /\ issued' \in {issued, issued + 1}
    /\ UNCHANGED <<attempt, token, refused, cached, revoked, files>>

\* 401 to the first request: back to the lock, with the token it refused.
Refuse(r) ==
    /\ at[r] = "sent" /\ token[r] \in revoked /\ refused[r] = 0
    /\ at' = [at EXCEPT ![r] = "lock"]
    /\ refused' = [refused EXCEPT ![r] = token[r]]
    /\ ahead' = [ahead EXCEPT ![r] = InLock]
    /\ UNCHANGED <<attempt, token, cached, issued, revoked, files>>

\* 401 to the second request ends the call.
Reject(r) ==
    /\ at[r] = "sent" /\ token[r] \in revoked /\ refused[r] # 0
    /\ at' = [at EXCEPT ![r] = "rejected"]
    /\ UNCHANGED <<attempt, token, refused, cached, ahead, issued, revoked, files>>

\* The server accepts the request and will write both files.
Accept(r) ==
    /\ at[r] = "sent" /\ token[r] \notin revoked
    /\ at' = [at EXCEPT ![r] = "served"]
    /\ jobs' = jobs \cup {<<r, attempt[r], f>> : f \in Files}
    /\ UNCHANGED <<attempt, token, refused, cached, ahead, issued, revoked,
                   staging, threads, got, overlap>>

\* The response arrives, possibly before the files are visible on the NAS.
Respond(r) ==
    /\ at[r] = "served"
    /\ at' = [at EXCEPT ![r] = "wait"]
    /\ UNCHANGED <<attempt, token, refused, cached, ahead, issued, revoked, files>>

\* Both files are there and result.json is read.
ReadResult(r) ==
    /\ at[r] = "wait"
    /\ \A f \in Files : staging[r][f] # 0
    /\ at' = [at EXCEPT ![r] = "copy"]
    /\ got' = [got EXCEPT ![r] = staging[r]["result"]]
    /\ UNCHANGED <<attempt, token, refused, cached, ahead, issued, revoked,
                   jobs, staging, threads, overlap>>

\* The masked file is taken; it may have been removed since it was seen.
TakeMasked(r) ==
    /\ at[r] = "copy"
    /\ at' = [at EXCEPT ![r] = IF staging[r]["masked"] = 0 THEN "failed" ELSE "done"]
    /\ UNCHANGED <<attempt, token, refused, cached, ahead, issued, revoked, files>>

\* The call ends early: its task is cancelled, the time limit of the pipeline or
\* of a request passes, the server or the file system answers with an error, or
\* the artifacts do not appear in time.  A request under way may still reach the
\* server, and a thread that has begun goes on.
GiveUp(r) ==
    /\ at[r] \in Active \ {"login"}
    /\ at' = [at EXCEPT ![r] = "failed"]
    /\ LeaveLock(r)
    /\ jobs' \in IF at[r] = "sent" /\ token[r] \notin revoked
                 THEN {jobs, jobs \cup {<<r, attempt[r], f>> : f \in Files}} ELSE {jobs}
    /\ threads' \in IF at[r] = "prepare"
                    THEN {threads, threads \ {<<r, attempt[r]>>}} ELSE {threads}
    /\ UNCHANGED <<attempt, token, refused, cached, issued, revoked, staging, got, overlap>>

-----------------------------------------------------------------------------
(* What goes on beside the calls *)

\* Mutant of PrepareStaging: result.json of an earlier attempt is left.
PrepareOver(r, n) ==
    /\ <<r, n>> \in threads
    /\ threads' = threads \ {<<r, n>>}
    /\ staging' = [staging EXCEPT ![r] = [@ EXCEPT !["masked"] = 0]]
    /\ UNCHANGED <<adapter, issued, revoked, jobs, got, overlap>>

\* prepare_staging() removes what an earlier attempt left and copies the input.
PrepareStaging(r, n) ==
    /\ <<r, n>> \in threads
    /\ threads' = threads \ {<<r, n>>}
    /\ staging' = [staging EXCEPT ![r] = [f \in Files |-> 0]]
    /\ UNCHANGED <<adapter, issued, revoked, jobs, got, overlap>>

\* The server writes a file of a request it accepted.
WriteFile(r, n, f) ==
    /\ <<r, n, f>> \in jobs
    /\ jobs' = jobs \ {<<r, n, f>>}
    /\ staging' = [staging EXCEPT ![r][f] = n]
    /\ UNCHANGED <<adapter, issued, revoked, threads, got, overlap>>

\* The server drops the rest of a request.
DropJob(r, n) ==
    /\ \E f \in Files : <<r, n, f>> \in jobs
    /\ jobs' = jobs \ {<<r, n, f>> : f \in Files}
    /\ UNCHANGED <<adapter, issued, revoked, staging, threads, got, overlap>>

\* A token expires or is invalidated by the server.
Revoke(t) ==
    /\ t \in 1..issued \ revoked
    /\ Cardinality(revoked) < MaxRevoked
    /\ revoked' = revoked \cup {t}
    /\ UNCHANGED <<adapter, files, issued>>

-----------------------------------------------------------------------------
GetToken(r) == UseCached(r) \/ StartLogin(r) \/ LoggedIn(r) \/ LoginFails(r)
Request(r) == Refuse(r) \/ Reject(r) \/ Accept(r) \/ Respond(r)
Collect(r) == ReadResult(r) \/ TakeMasked(r)

CallStep(r) ==
    Begin(r) \/ Prepared(r) \/ GetToken(r) \/ Request(r) \/ Collect(r) \/ GiveUp(r)

Beside ==
    \/ \E r \in Runs : \E n \in Attempts(r) :
        PrepareStaging(r, n) \/ DropJob(r, n) \/ \E f \in Files : WriteFile(r, n, f)
    \/ \E t \in 1..issued : Revoke(t)

Next == (\E r \in Runs : CallStep(r)) \/ Beside

Spec == Init /\ [][Next]_vars

\* The event loop runs what is ready, the lock is handed over in the order of its
\* queue, and a login ends within its time limit.
FairSpec == Spec /\ \A r \in Runs : WF_vars(GetToken(r))

-----------------------------------------------------------------------------
(* Properties *)

\* A login is under way only when there is no token to use or the server has
\* refused it, and never two at a time: calls refused together share one login.
LoginsAreNeeded ==
    \A r \in Runs : at[r] = "login" =>
        /\ cached = 0 \/ cached \in revoked
        /\ \A x \in Runs : at[x] = "login" => x = r

\* The second request of a call carries a token issued after the refused one,
\* whoever logged in meanwhile, and it is the last request of the call.
RetryUsesNewerToken ==
    \A r \in Runs :
        at[r] \in {"sent", "served", "wait", "copy", "done", "rejected"} /\ refused[r] # 0
        => token[r] > refused[r]

\* README.md:1059-1060: after a 401 the adapter logs in once more and repeats the
\* request.  So one invalidated token, or none, never makes a call fail.
OneRevocationIsHarmless ==
    Cardinality(revoked) <= 1 => \A r \in Runs : at[r] # "rejected"

\* What a call returns was written for this call: nothing that an earlier attempt
\* left in the staging directory is taken for the answer, unless the server or a
\* thread was still at work for an earlier attempt when this one began.
ArtifactsAreFresh ==
    \A r \in Runs : at[r] = "done" /\ ~overlap[r] =>
        got[r] = attempt[r] /\ staging[r]["masked"] = attempt[r]

\* The lock is passed on however the logins under it end, so no call that needs a
\* token waits for ever.
LockIsPassedOn == \A r \in Runs : at[r] = "lock" ~> at[r] # "lock"
=============================================================================
