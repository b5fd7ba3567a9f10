------------------------- MODULE FasooAdapterProofs -------------------------
(***************************************************************************)
(* The token and the artifacts of FasooAdapter, for every set of runs and  *)
(* every bound on attempts and revocations.                                *)
(*                                                                         *)
(* The token properties hold because tokens move forward: a refused token  *)
(* is revoked and not newer than the cached one, which only the holder of  *)
(* the lock replaces.  That there is one holder needs the order of the     *)
(* queue (LockInv), that a login is needed while it is under way needs     *)
(* that nobody else changes the cached token meanwhile (TokenInv).         *)
(* ArtifactsAreFresh needs where the files, the requests and the threads   *)
(* of a run come from at every stage of its call (FilesInv).               *)
(***************************************************************************)
EXTENDS FasooAdapter, FiniteSetTheorems, TLAPS

\* The queue of the lock is a total order, and who logs in is at its head.
LockInv ==
    /\ \A r \in Runs : ahead[r] \subseteq InLock
    /\ \A x, y \in InLock : x # y => x \in ahead[y] \/ y \in ahead[x]
    /\ \A r \in Runs : at[r] = "login" => ahead[r] = {}

TokenInv ==
    /\ \A r \in Runs : refused[r] = 0 \/ (refused[r] \in revoked /\ refused[r] <= cached)
    /\ \A r \in Runs : token[r] <= cached
    /\ \A r \in Runs : at[r] = "login" => ~Reusable(r)
    /\ RetryUsesNewerToken
    /\ \A r \in Runs : at[r] = "rejected" => refused[r] # 0 /\ token[r] \in revoked

\* After the staging directory was prepared for the current attempt.
Staged(r) ==
    \/ at[r] \in {"lock", "login", "sent", "served", "wait", "copy", "done"}
    \/ at[r] = "prepare" /\ <<r, attempt[r]>> \notin threads

FilesInv ==
    /\ \A r \in Runs, n \in Nat : <<r, n>> \in threads => n <= attempt[r]
    /\ \A r \in Runs, n \in Nat, f \in Files : <<r, n, f>> \in jobs => n <= attempt[r]
    /\ \A r \in Runs : ~overlap[r] =>
        /\ \A n \in Nat : <<r, n>> \in threads => n = attempt[r]
        /\ \A n \in Nat, f \in Files : <<r, n, f>> \in jobs => n = attempt[r]
        /\ Staged(r) => /\ <<r, attempt[r]>> \notin threads
                           /\ \A f \in Files : staging[r][f] \in {0, attempt[r]}
        /\ at[r] \in {"copy", "done"} => got[r] = attempt[r]
        /\ at[r] = "done" => staging[r]["masked"] = attempt[r]

-----------------------------------------------------------------------------
(* Types *)

LEMMA TypesInit == Init => TypeOK
<1> SUFFICES ASSUME Init PROVE TypeOK
  OBVIOUS
<1>1. 0 \in Nat /\ \A r \in Runs : MaxAttempts[r] \in Nat /\ 0 <= MaxAttempts[r]
  BY BoundsAssumption
<1>2. 0 \in 0..issued /\ issued \in Nat /\ revoked \subseteq 1..issued
  BY DEF Init
<1>3. /\ attempt \in [Runs -> Nat] /\ \A r \in Runs : attempt[r] <= MaxAttempts[r]
      /\ staging \in [Runs -> [Files -> Nat]]
      /\ got \in [Runs -> Nat]
  BY <1>1 DEF Init
<1>4. /\ token \in [Runs -> 0..issued]
      /\ refused \in [Runs -> 0..issued]
      /\ cached \in 0..issued
  BY <1>2 DEF Init
<1>5. /\ at \in [Runs -> Ended \cup Active]
      /\ ahead \in [Runs -> SUBSET Runs]
      /\ overlap \in [Runs -> BOOLEAN]
      /\ jobs = {} /\ threads = {}
  BY DEF Init, Ended
<1> QED BY <1>2, <1>3, <1>4, <1>5 DEF TypeOK

LEMMA TypesStep == TypeOK /\ [Next]_vars => TypeOK'
<1> SUFFICES ASSUME TypeOK, [Next]_vars PROVE TypeOK'
  OBVIOUS
<1>0. \A r \in Runs : MaxAttempts[r] \in Nat
  BY BoundsAssumption
<1> USE DEF TypeOK, Ended, Active, adapter, files, LeaveLock, InLock
<1>1. ASSUME NEW r \in Runs, Begin(r) PROVE TypeOK'
  <2>1. attempt' \in [Runs -> Nat] /\ \A x \in Runs : attempt'[x] <= MaxAttempts[x]
    BY <1>1, <1>0 DEF Begin
  <2>2. threads' \subseteq Runs \X Nat
    BY <1>1 DEF Begin
  <2>3. overlap' \in [Runs -> BOOLEAN]
    BY <1>1 DEF Begin, AtWork
  <2> QED BY <1>1, <2>1, <2>2, <2>3 DEF Begin
<1>2. ASSUME NEW r \in Runs, Prepared(r) PROVE TypeOK'
  BY <1>2 DEF Prepared
<1>3. ASSUME NEW r \in Runs, UseCached(r) PROVE TypeOK'
  BY <1>3 DEF UseCached
<1>4. ASSUME NEW r \in Runs, StartLogin(r) PROVE TypeOK'
  BY <1>4 DEF StartLogin
<1>5. ASSUME NEW r \in Runs, LoggedIn(r) PROVE TypeOK'
  BY <1>5 DEF LoggedIn
<1>6. ASSUME NEW r \in Runs, LoginFails(r) PROVE TypeOK'
  BY <1>6 DEF LoginFails
<1>7. ASSUME NEW r \in Runs, Refuse(r) PROVE TypeOK'
  BY <1>7 DEF Refuse
<1>8. ASSUME NEW r \in Runs, Reject(r) PROVE TypeOK'
  BY <1>8 DEF Reject
<1>9. ASSUME NEW r \in Runs, Accept(r) PROVE TypeOK'
  BY <1>9 DEF Accept
<1>10. ASSUME NEW r \in Runs, Respond(r) PROVE TypeOK'
  BY <1>10 DEF Respond
<1>11. ASSUME NEW r \in Runs, ReadResult(r) PROVE TypeOK'
  BY <1>11 DEF ReadResult, Files
<1>12. ASSUME NEW r \in Runs, TakeMasked(r) PROVE TypeOK'
  BY <1>12 DEF TakeMasked
<1>13. ASSUME NEW r \in Runs, GiveUp(r) PROVE TypeOK'
  BY <1>13 DEF GiveUp
<1>14. ASSUME NEW r \in Runs, NEW n \in Nat, PrepareStaging(r, n) PROVE TypeOK'
  BY <1>14 DEF PrepareStaging
<1>15. ASSUME NEW r \in Runs, NEW n \in Nat, DropJob(r, n) PROVE TypeOK'
  BY <1>15 DEF DropJob
<1>16. ASSUME NEW r \in Runs, NEW n \in Nat, NEW f \in Files, WriteFile(r, n, f) PROVE TypeOK'
  BY <1>16 DEF WriteFile
<1>17. ASSUME NEW t \in 1..issued, Revoke(t) PROVE TypeOK'
  BY <1>17 DEF Revoke
<1>18. CASE UNCHANGED vars
  BY <1>18 DEF vars
<1> QED BY <1>0, <1>1, <1>2, <1>3, <1>4, <1>5, <1>6, <1>7, <1>8, <1>9, <1>10, <1>11, <1>12,
           <1>13, <1>14, <1>15, <1>16, <1>17, <1>18
        DEF Next, CallStep, Beside, GetToken, Request, Collect, Attempts

-----------------------------------------------------------------------------
(* The lock and the token *)

LEMMA LockInit == Init => LockInv
BY DEF Init, LockInv, InLock

\* Call r, and no other, leaves the lock or its queue, if it was there.
Leaves(r) ==
    /\ at'[r] \notin {"lock", "login"}
    /\ \A x \in Runs \ {r} : at'[x] = at[x]
    /\ LeaveLock(r)

LEMMA LockStep == TypeOK /\ LockInv /\ [Next]_vars => LockInv'
<1> SUFFICES ASSUME TypeOK, LockInv, [Next]_vars PROVE LockInv'
  OBVIOUS
<1>a. ASSUME UNCHANGED <<at, ahead>> PROVE LockInv'
  BY <1>a DEF LockInv, InLock
<1>b. ASSUME NEW r \in Runs, NEW s, at' = [at EXCEPT ![r] = s], s \notin {"lock", "login"},
             at[r] \notin {"lock", "login"}, UNCHANGED ahead
      PROVE LockInv'
  BY <1>b DEF LockInv, InLock, TypeOK
<1>c. ASSUME NEW r \in Runs, at' = [at EXCEPT ![r] = "lock"], r \notin InLock,
             ahead' = [ahead EXCEPT ![r] = InLock]
      PROVE LockInv'
  BY <1>c DEF LockInv, InLock, TypeOK
<1>d. ASSUME NEW r \in Runs, Leaves(r) PROVE LockInv'
  BY <1>d DEF LockInv, InLock, TypeOK, LeaveLock, Leaves
<1>1. ASSUME NEW r \in Runs, CallStep(r) PROVE LockInv'
  <2>1. CASE Begin(r)
    BY <2>1, <1>b DEF Begin, Ended
  <2>2. CASE Prepared(r)
    BY <2>2, <1>c DEF Prepared, InLock
  <2>3. CASE UseCached(r)
    <3>1. Leaves(r)
      BY <2>3 DEF UseCached, Leaves, TypeOK
    <3> QED BY <3>1, <1>d
  <2>4. CASE StartLogin(r)
    BY <2>4 DEF StartLogin, LockInv, InLock, HoldsLock, TypeOK
  <2>5. CASE LoggedIn(r)
    <3>1. Leaves(r)
      BY <2>5 DEF LoggedIn, Leaves, TypeOK
    <3> QED BY <3>1, <1>d
  <2>6. CASE LoginFails(r)
    <3>1. Leaves(r)
      BY <2>6 DEF LoginFails, Leaves, TypeOK
    <3> QED BY <3>1, <1>d
  <2>7. CASE Refuse(r)
    BY <2>7, <1>c DEF Refuse, InLock
  <2>8. CASE Reject(r)
    BY <2>8, <1>b DEF Reject
  <2>9. CASE Accept(r)
    BY <2>9, <1>b DEF Accept
  <2>10. CASE Respond(r)
    BY <2>10, <1>b DEF Respond
  <2>11. CASE ReadResult(r)
    BY <2>11, <1>b DEF ReadResult
  <2>12. CASE TakeMasked(r)
    BY <2>12, <1>b DEF TakeMasked
  <2>13. CASE GiveUp(r)
    <3>1. Leaves(r)
      BY <2>13 DEF GiveUp, Leaves, TypeOK
    <3> QED BY <3>1, <1>d
  <2> QED BY <1>1, <2>1, <2>2, <2>3, <2>4, <2>5, <2>6, <2>7, <2>8, <2>9, <2>10, <2>11,
             <2>12, <2>13 DEF CallStep, GetToken, Request, Collect
<1>2. CASE Beside
  BY <1>2, <1>a DEF Beside, PrepareStaging, DropJob, WriteFile, Revoke, adapter
<1>3. CASE UNCHANGED vars
  BY <1>3, <1>a DEF vars, adapter
<1> QED BY <1>1, <1>2, <1>3 DEF Next

\* There is one holder, so one login at a time.
LEMMA OneLogin ==
  ASSUME LockInv, NEW x \in Runs, NEW y \in Runs, at[x] = "login", at[y] = "login"
  PROVE  x = y
BY DEF LockInv, InLock

LEMMA TokenInit == Init => TokenInv
BY DEF Init, TokenInv, RetryUsesNewerToken

LEMMA TokenStep == TypeOK /\ LockInv /\ TokenInv /\ [Next]_vars => TokenInv'
<1> SUFFICES ASSUME TypeOK, LockInv, TokenInv, [Next]_vars PROVE TokenInv'
  OBVIOUS
<1>0. cached \in Int /\ \A x \in Runs : refused[x] \in Int /\ token[x] \in Int
  BY DEF TypeOK
<1>00. \A x \in Runs : Reusable(x) => refused[x] = 0 \/ refused[x] < cached
  BY <1>0 DEF Reusable, TokenInv
<1> USE DEF TypeOK, TokenInv, RetryUsesNewerToken, Reusable
<1>a. ASSUME UNCHANGED <<at, token, refused, cached>>, revoked \subseteq revoked'
      PROVE TokenInv'
  BY <1>a
<1>b. ASSUME NEW r \in Runs, NEW s, at' = [at EXCEPT ![r] = s],
             s \in {"prepare", "lock", "failed"}
                \/ (at[r] \in {"sent", "served", "wait", "copy"}
                    /\ s \in {"served", "wait", "copy", "done"}),
             UNCHANGED <<token, refused, cached, revoked>>
      PROVE TokenInv'
  BY <1>b
<1>1. ASSUME NEW r \in Runs, CallStep(r) PROVE TokenInv'
  <2>1. CASE Begin(r)
    BY <2>1 DEF Begin
  <2>2. CASE Prepared(r)
    BY <2>2, <1>b DEF Prepared, files
  <2>3. CASE UseCached(r)
    <3>0. refused[r] = 0 \/ refused[r] < cached
      BY <2>3, <1>00 DEF UseCached
    <3>1. /\ at' = [at EXCEPT ![r] = "sent"] /\ token' = [token EXCEPT ![r] = cached]
          /\ UNCHANGED <<refused, cached, revoked>>
      BY <2>3 DEF UseCached
    <3>2. \A x \in Runs : token'[x] <= cached'
      BY <3>1
    <3> QED BY <3>0, <3>1, <3>2
  <2>4. CASE StartLogin(r)
    BY <2>4 DEF StartLogin
  <2>5. CASE LoggedIn(r)
    BY <2>5, OneLogin DEF LoggedIn
  <2>6. CASE LoginFails(r)
    BY <2>6, <1>b DEF LoginFails
  <2>7. CASE Refuse(r)
    BY <2>7 DEF Refuse
  <2>8. CASE Reject(r)
    BY <2>8 DEF Reject
  <2>9. CASE Accept(r)
    BY <2>9, <1>b DEF Accept
  <2>10. CASE Respond(r)
    BY <2>10, <1>b DEF Respond
  <2>11. CASE ReadResult(r)
    BY <2>11, <1>b DEF ReadResult
  <2>12. CASE TakeMasked(r)
    BY <2>12, <1>b DEF TakeMasked
  <2>13. CASE GiveUp(r)
    BY <2>13, <1>b DEF GiveUp
  <2> QED BY <1>1, <2>1, <2>2, <2>3, <2>4, <2>5, <2>6, <2>7, <2>8, <2>9, <2>10, <2>11,
             <2>12, <2>13 DEF CallStep, GetToken, Request, Collect
<1>2. CASE Beside
  BY <1>2, <1>a DEF Beside, PrepareStaging, DropJob, WriteFile, Revoke, adapter
<1>3. CASE UNCHANGED vars
  BY <1>3, <1>a DEF vars, adapter
<1> QED BY <1>1, <1>2, <1>3 DEF Next

-----------------------------------------------------------------------------
(* The artifacts *)

LEMMA FilesInit == Init => FilesInv
BY DEF Init, FilesInv, Staged

\* An attempt that begins with nothing left at work is the only one at work.
LEMMA BeginKeeps ==
  ASSUME TypeOK, FilesInv, NEW r \in Runs, Begin(r)
  PROVE  FilesInv'
<1>0. attempt[r] \in Nat /\ attempt[r] < MaxAttempts[r] /\ MaxAttempts[r] \in Nat
  BY BoundsAssumption DEF TypeOK, Begin
<1>1. /\ at' = [at EXCEPT ![r] = "prepare"]
      /\ attempt' = [attempt EXCEPT ![r] = attempt[r] + 1]
      /\ threads' = threads \cup {<<r, attempt[r] + 1>>}
      /\ overlap' = [overlap EXCEPT ![r] = AtWork(r)]
      /\ got' = [got EXCEPT ![r] = 0]
      /\ jobs' = jobs /\ staging' = staging
  BY DEF Begin
<1>2. ASSUME ~overlap'[r]
      PROVE  /\ \A n \in Nat : <<r, n>> \notin threads
             /\ \A n \in Nat, f \in Files : <<r, n, f>> \notin jobs
  <2>1. ~AtWork(r)
    BY <1>1, <1>2 DEF TypeOK
  <2>2. \A n \in Nat : n <= attempt[r] => n \in Attempts(r)
    BY <1>0 DEF Attempts
  <2> QED BY <2>1, <2>2 DEF AtWork, FilesInv
<1>3. /\ \A x \in Runs, n \in Nat : <<x, n>> \in threads' => n <= attempt'[x]
      /\ \A x \in Runs, n \in Nat, f \in Files : <<x, n, f>> \in jobs' => n <= attempt'[x]
  BY <1>0, <1>1 DEF FilesInv, TypeOK
<1>4. ASSUME NEW x \in Runs, ~overlap'[x]
      PROVE  /\ \A n \in Nat : <<x, n>> \in threads' => n = attempt'[x]
             /\ \A n \in Nat, f \in Files : <<x, n, f>> \in jobs' => n = attempt'[x]
             /\ Staged(x)' => /\ <<x, attempt'[x]>> \notin threads'
                              /\ \A f \in Files : staging'[x][f] \in {0, attempt'[x]}
             /\ at'[x] \in {"copy", "done"} => got'[x] = attempt'[x]
             /\ at'[x] = "done" => staging'[x]["masked"] = attempt'[x]
  <2>1. CASE x = r
    BY <1>1, <1>2, <1>4, <2>1 DEF TypeOK, Staged
  <2>2. CASE x # r
    BY <1>1, <1>4, <2>2 DEF TypeOK, FilesInv, Staged
  <2> QED BY <2>1, <2>2
<1> QED BY <1>3, <1>4 DEF FilesInv

LEMMA FilesStep == TypeOK /\ FilesInv /\ [Next]_vars => FilesInv'
<1> SUFFICES ASSUME TypeOK, FilesInv, [Next]_vars PROVE FilesInv'
  OBVIOUS
<1> USE DEF TypeOK, FilesInv, Staged
\* Steps between two stages at which the files are settled in the same way.
<1>a. ASSUME NEW r \in Runs,
             \A x \in Runs \ {r} : at'[x] = at[x],
             \/ at'[r] \in Ended \ {"done"}
             \/ Staged(r) /\ at'[r] \in {"lock", "login", "sent", "served", "wait"},
             UNCHANGED <<attempt, files>>
      PROVE FilesInv'
  BY <1>a DEF files, Ended
<1>1. ASSUME NEW r \in Runs, CallStep(r) PROVE FilesInv'
  <2>1. CASE Begin(r)
    BY <2>1, BeginKeeps
  <2>2. CASE Prepared(r)
    BY <2>2, <1>a DEF Prepared
  <2>3. CASE UseCached(r)
    BY <2>3, <1>a DEF UseCached
  <2>4. CASE StartLogin(r)
    BY <2>4, <1>a DEF StartLogin
  <2>5. CASE LoggedIn(r)
    BY <2>5, <1>a DEF LoggedIn
  <2>6. CASE LoginFails(r)
    BY <2>6, <1>a DEF LoginFails, Ended
  <2>7. CASE Refuse(r)
    BY <2>7, <1>a DEF Refuse
  <2>8. CASE Reject(r)
    BY <2>8, <1>a DEF Reject, Ended
  <2>9. CASE Accept(r)
    BY <2>9 DEF Accept
  <2>10. CASE Respond(r)
    BY <2>10, <1>a DEF Respond
  <2>11. CASE ReadResult(r)
    BY <2>11 DEF ReadResult, Files
  <2>12. CASE TakeMasked(r)
    BY <2>12 DEF TakeMasked, files, Files
  <2>13. CASE GiveUp(r)
    BY <2>13 DEF GiveUp
  <2> QED BY <1>1, <2>1, <2>2, <2>3, <2>4, <2>5, <2>6, <2>7, <2>8, <2>9, <2>10, <2>11,
             <2>12, <2>13 DEF CallStep, GetToken, Request, Collect
<1>2. ASSUME NEW r \in Runs, NEW n \in Nat, PrepareStaging(r, n) PROVE FilesInv'
  BY <1>2 DEF PrepareStaging, adapter
<1>3. ASSUME NEW r \in Runs, NEW n \in Nat, DropJob(r, n) PROVE FilesInv'
  BY <1>3 DEF DropJob, adapter
<1>4. ASSUME NEW r \in Runs, NEW n \in Nat, NEW f \in Files, WriteFile(r, n, f) PROVE FilesInv'
  BY <1>4 DEF WriteFile, adapter
<1>5. ASSUME NEW t \in 1..issued, Revoke(t) PROVE FilesInv'
  BY <1>5 DEF Revoke, adapter, files
<1>6. CASE UNCHANGED vars
  BY <1>6 DEF vars, adapter, files
<1>7. \A r \in Runs : Attempts(r) \subseteq Nat
  BY BoundsAssumption DEF Attempts
<1> QED BY <1>1, <1>2, <1>3, <1>4, <1>5, <1>6, <1>7 DEF Next, Beside

-----------------------------------------------------------------------------
(* The theorems *)

IInv == TypeOK /\ LockInv /\ TokenInv /\ FilesInv

LEMMA Inductive == Spec => []IInv
<1>1. Init => IInv
  BY TypesInit, LockInit, TokenInit, FilesInit DEF IInv
<1>2. IInv /\ [Next]_vars => IInv'
  BY TypesStep, LockStep, TokenStep, FilesStep DEF IInv
<1> QED BY <1>1, <1>2, PTL DEF Spec

\* The values of the adapter's, the server's and the staging directories' state.
THEOREM TypeCorrect == Spec => []TypeOK
<1>1. IInv => TypeOK
  BY DEF IInv
<1> QED BY Inductive, <1>1, PTL

\* Runs refused together share one login, and none is made for a usable token.
THEOREM LoginsAreShared == Spec => []LoginsAreNeeded
<1>1. IInv => LoginsAreNeeded
  BY OneLogin DEF IInv, TypeOK, TokenInv, Reusable, LoginsAreNeeded
<1> QED BY Inductive, <1>1, PTL

\* The repeated request never carries the refused token or an older one.
THEOREM RetryMovesForward == Spec => []RetryUsesNewerToken
<1>1. IInv => RetryUsesNewerToken
  BY DEF IInv, TokenInv
<1> QED BY Inductive, <1>1, PTL

\* Finitely many tokens are revoked.
LEMMA RevokedFinite == TypeOK => IsFiniteSet(revoked) /\ Cardinality(revoked) \in Nat
<1> SUFFICES ASSUME TypeOK PROVE IsFiniteSet(revoked) /\ Cardinality(revoked) \in Nat
  OBVIOUS
<1>1. issued \in Nat /\ revoked \in SUBSET (1..issued)
  BY DEF TypeOK
<1>2. IsFiniteSet(1..issued)
  BY <1>1, FS_Interval
<1>3. IsFiniteSet(revoked)
  BY <1>1, <1>2, FS_Subset
<1> QED BY <1>3, FS_CardinalityType

\* A call is refused for good only when two tokens were invalidated: the one of
\* its first request and the newer one of its second.
THEOREM OneRevocationIsSurvived == Spec => []OneRevocationIsHarmless
<1>1. ASSUME IInv, NEW r \in Runs, at[r] = "rejected" PROVE Cardinality(revoked) > 1
  <2>1. /\ refused[r] \in revoked /\ token[r] \in revoked
        /\ token[r] > refused[r] /\ token[r] \in Int /\ refused[r] \in Int
    BY <1>1 DEF IInv, TypeOK, TokenInv, RetryUsesNewerToken
  <2>2. IsFiniteSet(revoked)
    BY <1>1, RevokedFinite DEF IInv
  <2>3. IsFiniteSet({refused[r]}) /\ Cardinality({refused[r]}) = 1
    BY FS_Singleton
  <2>4. Cardinality({refused[r]} \cup {token[r]}) = 2
    <3>1. token[r] \notin {refused[r]}
      BY <2>1
    <3>2. Cardinality({refused[r]} \cup {token[r]}) = Cardinality({refused[r]}) + 1
      BY <2>3, <3>1, FS_AddElement
    <3> QED BY <2>3, <3>2
  <2>5. {refused[r]} \cup {token[r]} \subseteq revoked
    BY <2>1
  <2>6. Cardinality({refused[r]} \cup {token[r]}) <= Cardinality(revoked)
    BY <2>2, <2>5, FS_Subset
  <2> QED BY <2>2, <2>4, <2>6, FS_CardinalityType
<1>2. IInv => OneRevocationIsHarmless
  <2> SUFFICES ASSUME IInv, Cardinality(revoked) <= 1, NEW r \in Runs PROVE at[r] # "rejected"
    BY DEF OneRevocationIsHarmless
  <2>1. IsFiniteSet(revoked) /\ Cardinality(revoked) \in Nat
    BY RevokedFinite DEF IInv
  <2> QED BY <1>1, <2>1
<1> QED BY Inductive, <1>2, PTL

\* What a call returns was written for it, when nothing of an earlier attempt was
\* still at work as it began.
THEOREM ArtifactsAreOwn == Spec => []ArtifactsAreFresh
<1>1. IInv => ArtifactsAreFresh
  BY DEF IInv, FilesInv, ArtifactsAreFresh
<1> QED BY Inductive, <1>1, PTL
=============================================================================
