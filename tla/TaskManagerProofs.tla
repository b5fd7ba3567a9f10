------------------------- MODULE TaskManagerProofs -------------------------
(***************************************************************************)
(* The permits of the TaskManager, for every set of runs and every limit:  *)
(* type correctness, conservation of permits and absence of lost wake-ups; *)
(* and the queue of those who wait for one: it is ordered, and served in   *)
(* that order.                                                             *)
(*                                                                         *)
(* permits \in 0..MaxConcurrency is not inductive by itself: a release     *)
(* stays below the limit because the permits in use and the free ones add  *)
(* up to it.  The three invariants are therefore proved together (IInv).   *)
(***************************************************************************)
EXTENDS TaskManager, FiniteSetTheorems, TLAPS

IInv == TypeOK /\ PermitsConserved /\ NoLostWakeup

-----------------------------------------------------------------------------
(* Lemmas about sets of tasks *)

\* The sets the semaphore is accounted in are finite.
LEMMA FiniteTasks ==
  ASSUME NEW S \in SUBSET Runs
  PROVE  IsFiniteSet(S) /\ Cardinality(S) \in Nat
BY RunsAssumption, FS_Subset, FS_CardinalityType

\* What waking at most n waiters of a pool yields.
LEMMA WokenSet ==
  ASSUME NEW n \in Nat, NEW pool \in SUBSET Runs, NEW W, WakesUp(W, pool, n)
  PROVE  /\ W \subseteq pool
         /\ Cardinality(W) \in 0..n
         /\ Cardinality(W) = n \/ W = pool
<1>1. W \in SUBSET Runs
  BY DEF WakesUp
<1>2. Cardinality(W) \in Nat
  BY <1>1, FiniteTasks
<1> QED BY <1>2 DEF WakesUp

\* Moving one task and waking others changes the number of permit holders by
\* those woken, and by the task itself where it gains or gives up a permit.
LEMMA HoldersAfterMove ==
  ASSUME TypeOK,
         NEW r \in Runs, NEW s \in TaskState,
         NEW W, W \subseteq Pending \ {r},
         MoveAndWake(r, s, W)
  PROVE  /\ task' \in [Runs -> TaskState]
         /\ Cardinality(Holders') =
              Cardinality(Holders) + Cardinality(W)
                - (IF r \in Holders THEN 1 ELSE 0)
                + (IF s \in {"granted", "running"} THEN 1 ELSE 0)
<1> DEFINE rest == Holders \ {r}
           base == rest \cup W
<1>1. task' \in [Runs -> TaskState]
  BY DEF TypeOK, MoveAndWake, TaskState
<1>2. Holders \in SUBSET Runs /\ rest \in SUBSET Runs /\ W \in SUBSET Runs
  BY DEF Holders, Granted, Pending
<1>3. /\ IsFiniteSet(Holders) /\ Cardinality(Holders) \in Nat
      /\ IsFiniteSet(rest) /\ Cardinality(rest) \in Nat
      /\ IsFiniteSet(W) /\ Cardinality(W) \in Nat
  BY <1>2, FiniteTasks
<1>4. Cardinality(rest) = Cardinality(Holders) - (IF r \in Holders THEN 1 ELSE 0)
  BY <1>3, FS_RemoveElement
<1>5. rest \cap W = {}
  BY DEF Holders, Granted, Pending
<1>6. IsFiniteSet(base) /\ Cardinality(base) = Cardinality(rest) + Cardinality(W)
  <2>1. /\ IsFiniteSet(rest \cup W)
        /\ Cardinality(rest \cup W) =
             Cardinality(rest) + Cardinality(W) - Cardinality(rest \cap W)
    BY <1>3, FS_Union
  <2>2. Cardinality(rest \cap W) = 0
    BY <1>5, FS_EmptySet
  <2> HIDE DEF rest
  <2> QED BY <1>3, <2>1, <2>2
<1>7. r \notin base
  OBVIOUS
<1>8. Cardinality(base \cup {r}) = Cardinality(base) + 1
  BY <1>6, <1>7, FS_AddElement
<1>9. Holders' = IF s \in {"granted", "running"} THEN base \cup {r} ELSE base
  BY DEF Holders, Granted, Pending, MoveAndWake, TypeOK, TaskState
<1> HIDE DEF rest, base
<1> QED BY <1>1, <1>3, <1>4, <1>6, <1>8, <1>9

-----------------------------------------------------------------------------
(* The invariant is inductive *)

LEMMA InitEstablishes == Init => IInv
<1> SUFFICES ASSUME Init PROVE IInv
  OBVIOUS
<1>1. TypeOK
  BY MaxConcurrencyAssumption DEF Init, TypeOK, TaskState
<1>2. Holders = {} /\ Pending = {}
  BY DEF Init, Holders, Granted, Pending
<1>3. PermitsConserved
  BY <1>2, FS_EmptySet, MaxConcurrencyAssumption DEF Init, PermitsConserved
<1> QED BY <1>1, <1>2, <1>3 DEF IInv, NoLostWakeup

\* A step that keeps the permits, and moves no task into or out of a permit.
LEMMA SameHolders ==
  ASSUME IInv, TypeOK', permits' = permits, Holders' = Holders
  PROVE  PermitsConserved'
BY DEF IInv, PermitsConserved

LEMMA SubmitKeeps ==
  ASSUME IInv, NEW S \in SUBSET Runs, Submit(S)
  PROVE  IInv'
<1>1. TypeOK'
  BY DEF IInv, TypeOK, Submit, TaskState
<1>2. Holders' = Holders /\ Granted' = Granted /\ Pending' = Pending
  BY DEF IInv, TypeOK, Submit, Holders, Granted, Pending
<1>3. PermitsConserved'
  BY <1>1, <1>2, SameHolders DEF Submit
<1> QED BY <1>1, <1>2, <1>3 DEF IInv, NoLostWakeup, Submit

\* cancel() and shutdown() only add cancellation requests.
LEMMA RequestsKeep ==
  ASSUME IInv, UNCHANGED <<task, permits, ahead>>,
         cancelling' \subseteq Runs, Pending' \subseteq Pending
  PROVE  IInv'
<1>1. TypeOK'
  BY DEF IInv, TypeOK
<1>2. Holders' = Holders /\ Granted' = Granted
  BY DEF Holders, Granted
<1>3. PermitsConserved'
  BY <1>1, <1>2, SameHolders
<1> QED BY <1>1, <1>2, <1>3 DEF IInv, NoLostWakeup

LEMMA StartJobKeeps ==
  ASSUME IInv, NEW r \in Runs, StartJob(r)
  PROVE  IInv'
<1>1. Pending = {} /\ permits > 0 /\ r \notin Holders
  BY DEF IInv, TypeOK, StartJob, Locked, Holders, Granted
<1>2. MoveAndWake(r, "running", {})
  BY DEF IInv, TypeOK, StartJob, MoveAndWake
<1>3. /\ task' \in [Runs -> TaskState]
      /\ Cardinality(Holders') = Cardinality(Holders) + Cardinality({}) + 1
  <2>1. Cardinality(Holders) \in Nat /\ Cardinality({}) \in Nat
    BY FiniteTasks DEF Holders, Granted
  <2> QED BY <1>1, <1>2, <2>1, HoldersAfterMove DEF IInv, TaskState
<1>4. PermitsConserved' /\ permits' \in 0..MaxConcurrency
  <2>1. Cardinality(Holders) \in Nat
    BY FiniteTasks DEF Holders, Granted
  <2> QED BY <1>1, <1>3, <2>1, FS_EmptySet, MaxConcurrencyAssumption
          DEF IInv, TypeOK, PermitsConserved, StartJob
<1>5. TypeOK'
  BY <1>3, <1>4 DEF IInv, TypeOK, StartJob
<1>6. Pending' = {}
  BY <1>1 DEF IInv, TypeOK, StartJob, Pending
<1> QED BY <1>4, <1>5, <1>6 DEF IInv, NoLostWakeup

\* A task that queues saw a permit taken, or somebody in front of it who is
\* already woken or, by the invariant, preceded by somebody woken.
LEMMA StartWaitingKeeps ==
  ASSUME IInv, NEW r \in Runs, StartWaiting(r)
  PROVE  IInv'
<1>1. TypeOK'
  BY DEF IInv, TypeOK, StartWaiting, TaskState, Queued, Granted
<1>2. Holders' = Holders /\ Granted' = Granted
  BY DEF IInv, TypeOK, StartWaiting, Holders, Granted
<1>3. PermitsConserved'
  BY <1>1, <1>2, SameHolders DEF StartWaiting
<1>4. permits > 0 => Granted # {}
  BY DEF IInv, NoLostWakeup, StartWaiting, Locked, TypeOK
<1> QED BY <1>1, <1>2, <1>3, <1>4 DEF IInv, NoLostWakeup, StartWaiting

LEMMA CancelUnstartedKeeps ==
  ASSUME IInv, NEW r \in Runs, CancelUnstarted(r)
  PROVE  IInv'
<1>1. TypeOK'
  BY DEF IInv, TypeOK, CancelUnstarted, TaskState
<1>2. Holders' = Holders /\ Granted' = Granted /\ Pending' = Pending
  BY DEF IInv, TypeOK, CancelUnstarted, Holders, Granted, Pending
<1>3. PermitsConserved'
  BY <1>1, <1>2, SameHolders DEF CancelUnstarted
<1> QED BY <1>1, <1>2, <1>3 DEF IInv, NoLostWakeup, CancelUnstarted

LEMMA DeliverCancelKeeps ==
  ASSUME IInv, NEW r \in Runs, DeliverCancel(r)
  PROVE  IInv'
<1>1. Pending' = Pending /\ cancelling' \subseteq Runs
  BY DEF IInv, TypeOK, DeliverCancel, Pending
<1> QED BY <1>1, RequestsKeep DEF DeliverCancel

\* A woken waiter keeps its permit; those it wakes take free ones, and either
\* every free permit is taken or nobody waits any more.
LEMMA ResumeKeeps ==
  ASSUME IInv, NEW r \in Runs, Resume(r)
  PROVE  IInv'
<1> PICK W \in SUBSET Pending : /\ WakesUp(W, Pending, permits)
                                /\ MoveAndWake(r, "running", W)
                                /\ permits' = permits - Cardinality(W)
  BY DEF Resume
<1>1. permits \in Nat /\ Pending \in SUBSET Runs /\ r \in Holders /\ r \notin Pending
  BY MaxConcurrencyAssumption DEF IInv, TypeOK, Resume, Pending, Holders, Granted
<1>2. /\ Cardinality(W) \in 0..permits
      /\ Cardinality(W) = permits \/ W = Pending
  BY <1>1, WokenSet
<1>3. Cardinality(Holders) \in Nat
  BY FiniteTasks DEF Holders, Granted
<1>4. /\ task' \in [Runs -> TaskState]
      /\ Cardinality(Holders') = Cardinality(Holders) + Cardinality(W)
  BY <1>1, <1>2, <1>3, HoldersAfterMove DEF IInv, TaskState
<1>5. PermitsConserved' /\ permits' \in 0..MaxConcurrency
  BY <1>1, <1>2, <1>3, <1>4, MaxConcurrencyAssumption DEF IInv, TypeOK, PermitsConserved
<1>6. TypeOK'
  BY <1>4, <1>5 DEF IInv, TypeOK, Resume, LeaveQueue
<1>7. W = Pending => Pending' = {}
  BY DEF MoveAndWake, Pending, Resume, IInv, TypeOK
<1>8. Cardinality(W) = permits => permits' = 0
  BY <1>1
<1> QED BY <1>2, <1>5, <1>6, <1>7, <1>8 DEF IInv, NoLostWakeup

\* A cancelled waiter returns the permit it had been granted, if any, and
\* passes it on to those behind it.
LEMMA AbandonWaitKeeps ==
  ASSUME IInv, NEW r \in Runs, AbandonWait(r)
  PROVE  IInv'
<1> DEFINE free == IF task[r] = "granted" THEN permits + 1 ELSE permits
<1> PICK W \in SUBSET Pending : /\ WakesUp(W, Pending, free)
                                /\ MoveAndWake(r, "absent", W)
                                /\ permits' = free - Cardinality(W)
  BY DEF AbandonWait
<1>1. /\ permits \in Nat /\ free \in Nat /\ Pending \in SUBSET Runs
      /\ r \notin Pending
      /\ free = permits + (IF r \in Holders THEN 1 ELSE 0)
  BY MaxConcurrencyAssumption DEF IInv, TypeOK, AbandonWait, Pending, Holders, Granted
<1> HIDE DEF free
<1>2. /\ Cardinality(W) \in 0..free
      /\ Cardinality(W) = free \/ W = Pending
  BY <1>1, WokenSet
<1>3. Cardinality(Holders) \in Nat
  BY FiniteTasks DEF Holders, Granted
<1>4. /\ task' \in [Runs -> TaskState]
      /\ Cardinality(Holders') = Cardinality(Holders) + Cardinality(W)
                                  - (IF r \in Holders THEN 1 ELSE 0)
  BY <1>1, <1>2, <1>3, HoldersAfterMove DEF IInv, TaskState
<1>5. Cardinality(Holders') \in Nat
  BY FiniteTasks, <1>4 DEF Holders, Granted
<1>6. PermitsConserved' /\ permits' \in 0..MaxConcurrency
  BY <1>1, <1>2, <1>3, <1>4, <1>5, MaxConcurrencyAssumption DEF IInv, TypeOK, PermitsConserved
<1>7. TypeOK'
  BY <1>4, <1>6 DEF IInv, TypeOK, AbandonWait, LeaveQueue
<1>8. W = Pending => Pending' = {}
  BY DEF MoveAndWake, Pending, AbandonWait, IInv, TypeOK
<1>9. Cardinality(W) = free => permits' = 0
  BY <1>1
<1> QED BY <1>2, <1>6, <1>7, <1>8, <1>9 DEF IInv, NoLostWakeup

\* The released permit goes to a waiter, who is then woken, unless nobody waits.
LEMMA FinishKeeps ==
  ASSUME IInv, NEW r \in Runs, Finish(r)
  PROVE  IInv'
<1> PICK W \in SUBSET Pending : /\ WakesUp(W, Pending, 1)
                                /\ MoveAndWake(r, "absent", W)
                                /\ permits' = (permits + 1) - Cardinality(W)
  BY DEF Finish
<1>1. permits \in Nat /\ Pending \in SUBSET Runs /\ r \in Holders /\ r \notin Pending
  BY MaxConcurrencyAssumption DEF IInv, TypeOK, Finish, Pending, Holders
<1>2. /\ Cardinality(W) \in 0..1
      /\ Cardinality(W) = 1 \/ W = Pending
  BY <1>1, WokenSet
<1>3. Cardinality(Holders) \in Nat
  BY FiniteTasks DEF Holders, Granted
<1>4. /\ task' \in [Runs -> TaskState]
      /\ Cardinality(Holders') = Cardinality(Holders) + Cardinality(W) - 1
  BY <1>1, <1>2, <1>3, HoldersAfterMove DEF IInv, TaskState
<1>5. Cardinality(Holders') \in Nat
  BY FiniteTasks, <1>4 DEF Holders, Granted
<1>6. PermitsConserved' /\ permits' \in 0..MaxConcurrency
  BY <1>1, <1>2, <1>3, <1>4, <1>5, MaxConcurrencyAssumption DEF IInv, TypeOK, PermitsConserved
<1>7. TypeOK'
  BY <1>4, <1>6 DEF IInv, TypeOK, Finish
<1>8. W = Pending => Pending' = {}
  BY DEF MoveAndWake, Pending, Finish, IInv, TypeOK
<1>9. Cardinality(W) = 1 => Granted' # {}
  <2> SUFFICES ASSUME Cardinality(W) = 1 PROVE Granted' # {}
    OBVIOUS
  <2>1. PICK w \in W : TRUE
    BY FS_EmptySet
  <2>2. w \in Granted'
    BY <1>1, <2>1 DEF MoveAndWake, Granted, Pending
  <2> QED BY <2>2
<1> QED BY <1>2, <1>6, <1>7, <1>8, <1>9 DEF IInv, NoLostWakeup

LEMMA ResetKeeps == Reset => IInv'
<1> SUFFICES ASSUME Reset PROVE IInv'
  OBVIOUS
<1>1. TypeOK'
  BY MaxConcurrencyAssumption DEF Reset, TypeOK, TaskState
<1>2. Holders' = {} /\ Pending' = {}
  BY DEF Reset, Holders, Granted, Pending
<1>3. PermitsConserved'
  BY <1>2, FS_EmptySet, MaxConcurrencyAssumption DEF Reset, PermitsConserved
<1> QED BY <1>1, <1>2, <1>3 DEF IInv, NoLostWakeup

LEMMA NextKeeps == IInv /\ [Next]_vars => IInv'
<1> SUFFICES ASSUME IInv, [Next]_vars PROVE IInv'
  OBVIOUS
<1>1. ASSUME NEW S \in SUBSET Runs, Submit(S) PROVE IInv'
  BY <1>1, SubmitKeeps
<1>2. ASSUME NEW r \in Runs, Cancel(r) PROVE IInv'
  <2>1. cancelling' \subseteq Runs /\ Pending' \subseteq Pending
    BY <1>2 DEF IInv, TypeOK, Cancel, Alive, Pending
  <2> QED BY <1>2, <2>1, RequestsKeep DEF Cancel
<1>3. ASSUME NEW r \in Runs, TaskStep(r) PROVE IInv'
  BY <1>3, StartJobKeeps, StartWaitingKeeps, CancelUnstartedKeeps, ResumeKeeps,
     AbandonWaitKeeps, DeliverCancelKeeps, FinishKeeps DEF TaskStep
<1>4. CASE Shutdown
  <2>1. cancelling' \subseteq Runs /\ Pending' = {}
    BY <1>4 DEF Shutdown, Alive, Pending
  <2> QED BY <1>4, <2>1, RequestsKeep DEF Shutdown
<1>5. CASE Reset
  BY <1>5, ResetKeeps
<1>6. CASE UNCHANGED vars
  <2>1. TypeOK' /\ Holders' = Holders /\ Pending' = Pending /\ Granted' = Granted
    BY <1>6 DEF vars, IInv, TypeOK, Holders, Pending, Granted
  <2> QED BY <1>6, <2>1 DEF vars, IInv, PermitsConserved, NoLostWakeup
<1> QED BY <1>1, <1>2, <1>3, <1>4, <1>5, <1>6 DEF Next

-----------------------------------------------------------------------------
(* The theorems *)

\* manager.py uses its semaphore so that every reachable state is well typed,
\* in particular the number of free permits never leaves 0..MaxConcurrency.
THEOREM TypeCorrect == Spec => []TypeOK
<1>1. IInv => TypeOK
  BY DEF IInv
<1> QED BY <1>1, InitEstablishes, NextKeeps, PTL DEF Spec

\* Free permits and permits in use always add up to the configured limit.
THEOREM PermitsAreConserved == Spec => []PermitsConserved
<1>1. IInv => PermitsConserved
  BY DEF IInv
<1> QED BY <1>1, InitEstablishes, NextKeeps, PTL DEF Spec

\* A free permit is never left unused while a task waits for one.
THEOREM NoWakeupIsLost == Spec => []NoLostWakeup
<1>1. IInv => NoLostWakeup
  BY DEF IInv
<1> QED BY <1>1, InitEstablishes, NextKeeps, PTL DEF Spec

\* At most MaxConcurrency jobs execute at a time: the promise of the semaphore.
THEOREM ConcurrencyIsLimited ==
  Spec => [](Cardinality({r \in Runs : task[r] = "running"}) <= MaxConcurrency)
<1> DEFINE Working == {r \in Runs : task[r] = "running"}
<1>1. IInv => Cardinality(Working) <= MaxConcurrency
  <2> SUFFICES ASSUME IInv PROVE Cardinality(Working) <= MaxConcurrency
    OBVIOUS
  <2>1. Holders \in SUBSET Runs /\ Working \in SUBSET Holders
    BY DEF Holders, Granted
  <2>2. IsFiniteSet(Holders) /\ Cardinality(Holders) \in Nat /\ Cardinality(Working) \in Nat
    BY <2>1, FiniteTasks
  <2>3. Cardinality(Working) <= Cardinality(Holders)
    BY <2>1, <2>2, FS_Subset
  <2> QED BY <2>2, <2>3, MaxConcurrencyAssumption DEF IInv, TypeOK, PermitsConserved
<1> QED BY <1>1, InitEstablishes, NextKeeps, PTL DEF Spec

-----------------------------------------------------------------------------
(* The queue of the semaphore *)

\* Semaphore._waiters is a queue: of two queued tasks one stands before the
\* other, nobody stands before himself, those before a task are before those
\* behind it, and only queued tasks are in it.
QueueOrder ==
    /\ \A x \in Runs : ahead[x] \subseteq Queued \ {x}
    /\ \A x, y \in Queued : x # y => x \in ahead[y] \/ y \in ahead[x]
    /\ \A x, y \in Queued : x \in ahead[y] => ahead[x] \subseteq ahead[y] \ {x}

\* A step that leaves the queue as it is.
LEMMA SameQueue ==
  ASSUME TypeOK, QueueOrder, UNCHANGED ahead, Queued' = Queued
  PROVE  QueueOrder'
BY DEF QueueOrder

\* A task leaves the queue, from wherever it stands.
LEMMA QueueWithout ==
  ASSUME TypeOK, QueueOrder, NEW r \in Runs, LeaveQueue(r), Queued' = Queued \ {r}
  PROVE  QueueOrder'
<1>1. Queued \subseteq Runs
  BY DEF Queued, Granted
<1>2. \A x \in Runs : ahead'[x] = IF x = r THEN {} ELSE ahead[x] \ {r}
  BY DEF LeaveQueue
<1>3. ASSUME NEW x \in Runs PROVE ahead'[x] \subseteq Queued' \ {x}
  <2>1. ahead[x] \subseteq Queued \ {x}
    BY DEF QueueOrder
  <2> QED BY <1>2, <2>1
<1>4. ASSUME NEW x \in Queued', NEW y \in Queued', x # y
      PROVE  x \in ahead'[y] \/ y \in ahead'[x]
  <2>1. x \in Queued /\ y \in Queued /\ x # r /\ y # r /\ x \in Runs /\ y \in Runs
    BY <1>1
  <2>2. x \in ahead[y] \/ y \in ahead[x]
    BY <1>4, <2>1 DEF QueueOrder
  <2> QED BY <1>2, <2>1, <2>2
<1>5. ASSUME NEW x \in Queued', NEW y \in Queued', x \in ahead'[y]
      PROVE  ahead'[x] \subseteq ahead'[y] \ {x}
  <2>1. x \in Queued /\ y \in Queued /\ x # r /\ y # r /\ x \in Runs /\ y \in Runs
    BY <1>1
  <2>2. x \in ahead[y]
    BY <1>2, <1>5, <2>1
  <2>3. ahead[x] \subseteq ahead[y] \ {x}
    BY <2>1, <2>2 DEF QueueOrder
  <2> QED BY <1>2, <2>1, <2>3
<1> QED BY <1>3, <1>4, <1>5 DEF QueueOrder

\* A task queues behind everybody.
LEMMA QueueWith ==
  ASSUME TypeOK, QueueOrder, NEW r \in Runs, StartWaiting(r)
  PROVE  QueueOrder'
<1>1. Queued \subseteq Runs /\ r \notin Queued
  BY DEF Queued, Granted, StartWaiting
<1>2. Queued' = Queued \cup {r}
  BY DEF Queued, Granted, StartWaiting, TypeOK
<1>3. \A x \in Runs : ahead'[x] = IF x = r THEN Queued ELSE ahead[x]
  BY DEF StartWaiting, TypeOK
<1>4. \A x \in Runs : ahead'[x] \subseteq Queued' \ {x}
  BY <1>1, <1>2, <1>3 DEF QueueOrder
<1>5. \A x, y \in Queued' : x # y => x \in ahead'[y] \/ y \in ahead'[x]
  BY <1>1, <1>2, <1>3 DEF QueueOrder
<1>6. \A x, y \in Queued' : x \in ahead'[y] => ahead'[x] \subseteq ahead'[y] \ {x}
  <2> SUFFICES ASSUME NEW x \in Queued', NEW y \in Queued', x \in ahead'[y]
               PROVE  ahead'[x] \subseteq ahead'[y] \ {x}
    OBVIOUS
  <2>1. x \in Queued
    BY <1>1, <1>2, <1>3 DEF QueueOrder
  <2>2. ahead'[x] = ahead[x]
    BY <1>1, <1>3, <2>1
  <2>3. CASE y = r
    BY <1>1, <1>3, <2>1, <2>2, <2>3 DEF QueueOrder
  <2>4. CASE y # r
    BY <1>1, <1>2, <1>3, <2>1, <2>2, <2>4 DEF QueueOrder
  <2> QED BY <2>3, <2>4
<1> QED BY <1>4, <1>5, <1>6 DEF QueueOrder

\* Waking waiters moves them within the queue.
LEMMA QueuedAfterMove ==
  ASSUME TypeOK, NEW r \in Runs, NEW s \in {"absent", "running"},
         NEW W, W \subseteq Pending \ {r}, MoveAndWake(r, s, W)
  PROVE  Queued' = Queued \ {r}
BY DEF Queued, Granted, Pending, MoveAndWake, TypeOK

LEMMA QueueTask ==
  ASSUME TypeOK, QueueOrder, NEW r \in Runs, TaskStep(r)
  PROVE  QueueOrder'
<1>1. CASE StartJob(r) \/ CancelUnstarted(r) \/ DeliverCancel(r)
  <2>1. Queued' = Queued /\ ahead' = ahead
    BY <1>1 DEF StartJob, CancelUnstarted, DeliverCancel, Queued, Granted, TypeOK
  <2> QED BY <2>1, SameQueue
<1>2. CASE StartWaiting(r)
  BY <1>2, QueueWith
<1>3. CASE Resume(r)
  <2>1. PICK W \in SUBSET Pending : MoveAndWake(r, "running", W)
    BY <1>3 DEF Resume
  <2>2. r \notin Pending
    BY <1>3 DEF Resume, Pending
  <2>3. Queued' = Queued \ {r}
    BY <2>1, <2>2, QueuedAfterMove
  <2> QED BY <1>3, <2>3, QueueWithout DEF Resume
<1>4. CASE AbandonWait(r)
  <2>1. PICK W \in SUBSET Pending : MoveAndWake(r, "absent", W)
    BY <1>4 DEF AbandonWait
  <2>2. r \notin Pending
    BY <1>4 DEF AbandonWait, Pending
  <2>3. Queued' = Queued \ {r}
    BY <2>1, <2>2, QueuedAfterMove
  <2> QED BY <1>4, <2>3, QueueWithout DEF AbandonWait
<1>5. CASE Finish(r)
  <2>1. PICK W \in SUBSET Pending : MoveAndWake(r, "absent", W)
    BY <1>5 DEF Finish
  <2>2. r \notin Pending /\ r \notin Queued
    BY <1>5 DEF Finish, Pending, Queued, Granted
  <2>3. Queued' = Queued
    BY <2>1, <2>2, QueuedAfterMove
  <2> QED BY <1>5, <2>3, SameQueue DEF Finish
<1> QED BY <1>1, <1>2, <1>3, <1>4, <1>5 DEF TaskStep

LEMMA QueueNext == TypeOK /\ QueueOrder /\ [Next]_vars => QueueOrder'
<1> SUFFICES ASSUME TypeOK, QueueOrder, [Next]_vars PROVE QueueOrder'
  OBVIOUS
<1>1. ASSUME NEW S \in SUBSET Runs, Submit(S) PROVE QueueOrder'
  <2>1. Queued' = Queued /\ ahead' = ahead
    BY <1>1 DEF Submit, Queued, Granted, TypeOK
  <2> QED BY <2>1, SameQueue
<1>2. ASSUME NEW r \in Runs, TaskStep(r) PROVE QueueOrder'
  BY <1>2, QueueTask
<1>3. CASE Shutdown \/ UNCHANGED vars \/ \E r \in Runs : Cancel(r)
  <2>1. Queued' = Queued /\ ahead' = ahead
    BY <1>3 DEF Shutdown, Cancel, vars, Queued, Granted
  <2> QED BY <2>1, SameQueue
<1>4. CASE Reset
  BY <1>4 DEF Reset, QueueOrder, Queued, Granted
<1> QED BY <1>1, <1>2, <1>3, <1>4 DEF Next

\* In an ordered queue "the first n waiters" are determined: the model leaves
\* Semaphore no choice the code does not have.
LEMMA WokenDetermined ==
  ASSUME QueueOrder, NEW n \in Nat,
         NEW V, WakesUp(V, Pending, n), NEW W, WakesUp(W, Pending, n)
  PROVE  V = W
<1>1. Pending \subseteq Queued /\ Pending \in SUBSET Runs
  BY DEF Pending, Queued
<1>2. V \subseteq W \/ W \subseteq V
  <2> SUFFICES ASSUME NEW v \in V \ W, NEW w \in W \ V PROVE FALSE
    OBVIOUS
  <2>1. v \in Pending /\ w \in Pending
    BY DEF WakesUp
  <2>2. v \in ahead[w] /\ w \in ahead[v]
    BY <2>1 DEF WakesUp
  <2> QED BY <1>1, <2>1, <2>2 DEF QueueOrder
<1>3. IsFiniteSet(V) /\ IsFiniteSet(W)
  BY <1>1, WokenSet, FiniteTasks
<1>4. ASSUME NEW A, NEW B, A \subseteq B, IsFiniteSet(B), Cardinality(A) = Cardinality(B)
      PROVE  A = B
  BY <1>4, FS_Subset
<1>5. /\ V \subseteq Pending /\ (Cardinality(V) = n \/ V = Pending) /\ Cardinality(V) \in 0..n
      /\ W \subseteq Pending /\ (Cardinality(W) = n \/ W = Pending) /\ Cardinality(W) \in 0..n
  BY <1>1, WokenSet
<1>6. CASE V = Pending \/ W = Pending
  <2>1. Cardinality(V) <= Cardinality(Pending) /\ Cardinality(W) <= Cardinality(Pending)
    BY <1>1, <1>5, FiniteTasks, FS_Subset
  <2>2. Cardinality(Pending) \in Nat
    BY <1>1, FiniteTasks
  <2>3. Cardinality(V) = Cardinality(W)
    BY <1>5, <1>6, <2>1, <2>2
  <2> QED BY <1>2, <1>3, <1>4, <2>3
<1>7. CASE V # Pending /\ W # Pending
  BY <1>2, <1>3, <1>4, <1>5, <1>7
<1> QED BY <1>6, <1>7

\* The waiters of the semaphore always stand in one line (manager.py 20-29).
THEOREM QueueIsOrdered == Spec => []QueueOrder
<1>1. Init => QueueOrder
  BY DEF Init, QueueOrder, Queued, Granted
<1> QED BY <1>1, QueueNext, TypeCorrect, PTL DEF Spec

\* First come, first served, whether a task starts directly or is woken: nobody
\* gets a permit past a run that queued before it and was not cancelled.
THEOREM FirstComeFirstServed == Spec => NoOvertaking
<1> DEFINE Served ==
      \A x \in Pending, y \in Runs :
          /\ task[y] \in {"created", "waiting"} /\ y \notin ahead[x]
          /\ task'[y] \in {"granted", "running"}
          => task'[x] = "granted"
<1>1. TypeOK /\ [Next]_vars => Served
  <2> SUFFICES ASSUME TypeOK, [Next]_vars, NEW x \in Pending, NEW y \in Runs,
                      task[y] \in {"created", "waiting"}, y \notin ahead[x],
                      task'[y] \in {"granted", "running"}
               PROVE  task'[x] = "granted"
    OBVIOUS
  <2>1. x \in Runs /\ task[x] = "waiting"
    BY DEF Pending
  <2>2. \A r \in Runs : ~StartJob(r)
    BY DEF StartJob, Locked
  <2>3. PICK r \in Runs : Resume(r) \/ AbandonWait(r) \/ Finish(r)
    BY <2>2 DEF Next, TaskStep, Submit, Cancel, Shutdown, Reset, StartWaiting,
       CancelUnstarted, DeliverCancel, TypeOK, vars
  <2>4. PICK W \in SUBSET Pending, n \in {permits, permits + 1, 1}, s \in {"absent", "running"} :
          WakesUp(W, Pending, n) /\ MoveAndWake(r, s, W)
    BY <2>3 DEF Resume, AbandonWait, Finish
  <2>5. r \notin Pending /\ y # r
    BY <2>3 DEF Resume, AbandonWait, Finish, Pending, MoveAndWake
  <2>6. y \in W
    BY <2>4, <2>5 DEF MoveAndWake
  <2>7. x \in W
    BY <2>4, <2>6 DEF WakesUp
  <2> QED BY <2>1, <2>4, <2>5, <2>7 DEF MoveAndWake
<1> QED BY <1>1, TypeCorrect, PTL DEF Spec, NoOvertaking
=============================================================================
