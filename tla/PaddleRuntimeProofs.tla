------------------------ MODULE PaddleRuntimeProofs ------------------------
(***************************************************************************)
(* The inference slots and the single initialisation of PaddleRuntime, for *)
(* any number of calls, workers, runs and slots.                           *)
(*                                                                         *)
(* That a release keeps slots in its range follows from the conservation   *)
(* of slots, and that at most one thread builds the pipeline from what the *)
(* lock protects, so both are proved with the types (IInv).                *)
(***************************************************************************)
EXTENDS PaddleRuntime, FiniteSetTheorems, TLAPS

Inside == {"check", "lock", "create", "infer"}
Stages == {"idle", "queued", "file", "slot"} \cup Inside

\* What the lock protects: who builds holds it and there is no pipeline yet, and
\* the counter of initialisations tells whether there is one.
PipelineInv ==
    /\ \A p \in Parses : stage[p] = "create" => locked /\ ~pipeline
    /\ \A p, q \in Parses : stage[p] = "create" /\ stage[q] = "create" => p = q
    /\ \A p \in Parses : stage[p] = "infer" => pipeline
    /\ created = IF pipeline THEN 1 ELSE 0

IInv == TypeOK /\ SlotsConserved /\ PipelineInv

-----------------------------------------------------------------------------
\* The threads inside predict() form a finite set.
LEMMA HoldingFinite == IsFiniteSet(Holding) /\ Cardinality(Holding) \in Nat
BY CallsAssumption, FS_Subset, FS_CardinalityType DEF Holding

\* When one call moves, the threads inside predict() change by that call only.
LEMMA HoldingAfterMove ==
  ASSUME TypeOK, NEW p \in Calls, NEW s \in Stages, Move(p, s),
         s \in Inside => p \in Parses
  PROVE  Cardinality(Holding') =
           Cardinality(Holding) - (IF stage[p] \in Inside THEN 1 ELSE 0)
                                + (IF s \in Inside THEN 1 ELSE 0)
<1> DEFINE rest == Holding \ {p}
<1>1. IsFiniteSet(Holding) /\ Cardinality(Holding) \in Nat
  BY HoldingFinite
<1>2. p \in Holding <=> stage[p] \in Inside
  BY CallsAssumption DEF TypeOK, Holding, Inside, Calls
<1>3. /\ IsFiniteSet(rest)
      /\ Cardinality(rest) = Cardinality(Holding) - (IF stage[p] \in Inside THEN 1 ELSE 0)
  BY <1>1, <1>2, FS_RemoveElement
<1>4. CASE s \in Inside
  <2>1. Holding' = rest \cup {p}
    BY <1>4 DEF Holding, Inside, Move, TypeOK, Calls
  <2>2. Cardinality(rest \cup {p}) = Cardinality(rest) + 1
    BY <1>3, FS_AddElement
  <2> QED BY <1>3, <1>4, <2>1, <2>2
<1>5. CASE s \notin Inside
  <2>1. Holding' = rest
    BY <1>5 DEF Holding, Inside, Move, TypeOK, Calls
  <2> QED BY <1>1, <1>3, <1>5, <2>1
<1> QED BY <1>4, <1>5

-----------------------------------------------------------------------------
LEMMA InitIInv == Init => IInv
<1> SUFFICES ASSUME Init PROVE IInv
  OBVIOUS
<1>1. Holding = {}
  BY DEF Init, Holding, Calls
<1>2. Cardinality(Holding) = 0
  BY <1>1, FS_EmptySet
<1>3. TypeOK
  <2>1. slots \in 0..MaxInference /\ created \in 0..2
    BY LimitsAssumption DEF Init
  <2> QED BY <2>1, Zenon DEF Init, TypeOK
<1>4. SlotsConserved
  BY <1>2, LimitsAssumption DEF Init, SlotsConserved
<1>5. PipelineInv
  BY DEF Init, PipelineInv, Calls
<1> QED BY <1>3, <1>4, <1>5 DEF IInv

\* The types, when the slots stay in their range.
LEMMA TypesKept ==
  ASSUME TypeOK, [Next]_vars, slots' \in 0..MaxInference
  PROVE  TypeOK'
<1> USE DEF TypeOK, Move, LeaveQueue, Queued
<1>1. ASSUME NEW p \in Calls, Submit(p) PROVE TypeOK'
  BY <1>1 DEF Submit
<1>2. ASSUME NEW p \in Calls, Abandon(p) PROVE TypeOK'
  BY <1>2 DEF Abandon
<1>3. ASSUME NEW p \in Calls, Start(p) PROVE TypeOK'
  BY <1>3 DEF Start, Calls
<1>4. ASSUME NEW p \in Parses, TakeSlot(p) PROVE TypeOK'
  BY <1>4, CallsAssumption DEF TakeSlot, Calls
<1>5. ASSUME NEW p \in Parses, CheckPipeline(p) PROVE TypeOK'
  BY <1>5, CallsAssumption DEF CheckPipeline, Calls
<1>6. ASSUME NEW p \in Parses, TakeLock(p) PROVE TypeOK'
  BY <1>6, CallsAssumption DEF TakeLock, Calls
<1>7. ASSUME NEW p \in Parses, Create(p) PROVE TypeOK'
  <2>1. created' \in 0..2
    BY <1>7 DEF Create
  <2>2. stage' \in [Calls -> {"idle", "queued", "file", "slot", "check", "lock",
                             "create", "infer"}]
    BY <1>7 DEF Create, Calls
  <2>3. \A x \in Calls : stage'[x] \in {"idle", "queued"}
                           \/ (stage'[x] = "file" <=> x \in FileCalls)
    BY <1>7, CallsAssumption DEF Create, Calls
  <2> QED BY <1>7, <2>1, <2>2, <2>3 DEF Create
<1>8. ASSUME NEW p \in Parses, CreateFails(p) PROVE TypeOK'
  BY <1>8, CallsAssumption DEF CreateFails, Calls
<1>9. ASSUME NEW p \in Parses, Infer(p) PROVE TypeOK'
  BY <1>9, CallsAssumption DEF Infer, Calls
<1>10. ASSUME NEW p \in FileCalls, FileDone(p) PROVE TypeOK'
  BY <1>10, CallsAssumption DEF FileDone, Calls
<1>11. CASE UNCHANGED vars
  BY <1>11 DEF vars
<1> QED BY <1>1, <1>2, <1>3, <1>4, <1>5, <1>6, <1>7, <1>8, <1>9, <1>10, <1>11
        DEF Next, PipelineStep

\* Every action moves one call, and gives or takes the slot that the move needs.
LEMMA SlotsKept ==
  ASSUME TypeOK, SlotsConserved, [Next]_vars
  PROVE  SlotsConserved' /\ slots' \in 0..MaxInference
<1>0. Cardinality(Holding) \in Nat /\ slots \in 0..MaxInference /\ MaxInference \in Nat
  BY HoldingFinite, LimitsAssumption DEF TypeOK
<1>a. Cardinality(Holding') \in Nat
  BY CallsAssumption, FS_Subset, FS_CardinalityType DEF Holding
<1>s. SUFFICES SlotsConserved' /\ slots' \in Int /\ slots' >= 0
  BY <1>0, <1>a DEF SlotsConserved
<1>b. ASSUME UNCHANGED <<stage, slots>> PROVE SlotsConserved' /\ slots' \in Int /\ slots' >= 0
  BY <1>b, <1>0 DEF SlotsConserved, Holding
<1> USE DEF SlotsConserved, Inside, Stages
<1>1. ASSUME NEW p \in Calls, Submit(p) PROVE SlotsConserved' /\ slots' \in Int /\ slots' >= 0
  BY <1>1, <1>0, HoldingAfterMove DEF Submit
<1>2. ASSUME NEW p \in Calls, Abandon(p) PROVE SlotsConserved' /\ slots' \in Int /\ slots' >= 0
  <2>1. CASE stage[p] = "queued"
    BY <1>2, <2>1, <1>0, HoldingAfterMove DEF Abandon
  <2>2. CASE stage[p] # "queued"
    BY <1>2, <2>2, <1>b DEF Abandon
  <2> QED BY <2>1, <2>2
<1>3. ASSUME NEW p \in Calls, Start(p) PROVE SlotsConserved' /\ slots' \in Int /\ slots' >= 0
  BY <1>3, <1>0, HoldingAfterMove DEF Start
<1>4. ASSUME NEW p \in Parses, TakeSlot(p) PROVE SlotsConserved' /\ slots' \in Int /\ slots' >= 0
  BY <1>4, <1>0, HoldingAfterMove DEF TakeSlot, Calls
<1>5. ASSUME NEW p \in Parses, CheckPipeline(p) PROVE SlotsConserved' /\ slots' \in Int /\ slots' >= 0
  BY <1>5, <1>0, HoldingAfterMove DEF CheckPipeline, Calls
<1>6. ASSUME NEW p \in Parses, TakeLock(p) PROVE SlotsConserved' /\ slots' \in Int /\ slots' >= 0
  BY <1>6, <1>0, HoldingAfterMove DEF TakeLock, Calls
<1>7. ASSUME NEW p \in Parses, Create(p) PROVE SlotsConserved' /\ slots' \in Int /\ slots' >= 0
  BY <1>7, <1>0, HoldingAfterMove DEF Create, Calls
<1>8. ASSUME NEW p \in Parses, CreateFails(p) PROVE SlotsConserved' /\ slots' \in Int /\ slots' >= 0
  BY <1>8, <1>0, HoldingAfterMove DEF CreateFails, Calls
<1>9. ASSUME NEW p \in Parses, Infer(p) PROVE SlotsConserved' /\ slots' \in Int /\ slots' >= 0
  BY <1>9, <1>0, HoldingAfterMove DEF Infer, Calls
<1>10. ASSUME NEW p \in FileCalls, FileDone(p) PROVE SlotsConserved' /\ slots' \in Int /\ slots' >= 0
  BY <1>10, <1>0, HoldingAfterMove DEF FileDone, Calls
<1>11. CASE UNCHANGED vars
  BY <1>11, <1>b DEF vars
<1> QED BY <1>1, <1>2, <1>3, <1>4, <1>5, <1>6, <1>7, <1>8, <1>9, <1>10, <1>11
        DEF Next, PipelineStep

\* TakeLock needs a free lock, so nobody is building; Create is the one builder.
LEMMA PipelineKept ==
  ASSUME TypeOK, PipelineInv, [Next]_vars
  PROVE  PipelineInv'
<1> USE DEF TypeOK, PipelineInv, Move, Calls
<1>1. ASSUME NEW p \in Calls, Submit(p) PROVE PipelineInv'
  BY <1>1 DEF Submit
<1>2. ASSUME NEW p \in Calls, Abandon(p) PROVE PipelineInv'
  BY <1>2 DEF Abandon
<1>3. ASSUME NEW p \in Calls, Start(p) PROVE PipelineInv'
  BY <1>3 DEF Start
<1>4. ASSUME NEW p \in Parses, TakeSlot(p) PROVE PipelineInv'
  BY <1>4 DEF TakeSlot
<1>5. ASSUME NEW p \in Parses, CheckPipeline(p) PROVE PipelineInv'
  BY <1>5 DEF CheckPipeline
<1>6. ASSUME NEW p \in Parses, TakeLock(p) PROVE PipelineInv'
  BY <1>6 DEF TakeLock
<1>7. ASSUME NEW p \in Parses, Create(p) PROVE PipelineInv'
  BY <1>7 DEF Create
<1>8. ASSUME NEW p \in Parses, CreateFails(p) PROVE PipelineInv'
  BY <1>8 DEF CreateFails
<1>9. ASSUME NEW p \in Parses, Infer(p) PROVE PipelineInv'
  BY <1>9 DEF Infer
<1>10. ASSUME NEW p \in FileCalls, FileDone(p) PROVE PipelineInv'
  BY <1>10 DEF FileDone
<1>11. CASE UNCHANGED vars
  BY <1>11 DEF vars
<1> QED BY <1>1, <1>2, <1>3, <1>4, <1>5, <1>6, <1>7, <1>8, <1>9, <1>10, <1>11
        DEF Next, PipelineStep

LEMMA Inductive == Spec => []IInv
<1>1. IInv /\ [Next]_vars => IInv'
  BY TypesKept, SlotsKept, PipelineKept DEF IInv
<1> QED BY InitIInv, <1>1, PTL DEF Spec

-----------------------------------------------------------------------------
\* The values of the runtime's state, the range of the semaphore included.
THEOREM TypeCorrect == Spec => []TypeOK
<1>1. IInv => TypeOK
  BY DEF IInv
<1> QED BY Inductive, <1>1, PTL

\* The semaphore counts the threads inside predict(), awaited or not.
THEOREM SlotsAreConserved == Spec => []SlotsConserved
<1>1. IInv => SlotsConserved
  BY DEF IInv
<1> QED BY Inductive, <1>1, PTL

\* The Pipeline is built once per process and used only when it is there.
THEOREM PipelineIsUnique == Spec => []OnePipeline
<1>1. IInv => OnePipeline
  BY DEF IInv, PipelineInv, OnePipeline, TypeOK
<1> QED BY Inductive, <1>1, PTL
=============================================================================
