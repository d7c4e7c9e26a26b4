------------------------- MODULE TaskRunRecordProofs -------------------------
(***************************************************************************)
(* Machine-checked proofs that what TaskRunController stores is what       *)
(* happened, and that steps get what they need, while nobody edits a       *)
(* definition.                                                             *)
(***************************************************************************)
EXTENDS TaskRunStatusProofs

\* What all invariants of this module stand on.
Ground == IndInv /\ StatusInv /\ OrderInv

\* Without an edit the steps, their kinds and what was done before remain.
LEMMA Still ==
    ASSUME Ground, Next, NoDrift'
    PROVE  /\ NoDrift /\ OrderParts /\ TypeOK /\ spec' = spec /\ defs' = defs
           /\ Index' = Index /\ Runners' = Runners /\ StepStatuses' = StepStatuses
           /\ UniqueNames' = UniqueNames
           /\ Runners \subseteq Index /\ Index \subseteq Nat
           /\ done \subseteq done' /\ done' \subseteq Index
PROOF
<1>1. /\ spec' = spec /\ defs' = defs /\ NoDrift /\ TypeOK /\ OrderParts
  BY SpecFixed DEF ChangeDefinition, NoDrift, IndInv, TypeOK, Ground, OrderInv
<1>2. /\ Index' = Index /\ Runners' = Runners /\ StepStatuses' = StepStatuses
      /\ UniqueNames' = UniqueNames /\ Runners \subseteq Index /\ Index \subseteq Nat
  BY <1>1, IndexType DEF Index, Runners, RunnerSteps, Step, UniqueNames, StepStatuses
<1>3. done \subseteq done'
  BY DEF Next, Reconcile, RunPod, SkipTerminal, Fetch, RejectResolution, RejectParams,
     RejectOrdering, Start, Resume, RouteNative, reconcileCronJob, JobNotFound,
     JobLookupError, ensureParamsConfigMap, CreateJob, MarkRunnersRunning, JobActive,
     JobSucceeded, JobFailed, BeginStep, TemplateError, StepSucceeds, StepErrs,
     MarkSucceeded, MarkFailed, SetTerminal, SyncTaskRun, SyncJob, SyncCronJob,
     SyncConfigMap, RunContainer, PodSucceeds, PodFails, ChangeDefinition, Crash, history
<1>4. done' \subseteq Index
  BY <1>2, IndInvNext DEF Ground, IndInv, TypeOK
<1> QED BY <1>1, <1>2, <1>3, <1>4

-----------------------------------------------------------------------------
(* The params ConfigMap.                                                   *)

\* Every version holds the params of the runner steps, and there is one before
\* the Job is created.
ParamsParts ==
    /\ \A n \in 1..Len(cmLog) : cmLog[n] = ParamsData(Runners)
    /\ job # "none" \/ pc = "create" => cmLog # <<>>

ParamsInv == NoDrift => ParamsParts

\* Every step preserves ParamsInv.
LEMMA ParamsNext ==
    ASSUME Ground, ParamsInv, Next
    PROVE  ParamsInv'
PROOF
<1> USE DEF objects, caches, local, history
<1> SUFFICES ASSUME NoDrift' PROVE ParamsParts'
  BY DEF ParamsInv
<1>1. /\ NoDrift /\ OrderParts /\ TypeOK /\ spec' = spec /\ Index' = Index
      /\ Runners' = Runners
  BY Still
<1>2. ParamsParts /\ ParamsData(Runners)' = ParamsData(Runners)
  BY <1>1 DEF ParamsInv, ParamsData, Step
<1>3. cmLog \in Seq(SUBSET (Names \X Params)) /\ cmSeen \in 0..Len(cmLog) /\ Len(cmLog) \in Nat
  BY <1>1 DEF TypeOK
<1>4. ASSUME cmLog' = cmLog, job' = job \/ cmLog # <<>>, pc' # "create" \/ cmLog # <<>>
      PROVE  ParamsParts'
  BY <1>1, <1>2, <1>4 DEF ParamsParts
<1>5. CASE ensureParamsConfigMap
  <2>1. pc = "params" /\ runner = Runners /\ job' = job /\ pc' \in {"create", "failing"}
    BY <1>1, <1>5 DEF ensureParamsConfigMap, OrderParts, RunnerKnown, Fail
  <2>2. CASE cmLog' = Append(cmLog, ParamsData(runner))
    <3> DEFINE d == ParamsData(Runners)
    <3>1. cmLog' = Append(cmLog, d) /\ \A n \in 1..Len(cmLog) : cmLog[n] = d
      BY <1>2, <2>1, <2>2 DEF ParamsParts
    <3> HIDE DEF d
    <3>2. \A n \in 1..Len(cmLog') : cmLog'[n] = d
      BY <1>3, <3>1
    <3>3. cmLog' # <<>>
      BY <1>3, <3>1
    <3> QED BY <1>1, <1>2, <3>2, <3>3 DEF ParamsParts, d
  <2>3. CASE cmLog' = cmLog /\ (pc' = "failing" \/ cmSeen > 0)
    <3>1. cmSeen > 0 => cmLog # <<>>
      BY <1>3
    <3> QED BY <1>4, <2>1, <2>3, <3>1
  <2> QED BY <1>5, <2>2, <2>3 DEF ensureParamsConfigMap, Fail
<1>6. CASE CreateJob
  BY <1>2, <1>4, <1>6 DEF CreateJob, Return, ParamsParts
<1>7. CASE \/ PodSucceeds \/ PodFails
  BY <1>2, <1>4, <1>7 DEF PodSucceeds, PodFails, ParamsParts
<1>8. CASE \/ SkipTerminal \/ Fetch \/ RejectResolution \/ RejectParams \/ RejectOrdering
           \/ Start \/ Resume \/ RouteNative \/ reconcileCronJob \/ JobNotFound
           \/ JobLookupError \/ MarkRunnersRunning \/ JobActive \/ JobSucceeded \/ JobFailed
           \/ MarkSucceeded \/ MarkFailed
           \/ \E i \in Index : \/ BeginStep(i) \/ TemplateError(i) \/ StepSucceeds(i)
                               \/ StepErrs(i)
  BY <1>4, <1>2, <1>8 DEF SkipTerminal, Fetch, RejectResolution, RejectParams, RejectOrdering,
     Start, Resume, RouteNative, reconcileCronJob, JobNotFound, JobLookupError,
     MarkRunnersRunning, JobActive, JobSucceeded, JobFailed, BeginStep, TemplateError,
     StepSucceeds, StepErrs, MarkSucceeded, MarkFailed, SetTerminal, Return, Fail, ParamsParts
<1>9. CASE \/ SyncTaskRun \/ SyncJob \/ SyncCronJob \/ SyncConfigMap \/ Crash
           \/ ChangeDefinition \/ \E i \in Index : RunContainer(i)
  BY <1>2, <1>4, <1>9 DEF SyncTaskRun, SyncJob, SyncCronJob, SyncConfigMap, Crash,
     ChangeDefinition, RunContainer, ParamsParts
<1> QED BY <1>5, <1>6, <1>7, <1>8, <1>9 DEF Next, Reconcile, RunPod

\* With unique names every step's params are in the ConfigMap's data.
LEMMA OwnParams ==
    ASSUME UniqueNames, Index \subseteq Nat, NEW S \in SUBSET Index, NEW i \in S
    PROVE  <<Step(i).name, Step(i).params>> \in ParamsData(S)
PROOF
<1>1. i \in {k \in S : \A j \in S : Step(j).name = Step(k).name => j <= k}
  BY DEF UniqueNames
<1> QED BY <1>1 DEF ParamsData

\* All of the invariants hold throughout.
LEMMA GroundInductive == Spec => []Ground
PROOF BY Inductive, StatusInductive, OrderInductive, PTL DEF Ground

\* Every container still to run finds its own params in the ConfigMap, however
\* stale the copy of it is that the reconcile updates.
THEOREM Delivery == Spec => []ParamsDelivered
PROOF
<1>1. Init => ParamsInv
  <2> SUFFICES ASSUME Init PROVE ParamsParts
    BY DEF ParamsInv
  <2>1. Len(cmLog) = 0 /\ job = "none" /\ pc = "idle"
    BY DEF Init
  <2> QED BY <2>1 DEF ParamsParts
<1>2. Ground /\ ParamsInv /\ [Next]_vars => ParamsInv'
  <2>1. ParamsInv /\ UNCHANGED vars => ParamsInv'
    BY DEF ParamsInv, ParamsParts, NoDrift, ParamsData, Runners, RunnerSteps, Index, Step, vars,
       objects, local
  <2> QED BY <2>1, ParamsNext
<1>3. Ground /\ ParamsInv => ParamsDelivered
  <2> SUFFICES ASSUME Ground, ParamsInv, NoDrift, UniqueNames, job = "active", NEW i \in pod
               PROVE  cmLog # <<>> /\ <<Step(i).name, Step(i).params>> \in cmLog[Len(cmLog)]
    BY DEF ParamsDelivered
  <2>1. ParamsParts /\ pod \subseteq Runners /\ TypeOK
    BY DEF ParamsInv, Ground, OrderInv, OrderParts, PodProgress, IndInv
  <2>2. cmLog # <<>> /\ cmLog[Len(cmLog)] = ParamsData(Runners)
    BY <2>1 DEF ParamsParts, TypeOK
  <2>3. Index \subseteq Nat /\ Runners \subseteq Index
    BY <2>1, IndexType DEF Runners, RunnerSteps
  <2> QED BY <2>1, <2>2, <2>3, OwnParams
<1> QED BY <1>1, <1>2, <1>3, GroundInductive, PTL DEF Spec

-----------------------------------------------------------------------------
(* Recorded success.                                                       *)

\* The steps a status calls Succeeded are done.
Recorded(st) ==
    st.steps # <<>> => \A p \in Index : st.steps[p].phase = "Succeeded" => p \in done

StoredRecorded ==
    \A n \in 1..Len(trLog) :
        Recorded(trLog[n]) /\ (trLog[n].phase = "Succeeded" => done = Index)

RecordInv == NoDrift => StoredRecorded /\ Recorded(copy.status)

\* A version whose Succeeded steps are done may be stored.
LEMMA StoreRecorded ==
    ASSUME Ground, Next, NoDrift', StoredRecorded,
           NEW new \in StatusType, HasSteps(new), trLog' = trLog \/ Store(new),
           Recorded(new)', new.phase = "Succeeded" => done' = Index
    PROVE  StoredRecorded'
PROOF
<1>1. /\ spec' = spec /\ Index' = Index /\ done \subseteq done' /\ done' \subseteq Index
  BY Still
<1>2. \A st : Recorded(st) => Recorded(st)'
  BY <1>1 DEF Recorded
<1>3. done = Index => done' = Index
  BY <1>1
<1>4. /\ Len(trLog') \in {Len(trLog), Len(trLog) + 1} /\ Len(trLog) \in Nat
      /\ \A n \in 1..Len(trLog) : trLog'[n] = trLog[n]
      /\ trLog' = trLog \/ trLog'[Len(trLog')] = new
  BY <1>1, StoreKeeps DEF Ground, IndInv, TypeOK
<1> QED BY <1>1, <1>2, <1>3, <1>4 DEF StoredRecorded

\* Every step preserves RecordInv.
LEMMA RecordNext ==
    ASSUME Ground, RecordInv, Next
    PROVE  RecordInv'
PROOF
<1> USE DEF objects, caches, local, history
<1> SUFFICES ASSUME NoDrift' PROVE StoredRecorded' /\ Recorded(copy.status)'
  BY DEF RecordInv
<1>1. /\ NoDrift /\ OrderParts /\ TypeOK /\ spec' = spec /\ Index' = Index
      /\ Runners \subseteq Index /\ Index \subseteq Nat
      /\ done \subseteq done' /\ done' \subseteq Index
  BY Still
<1>2. /\ StoredRecorded /\ Recorded(copy.status) /\ IndInv /\ StatusInv
      /\ \A st : Recorded(st) => Recorded(st)'
      /\ \A st, tt : st.steps = tt.steps => Recorded(st)' = Recorded(tt)'
  BY <1>1 DEF RecordInv, Recorded, Ground
<1>3. trLog' = trLog => StoredRecorded'
  BY <1>1, <1>2 DEF StoredRecorded
<1>4. Recorded(NewStatus)' /\ NoCopy.status = NewStatus
  BY DEF Recorded, NewStatus, NoCopy
<1>5. ASSUME NEW steps, copy'.status.steps = steps,
             \A p \in Index : \/ steps[p].phase # "Succeeded"
                              \/ steps[p].phase = copy.status.steps[p].phase
                              \/ p \in done',
             copy.status.steps # <<>>
      PROVE  Recorded(copy.status)'
  BY <1>1, <1>2, <1>5 DEF Recorded
<1>6. ASSUME pc \notin {"idle", "fetched", "failing"}
      PROVE  /\ copy.status.steps \in StepStatuses /\ copy.status.steps # <<>>
             /\ copy.status.phase = "Running" /\ runner = Runners /\ Ordered
  <2>1. copy.status.steps \in StepStatuses /\ copy.status.phase = "Running"
    BY <1>2, <1>6, CopyFacts DEF IndInv, CopyOpen
  <2>2. 1 \in Index /\ DOMAIN <<>> = {}
    BY <1>1, TaskRunsAssumption, MinItemsAssumption DEF TypeOK, Index
  <2> QED BY <1>1, <1>6, <2>1, <2>2 DEF StepStatuses, OrderParts, RunnerKnown
<1>7. CASE UNCHANGED <<trLog, copy>>
  BY <1>2, <1>3, <1>7
<1>8. CASE trLog' = trLog /\ copy' = NoCopy
  BY <1>3, <1>4, <1>8
<1>9. ASSUME trLog' = trLog, NEW steps, NEW reason, Fail(steps, reason),
             steps = copy.status.steps
      PROVE  StoredRecorded' /\ Recorded(copy.status)'
  BY <1>1, <1>2, <1>3, <1>9, FailSets
<1>10. CASE Fetch
  <2>1. trLog' = trLog /\ copy'.status = trLog[trSeen] /\ trSeen \in 1..Len(trLog)
    BY <1>1, <1>10 DEF Fetch, TypeOK
  <2> QED BY <1>2, <1>3, <2>1 DEF StoredRecorded
<1>11. CASE Start
  <2>1. PICK new : new = [copy.status EXCEPT !.phase = "Running", !.steps = InitStepStatuses]
    OBVIOUS
  <2>2. /\ new \in StatusType /\ HasSteps(new) /\ new.phase = "Running"
        /\ new.steps = InitStepStatuses
    BY <1>2, <1>11, <2>1, StartStatus DEF Start
  <2>3. /\ trLog' = trLog \/ Store(new)
        /\ copy' = NoCopy \/ copy' = [rv |-> Len(trLog'), status |-> new]
    BY <1>11, <2>1 DEF Start, UpdateOk, UpdateError, Return
  <2>4. Recorded(new)'
    BY <1>1, <2>2 DEF Recorded, InitStepStatuses, PlainStatus
  <2>5. StoredRecorded'
    BY <1>2, <2>2, <2>3, <2>4, StoreRecorded
  <2>6. Recorded(copy.status)'
    BY <1>4, <2>3, <2>4
  <2> QED BY <2>5, <2>6
<1>12. CASE MarkRunnersRunning
  <2>1. PICK new : new = [copy.status EXCEPT !.steps = MarkStepsRunning(@, runner)]
    OBVIOUS
  <2>2. /\ new \in StatusType /\ HasSteps(new) /\ WellStored(new) /\ new.phase = "Running"
    BY <1>2, <1>12, <2>1, RunningStatus DEF MarkRunnersRunning
  <2>3. (trLog' = trLog \/ Store(new)) /\ copy' = NoCopy
    BY <1>12, <2>1 DEF MarkRunnersRunning, UpdateOk, UpdateError, Return
  <2>4. Recorded(new)'
    BY <1>1, <2>2 DEF Recorded, WellStored, OpenEntry
  <2>5. StoredRecorded'
    BY <1>2, <2>2, <2>3, <2>4, StoreRecorded
  <2> QED BY <1>4, <2>3, <2>5
<1>13. CASE MarkSucceeded \/ MarkFailed
  <2>1. PICK new \in {[copy.status EXCEPT !.phase = "Succeeded", !.reason = "AllStepsSucceeded"],
                      [copy.status EXCEPT !.phase = "Failed"]} :
            /\ trLog' = trLog \/ Store(new)
            /\ copy' = NoCopy /\ pc # "idle"
            /\ pc # "native" => new = [copy.status EXCEPT !.phase = "Failed"]
    BY <1>13 DEF MarkSucceeded, MarkFailed, SetTerminal, UpdateOk, UpdateError, Return
  <2>2. /\ new \in StatusType /\ new.phase \in Terminal /\ new.steps = copy.status.steps
        /\ pc # "native" => new.phase = "Failed"
    BY <1>2, <2>1, CopyFacts DEF StatusType, Phases, Reasons, Terminal
  <2>3. HasSteps(new)
    BY <2>2 DEF HasSteps, Terminal
  <2>4. pc = "native" => done' = Index
    BY <1>1, <1>13 DEF MarkSucceeded, MarkFailed, OrderParts, NativeProgress
  <2>5. Recorded(new)'
    BY <1>2, <2>2
  <2>6. (trLog' = trLog \/ Store(new)) /\ copy' = NoCopy
    BY <2>1
  <2>7. StoredRecorded'
    BY <1>2, <2>2, <2>3, <2>4, <2>5, <2>6, StoreRecorded
  <2> QED BY <1>4, <2>6, <2>7
<1>14. ASSUME NEW S, S \subseteq done', \A i \in S : \A j \in Index : j < i => j \in done',
              NEW p \in Index, Hit(p, S), S \subseteq Index
       PROVE  p \in done'
  <2>1. PICK i \in S : IsEntryOf(p, i)
    BY <1>14 DEF Hit
  <2>2. p <= i
    BY <1>1, <1>14, <2>1, EntryFacts
  <2>3. p = i \/ p < i
    BY <1>1, <1>14, <2>1, <2>2
  <2> QED BY <1>14, <2>1, <2>3
<1>15. CASE JobSucceeded
  <2>1. PICK read, collected :
            copy' = [copy EXCEPT !.status.steps =
                        MarkStepsSucceeded(collectRunnerLogs(@, read), runner,
                                           collectRunnerOutputs(runner, collected))]
    BY <1>15 DEF JobSucceeded
  <2> DEFINE logged == collectRunnerLogs(copy.status.steps, read)
             steps  == MarkStepsSucceeded(logged, runner, collectRunnerOutputs(runner, collected))
  <2>2. copy'.status.steps = steps
    BY <1>1, <2>1, StepsSet
  <2>3. /\ pc = "route" /\ trLog' = trLog /\ job = "succeeded" /\ UNCHANGED done
    BY <1>1, <1>15 DEF JobSucceeded, AtJob, JobComplete, OrderParts, PodProgress
  <2>4. copy.status.steps \in StepStatuses
    BY <1>6, <2>3
  <2>5. logged \in StepStatuses /\ \A p \in Index : logged[p].phase = copy.status.steps[p].phase
    BY <2>4, MarksType, MarksPhase
  <2> HIDE DEF logged
  <2>6. \A p \in Index : Hit(p, runner) \/ steps[p] = logged[p]
    BY <2>5, SucceededPhase
  <2> HIDE DEF steps
  <2>7. /\ runner \subseteq done' /\ runner \subseteq Index
        /\ \A i \in runner : \A j \in Index : j < i => j \in done'
    BY <1>1, <1>6, <2>3 DEF OrderParts, PodProgress, Ordered, ValidateStepOrdering
  <2>8. \A p \in Index : p \in done' \/ steps[p].phase = copy.status.steps[p].phase
    BY <1>14, <2>5, <2>6, <2>7
  <2>9. Recorded(copy.status)'
    BY <1>5, <1>6, <2>2, <2>3, <2>8
  <2> QED BY <1>3, <2>3, <2>9
<1>16. ASSUME NEW i \in Index, StepSucceeds(i)
       PROVE  StoredRecorded' /\ Recorded(copy.status)'
  <2> DEFINE outputs == [p \in Index |-> Step(i).action \in Producing]
             steps   == MarkStepsSucceeded(copy.status.steps, {i}, outputs)
  <2>1. /\ pc = "executing" /\ trLog' = trLog /\ done' = done \union {i}
        /\ IsNext(i, todo)
    BY <1>16 DEF StepSucceeds
  <2>2. copy' = [copy EXCEPT !.status.steps = steps]
    BY <1>16 DEF StepSucceeds
  <2>3. copy'.status.steps = steps
    BY <1>1, <2>2, StepsSet
  <2>4. copy.status.steps \in StepStatuses
    BY <1>6, <2>1
  <2> HIDE DEF outputs
  <2>5. \A p \in Index : Hit(p, {i}) \/ steps[p] = copy.status.steps[p]
    BY <2>4, SucceededPhase
  <2> HIDE DEF steps
  <2>6. \A j \in Index : j < i => j \in done'
    BY <1>1, <2>1 DEF OrderParts, NativeProgress, IsNext
  <2>7. \A p \in Index : p \in done' \/ steps[p].phase = copy.status.steps[p].phase
    BY <1>14, <2>1, <2>5, <2>6
  <2>8. Recorded(copy.status)'
    BY <1>5, <1>6, <2>1, <2>3, <2>7
  <2> QED BY <1>3, <2>1, <2>8
<1>17. ASSUME pc \in {"route", "native", "executing"}, trLog' = trLog,
              NEW steps \in StepStatuses, NEW S, NEW reason,
              Fail(MarkStepsFailed(steps, S), reason),
              \A p \in Index : steps[p].phase = copy.status.steps[p].phase
       PROVE  StoredRecorded' /\ Recorded(copy.status)'
  <2>1. copy'.status.steps = MarkStepsFailed(steps, S)
    BY <1>1, <1>17, FailSets
  <2>2. \A p \in Index : \/ MarkStepsFailed(steps, S)[p].phase = "Failed"
                         \/ MarkStepsFailed(steps, S)[p] = steps[p]
    BY <1>17, MarksPhase
  <2>3. Recorded(copy.status)'
    BY <1>5, <1>6, <1>17, <2>1, <2>2
  <2> QED BY <1>3, <1>17, <2>3
<1>18. CASE JobFailed
  <2>1. PICK read \in LogReads :
            Fail(MarkStepsFailed(collectRunnerLogs(copy.status.steps, read), runner), "RunnerFailed")
    BY <1>18 DEF JobFailed
  <2>2. pc = "route" /\ trLog' = trLog
    BY <1>18 DEF JobFailed, AtJob
  <2>3. /\ collectRunnerLogs(copy.status.steps, read) \in StepStatuses
        /\ \A p \in Index : collectRunnerLogs(copy.status.steps, read)[p].phase
                               = copy.status.steps[p].phase
    <3>1. copy.status.steps \in StepStatuses
      BY <1>6, <2>2
    <3> QED BY <3>1, MarksType, MarksPhase
  <2> QED BY <1>17, <2>1, <2>2, <2>3
<1>19. ASSUME NEW i \in Index, TemplateError(i) \/ StepErrs(i)
       PROVE  StoredRecorded' /\ Recorded(copy.status)'
  <2>1. /\ pc \in {"native", "executing"} /\ trLog' = trLog
        /\ Fail(MarkStepsFailed(copy.status.steps, {i}), "StepFailed")
    BY <1>19 DEF TemplateError, StepErrs
  <2> QED BY <1>6, <1>17, <2>1
<1>20. ASSUME NEW i \in Index, BeginStep(i)
       PROVE  StoredRecorded' /\ Recorded(copy.status)'
  <2> DEFINE steps == MarkStepsRunning(copy.status.steps, {i})
  <2>1. pc = "native" /\ trLog' = trLog
    BY <1>20 DEF BeginStep
  <2>2. copy' = [copy EXCEPT !.status.steps = steps]
    BY <1>20 DEF BeginStep
  <2>3. copy'.status.steps = steps
    BY <1>1, <2>2, StepsSet
  <2>4. \A p \in Index : steps[p].phase = "Running" \/ steps[p] = copy.status.steps[p]
    <3>1. copy.status.steps \in StepStatuses
      BY <1>6, <2>1
    <3> QED BY <3>1, MarksPhase
  <2> HIDE DEF steps
  <2>5. Recorded(copy.status)'
    BY <1>5, <1>6, <2>1, <2>3, <2>4
  <2> QED BY <1>3, <2>1, <2>5
<1>21. CASE \/ SkipTerminal \/ SyncTaskRun \/ SyncJob \/ SyncCronJob \/ SyncConfigMap
            \/ PodSucceeds \/ PodFails \/ ChangeDefinition \/ Resume \/ RouteNative
            \/ JobNotFound \/ \E i \in Index : RunContainer(i)
  BY <1>7, <1>21 DEF SkipTerminal, SyncTaskRun, SyncJob, SyncCronJob, SyncConfigMap,
     PodSucceeds, PodFails, ChangeDefinition, RunContainer, Resume, RouteNative, JobNotFound
<1>22. CASE \/ reconcileCronJob \/ JobLookupError \/ JobActive \/ Crash
  BY <1>8, <1>22 DEF reconcileCronJob, JobLookupError, JobActive, Crash, Return
<1>23. CASE \/ RejectResolution \/ RejectParams \/ RejectOrdering
  BY <1>9, <1>23 DEF RejectResolution, RejectParams, RejectOrdering
<1>24. CASE ensureParamsConfigMap \/ CreateJob
  BY <1>7, <1>8, <1>9, <1>24 DEF ensureParamsConfigMap, CreateJob, Return
<1> QED
  BY <1>10, <1>11, <1>12, <1>13, <1>15, <1>16, <1>18, <1>19, <1>20, <1>21, <1>22, <1>23, <1>24
     DEF Next, Reconcile, RunPod

\* What the status says happened did happen, also when it was written by a
\* reconcile that worked on an old copy or whose answer was lost.
THEOREM Record == Spec => []RecordedSuccess
PROOF
<1>1. Init => RecordInv
  <2> SUFFICES ASSUME Init PROVE StoredRecorded /\ Recorded(copy.status)
    BY DEF RecordInv
  <2>1. /\ trLog = <<NewStatus>> /\ NewStatus.phase = "" /\ NewStatus.steps = <<>>
        /\ copy.status = NewStatus
    BY DEF Init, NewStatus, NoCopy
  <2>2. \A n \in 1..Len(trLog) : trLog[n] = NewStatus
    <3>1. \A x : \A n \in 1..Len(<<x>>) : <<x>>[n] = x
      OBVIOUS
    <3> QED BY <2>1, <3>1, Zenon
  <2> QED BY <2>1, <2>2 DEF StoredRecorded, Recorded
<1>2. Ground /\ RecordInv /\ [Next]_vars => RecordInv'
  <2>1. RecordInv /\ UNCHANGED vars => RecordInv'
    BY DEF RecordInv, StoredRecorded, Recorded, NoDrift, Index, vars, objects, local, history
  <2> QED BY <2>1, RecordNext
<1>3. Ground /\ RecordInv => RecordedSuccess
  <2> SUFFICES ASSUME Ground, RecordInv, NoDrift
               PROVE  /\ \A n \in 1..Len(trLog) : trLog[n].steps # <<>> =>
                             \A p \in Index : trLog[n].steps[p].phase = "Succeeded" => p \in done
                      /\ Stored.phase = "Succeeded" => done = Index
    BY DEF RecordedSuccess
  <2>1. StoredRecorded /\ Len(trLog) \in 1..Len(trLog)
    BY DEF RecordInv, Ground, IndInv, TypeOK
  <2> QED BY <2>1 DEF StoredRecorded, Recorded, Stored
<1> QED BY <1>1, <1>2, <1>3, GroundInductive, PTL DEF Spec
=============================================================================
