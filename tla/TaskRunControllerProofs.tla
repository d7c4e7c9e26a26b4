----------------------- MODULE TaskRunControllerProofs -----------------------
(***************************************************************************)
(* Machine-checked proofs about TaskRunController, for every set of        *)
(* TaskRuns and definitions and every bound.                               *)
(***************************************************************************)
EXTENDS TaskRunController, TLAPS

-----------------------------------------------------------------------------
(* The inductive invariant behind type correctness and finality.           *)

StepStatuses == [Index -> StepStatus]

\* A status in phase Running has an entry for every step.
HasSteps(st) == st.phase = "Running" => st.steps \in StepStatuses

\* A reconcile works on a version that was not terminal when it was stored,
\* and past the checks its copy is Running.
CopyOpen ==
    /\ pc # "idle" => /\ copy.rv >= 1
                      /\ trLog[copy.rv].phase \notin Terminal
                      /\ copy.status.phase \notin Terminal
    /\ pc \notin {"idle", "fetched", "failing"} => copy.status.phase = "Running"

StepsPresent ==
    /\ \A n \in 1..Len(trLog) : HasSteps(trLog[n])
    /\ HasSteps(copy.status)

IndInv == TypeOK /\ StepsPresent /\ CopyOpen

\* The spec never changes, and definitions change by edits only.
LEMMA SpecFixed ==
    ASSUME Next
    PROVE  spec' = spec /\ (ChangeDefinition \/ UNCHANGED <<defs, defChanges>>)
PROOF BY DEF Next, Reconcile, RunPod, SkipTerminal, Fetch, RejectResolution, RejectParams,
     RejectOrdering, Start, Resume, RouteNative, reconcileCronJob, JobNotFound,
     JobLookupError, ensureParamsConfigMap, CreateJob, MarkRunnersRunning, JobActive,
     JobSucceeded, JobFailed, BeginStep, TemplateError, StepSucceeds, StepErrs,
     MarkSucceeded, MarkFailed, SetTerminal, SyncTaskRun, SyncJob, SyncCronJob,
     SyncConfigMap, RunContainer, PodSucceeds, PodFails, ChangeDefinition, Crash

\* The steps are numbered, and each is a StepSpec.
LEMMA IndexType ==
    ASSUME TypeOK
    PROVE  /\ Len(spec.steps) \in Nat
           /\ Index \subseteq Nat
           /\ \A i \in Index : Step(i) \in StepSpec
PROOF BY TaskRunsAssumption DEF TypeOK, Index, Step

\* Marking steps keeps one well-formed entry for each step.
LEMMA MarksType ==
    ASSUME NEW steps \in StepStatuses, NEW S
    PROVE  /\ MarkStepsRunning(steps, S) \in StepStatuses
           /\ \A outputs \in [Index -> BOOLEAN] :
                  MarkStepsSucceeded(steps, S, outputs) \in StepStatuses
           /\ MarkStepsFailed(steps, S) \in StepStatuses
           /\ collectRunnerLogs(steps, S) \in StepStatuses
PROOF
<1> USE DEF StepStatuses, StepStatus, StepPhases
<1>1. \A new \in StepStatuses : SetStepStatus(steps, S, new) \in StepStatuses
  BY DEF SetStepStatus
<1>2. MarkStepsRunning(steps, S) \in StepStatuses
  BY <1>1 DEF MarkStepsRunning, PlainStatus
<1>3. \A outputs \in [Index -> BOOLEAN] :
          MarkStepsSucceeded(steps, S, outputs) \in StepStatuses
  BY <1>1 DEF MarkStepsSucceeded
<1>4. MarkStepsFailed(steps, S) \in StepStatuses
  BY <1>1 DEF MarkStepsFailed
<1>5. collectRunnerLogs(steps, S) \in StepStatuses
  BY DEF collectRunnerLogs
<1> QED BY <1>2, <1>3, <1>4, <1>5

\* While the spec stands, so do the types that depend on it.
LEMMA SameIndex ==
    ASSUME spec' = spec
    PROVE  /\ Index' = Index /\ StatusType' = StatusType
           /\ StepStatuses' = StepStatuses
PROOF BY DEF Index, StatusType, StepStatuses

\* Storing a well-formed status appends at most one version and changes none.
LEMMA StoreKeeps ==
    ASSUME TypeOK, StepsPresent, NEW new \in StatusType, HasSteps(new),
           spec' = spec, trLog' = trLog \/ Store(new)
    PROVE  /\ trLog' \in Seq(StatusType)
           /\ Len(trLog') \in {Len(trLog), Len(trLog) + 1}
           /\ \A n \in 1..Len(trLog) : trLog'[n] = trLog[n]
           /\ \A n \in 1..Len(trLog') : HasSteps(trLog'[n])
           /\ Store(new) => trLog'[Len(trLog')] = new
PROOF
<1>1. trLog \in Seq(StatusType) /\ Len(trLog) \in Nat \ {0}
  BY DEF TypeOK
<1>2. CASE trLog' = Append(trLog, new)
  BY <1>1, <1>2 DEF StepsPresent
<1>3. CASE trLog' = trLog
  BY <1>1, <1>3 DEF StepsPresent, Store, Stored
<1> QED BY <1>2, <1>3 DEF Store

\* The parts of the invariant a step of the worker that returns leaves.
LEMMA ReturnKeeps ==
    ASSUME TypeOK, spec' = spec, NEW requeue \in BOOLEAN, Return(requeue),
           Len(trLog') \in Nat
    PROVE  /\ pc' = "idle" /\ copy' \in [rv : 0..Len(trLog'), status : StatusType]
           /\ HasSteps(copy'.status) /\ runner' = {} /\ todo' = {}
           /\ queued' \in BOOLEAN
PROOF
<1>1. NewStatus \in StatusType /\ NewStatus.phase = ""
  BY DEF NewStatus, StatusType, Phases, Reasons
<1>2. \A n \in Nat : \A T : NewStatus \in T => NoCopy \in [rv : 0..n, status : T]
  BY SMT DEF NoCopy
<1>3. NoCopy.status = NewStatus
  BY DEF NoCopy
<1>4. (queued \/ requeue) \in BOOLEAN
  BY Zenon DEF TypeOK
<1> QED BY <1>1, <1>2, <1>3, <1>4, Zenon DEF Return, HasSteps

\* A reconcile that is about to fail keeps its version and phase.
LEMMA FailKeeps ==
    ASSUME TypeOK, StepsPresent, NEW steps \in {<<>>} \union StepStatuses,
           NEW reason \in Reasons, Fail(steps, reason),
           copy.status.phase = "Running" => steps \in StepStatuses
    PROVE  /\ pc' = "failing" /\ copy' \in [rv : 0..Len(trLog), status : StatusType]
           /\ copy'.rv = copy.rv /\ copy'.status.phase = copy.status.phase
           /\ HasSteps(copy'.status) /\ runner' = {} /\ todo' = {}
           /\ queued' = queued
PROOF
<1>1. copy \in [rv : 0..Len(trLog), status : StatusType]
  BY DEF TypeOK
<1> DEFINE st == [copy.status EXCEPT !.steps = steps, !.reason = reason]
<1>2. copy' = [copy EXCEPT !.status = st]
  BY <1>1 DEF Fail, StatusType
<1>3. /\ st \in StatusType /\ st.phase = copy.status.phase
      /\ st.steps = steps
  BY <1>1 DEF StatusType, StepStatuses
<1> HIDE DEF st
<1>4. /\ copy' \in [rv : 0..Len(trLog), status : StatusType]
      /\ copy'.rv = copy.rv /\ copy'.status = st
  BY <1>1, <1>2, <1>3
<1>5. HasSteps(copy'.status)
  BY <1>3, <1>4 DEF HasSteps
<1> QED BY <1>3, <1>4, <1>5 DEF Fail

\* Replacing the step entries of the copy keeps its version and phase.
LEMMA CopyStepsKeeps ==
    ASSUME TypeOK, NEW steps \in StepStatuses,
           copy' = [copy EXCEPT !.status.steps = steps]
    PROVE  /\ copy' \in [rv : 0..Len(trLog), status : StatusType]
           /\ copy'.rv = copy.rv /\ copy'.status.phase = copy.status.phase
           /\ copy'.status.steps = steps
PROOF
<1>1. copy \in [rv : 0..Len(trLog), status : StatusType]
  BY DEF TypeOK
<1> DEFINE st == [copy.status EXCEPT !.steps = steps]
<1>2. copy' = [copy EXCEPT !.status = st]
  BY <1>1 DEF StatusType
<1>3. /\ st \in StatusType /\ st.phase = copy.status.phase
      /\ st.steps = steps
  BY <1>1 DEF StatusType, StepStatuses
<1> HIDE DEF st
<1> QED BY <1>1, <1>2, <1>3

\* The counters stay in their range.
LEMMA BumpType ==
    ASSUME NEW n \in 0..MaxCount
    PROVE  Bump(n) \in 0..MaxCount
PROOF BY BoundsAssumption DEF Bump

\* A failing call is counted within the bound.
LEMMA FaultType ==
    ASSUME TypeOK, faults' = faults \/ Fault
    PROVE  faults' \in 0..MaxFaults
PROOF BY BoundsAssumption DEF TypeOK, Fault

\* A status write after which the reconcile returns.
LEMMA WriteReturns ==
    ASSUME IndInv, spec' = spec, NEW new \in StatusType, HasSteps(new),
           trLog' = trLog \/ Store(new), faults' = faults \/ Fault,
           NEW requeue \in BOOLEAN, Return(requeue),
           counted' \in [since : 1..Len(trLog), total : 0..MaxCount],
           UNCHANGED <<defs, job, pod, cmLog, cron, trSeen, jobSeen, cmSeen, cronSeen,
                       started, done, defChanges>>
    PROVE  IndInv'
PROOF
<1>1. /\ Index' = Index /\ StatusType' = StatusType /\ StepStatuses' = StepStatuses
      /\ \A st : HasSteps(st)' = HasSteps(st)
  BY SameIndex DEF HasSteps
<1>2. TypeOK /\ StepsPresent /\ Len(trLog) \in Nat /\ trSeen \in 1..Len(trLog)
  BY DEF IndInv, TypeOK
<1>3. /\ trLog' \in Seq(StatusType)
      /\ Len(trLog') \in {Len(trLog), Len(trLog) + 1}
      /\ \A n \in 1..Len(trLog') : HasSteps(trLog'[n])
  BY <1>2, StoreKeeps
<1>4. /\ Len(trLog') \in Nat /\ trSeen \in 1..Len(trLog') /\ faults' \in 0..MaxFaults
      /\ counted' \in [since : 1..Len(trLog'), total : 0..MaxCount]
  BY <1>2, <1>3, FaultType
<1>5. /\ pc' = "idle" /\ copy' \in [rv : 0..Len(trLog'), status : StatusType]
      /\ HasSteps(copy'.status) /\ runner' = {} /\ todo' = {} /\ queued' \in BOOLEAN
  BY <1>2, <1>4, ReturnKeeps
<1>6. TypeOK'
  BY <1>1, <1>2, <1>3, <1>4, <1>5 DEF TypeOK
<1>7. StepsPresent' /\ CopyOpen'
  BY <1>1, <1>3, <1>5 DEF StepsPresent, CopyOpen
<1> QED BY <1>6, <1>7 DEF IndInv

\* Every step of the worker, the cluster and the environment preserves IndInv.
LEMMA IndInvNext ==
    ASSUME IndInv, Next
    PROVE  IndInv'
PROOF
<1> USE DEF IndInv, objects, caches, local, history
<1>1. spec' = spec
  BY SpecFixed
<1>2. /\ Index' = Index /\ StatusType' = StatusType /\ StepStatuses' = StepStatuses
      /\ \A st : HasSteps(st)' = HasSteps(st)
  BY <1>1, SameIndex DEF HasSteps
<1>3. CASE SkipTerminal
  <2>1. TypeOK'
    BY <1>1, <1>2, <1>3 DEF TypeOK, SkipTerminal
  <2>2. StepsPresent' /\ CopyOpen'
    BY <1>2, <1>3 DEF StepsPresent, CopyOpen, SkipTerminal
  <2> QED BY <2>1, <2>2
<1>4. CASE Fetch
  <2>1. trLog[trSeen] \in StatusType /\ trSeen \in 1..Len(trLog) /\ Len(trLog) \in Nat
    BY DEF TypeOK
  <2>2. /\ copy' \in [rv : 0..Len(trLog), status : StatusType]
        /\ copy'.rv = trSeen /\ copy'.status = trLog[trSeen]
    BY <1>4, <2>1 DEF Fetch
  <2>3. TypeOK'
    BY <1>1, <1>2, <1>4, <2>2 DEF TypeOK, Fetch
  <2>4. StepsPresent'
    BY <1>2, <1>4, <2>1, <2>2 DEF StepsPresent, Fetch
  <2>5. CopyOpen'
    BY <1>4, <2>1, <2>2 DEF CopyOpen, Fetch
  <2> QED BY <2>3, <2>4, <2>5
<1>5. CASE RejectResolution
  <2>1. /\ Fail(copy.status.steps, "ResolutionFailed") /\ "ResolutionFailed" \in Reasons
        /\ copy.status.steps \in {<<>>} \union StepStatuses
        /\ copy.status.phase = "Running" => copy.status.steps \in StepStatuses
    BY <1>5 DEF RejectResolution, Reasons, TypeOK, StatusType, StepStatuses, StepsPresent, HasSteps
  <2>2. /\ pc' = "failing" /\ copy' \in [rv : 0..Len(trLog), status : StatusType]
        /\ copy'.rv = copy.rv /\ copy'.status.phase = copy.status.phase
        /\ HasSteps(copy'.status) /\ runner' = {} /\ todo' = {} /\ queued' = queued
    BY <2>1, FailKeeps
  <2>3. TypeOK'
    BY <1>1, <1>2, <1>5, <2>2, BoundsAssumption DEF TypeOK, RejectResolution, Fault
  <2>4. StepsPresent'
    BY <1>2, <1>5, <2>2 DEF StepsPresent, RejectResolution
  <2>5. CopyOpen'
    BY <1>5, <2>2 DEF CopyOpen, RejectResolution
  <2> QED BY <2>3, <2>4, <2>5
<1>6. CASE RejectParams
  <2>1. /\ Fail(copy.status.steps, "ValidationFailed") /\ "ValidationFailed" \in Reasons
        /\ copy.status.steps \in {<<>>} \union StepStatuses
        /\ copy.status.phase = "Running" => copy.status.steps \in StepStatuses
    BY <1>6 DEF RejectParams, Reasons, TypeOK, StatusType, StepStatuses, StepsPresent, HasSteps
  <2>2. /\ pc' = "failing" /\ copy' \in [rv : 0..Len(trLog), status : StatusType]
        /\ copy'.rv = copy.rv /\ copy'.status.phase = copy.status.phase
        /\ HasSteps(copy'.status) /\ runner' = {} /\ todo' = {} /\ queued' = queued
    BY <2>1, FailKeeps
  <2>3. TypeOK'
    BY <1>1, <1>2, <1>6, <2>2, BoundsAssumption DEF TypeOK, RejectParams, Fault
  <2>4. StepsPresent'
    BY <1>2, <1>6, <2>2 DEF StepsPresent, RejectParams
  <2>5. CopyOpen'
    BY <1>6, <2>2 DEF CopyOpen, RejectParams
  <2> QED BY <2>3, <2>4, <2>5
<1>7. CASE RejectOrdering
  <2>1. /\ Fail(copy.status.steps, "InvalidStepOrdering") /\ "InvalidStepOrdering" \in Reasons
        /\ copy.status.steps \in {<<>>} \union StepStatuses
        /\ copy.status.phase = "Running" => copy.status.steps \in StepStatuses
    BY <1>7 DEF RejectOrdering, Reasons, TypeOK, StatusType, StepStatuses, StepsPresent, HasSteps
  <2>2. /\ pc' = "failing" /\ copy' \in [rv : 0..Len(trLog), status : StatusType]
        /\ copy'.rv = copy.rv /\ copy'.status.phase = copy.status.phase
        /\ HasSteps(copy'.status) /\ runner' = {} /\ todo' = {} /\ queued' = queued
    BY <2>1, FailKeeps
  <2>3. TypeOK'
    BY <1>1, <1>2, <1>7, <2>2, BoundsAssumption DEF TypeOK, RejectOrdering, Fault
  <2>4. StepsPresent'
    BY <1>2, <1>7, <2>2 DEF StepsPresent, RejectOrdering
  <2>5. CopyOpen'
    BY <1>7, <2>2 DEF CopyOpen, RejectOrdering
  <2> QED BY <2>3, <2>4, <2>5
<1>8. CASE Start
  <2> DEFINE new == [copy.status EXCEPT !.phase = "Running", !.steps = InitStepStatuses]
  <2>1. InitStepStatuses \in StepStatuses
    BY DEF StepStatuses, StepStatus, StepPhases, InitStepStatuses, PlainStatus
  <2>2. /\ copy \in [rv : 0..Len(trLog), status : StatusType]
        /\ trSeen \in 1..Len(trLog) /\ Len(trLog) \in Nat
    BY DEF TypeOK
  <2>3. new \in StatusType /\ HasSteps(new) /\ new.phase = "Running"
    BY <2>1, <2>2 DEF StatusType, StepStatuses, HasSteps, Phases
  <2>4. trLog' = trLog \/ Store(new)
    BY <1>8 DEF Start, UpdateOk, UpdateError
  <2>5. UpdateOk(new) => Store(new)
    BY DEF UpdateOk
  <2> HIDE DEF new
  <2>6. /\ trLog' \in Seq(StatusType)
        /\ Len(trLog') \in {Len(trLog), Len(trLog) + 1}
        /\ \A n \in 1..Len(trLog) : trLog'[n] = trLog[n]
        /\ \A n \in 1..Len(trLog') : HasSteps(trLog'[n])
        /\ Store(new) => trLog'[Len(trLog')] = new
    BY <1>1, <2>3, <2>4, StoreKeeps
  <2>7. faults' \in 0..MaxFaults /\ Len(trLog') \in Nat
    <3>1. faults' = faults \/ Fault
      BY <1>8 DEF Start, UpdateOk, UpdateError
    <3> QED BY <2>2, <2>6, <3>1, FaultType
  <2>8. CASE UpdateOk(new) /\ pc' = "route" /\ copy' = [rv |-> Len(trLog'), status |-> new]
             /\ runner' = RunnerSteps(defs) /\ UNCHANGED <<todo, queued>>
    <3>1. runner' \subseteq Index
      BY <2>8 DEF RunnerSteps
    <3>2. /\ copy' \in [rv : 0..Len(trLog'), status : StatusType]
          /\ copy'.rv = Len(trLog') /\ copy'.status = new
      BY <2>2, <2>3, <2>6, <2>8
    <3>3. TypeOK'
      BY <1>1, <1>2, <1>8, <2>2, <2>6, <2>7, <2>8, <3>1, <3>2 DEF TypeOK, Start
    <3>4. StepsPresent'
      BY <1>2, <2>3, <2>6, <3>2 DEF StepsPresent
    <3>5. CopyOpen'
      BY <2>2, <2>3, <2>5, <2>6, <2>8, <3>2 DEF CopyOpen, Terminal
    <3> QED BY <3>3, <3>4, <3>5
  <2>9. CASE Return(TRUE)
    <3>1. /\ pc' = "idle" /\ copy' \in [rv : 0..Len(trLog'), status : StatusType]
          /\ HasSteps(copy'.status) /\ runner' = {} /\ todo' = {} /\ queued' \in BOOLEAN
      BY <1>1, <2>7, <2>9, ReturnKeeps
    <3>2. TypeOK'
      BY <1>1, <1>2, <1>8, <2>2, <2>6, <2>7, <3>1 DEF TypeOK, Start
    <3>3. StepsPresent'
      BY <1>2, <2>6, <3>1 DEF StepsPresent
    <3>4. CopyOpen'
      BY <3>1 DEF CopyOpen
    <3> QED BY <3>2, <3>3, <3>4
  <2> QED BY <1>8, <2>8, <2>9 DEF Start, new
<1>9. CASE Resume
  <2>1. runner' \subseteq Index
    BY <1>9 DEF Resume, RunnerSteps
  <2>2. TypeOK'
    BY <1>1, <1>2, <1>9, <2>1 DEF TypeOK, Resume
  <2>3. copy.status.phase \in Phases
    BY DEF TypeOK, StatusType
  <2>4. StepsPresent' /\ CopyOpen'
    BY <1>2, <1>9, <2>3 DEF StepsPresent, CopyOpen, Resume, Phases, Terminal, FirstReconcile
  <2> QED BY <2>2, <2>4
<1>10. CASE RouteNative
  <2>1. TypeOK'
    BY <1>1, <1>2, <1>10 DEF TypeOK, RouteNative, NativeSteps
  <2>2. StepsPresent' /\ CopyOpen'
    BY <1>2, <1>10 DEF StepsPresent, CopyOpen, RouteNative
  <2> QED BY <2>1, <2>2
<1>11. CASE reconcileCronJob
  <2>1. \E requeue \in BOOLEAN : Return(requeue)
    BY <1>11 DEF reconcileCronJob
  <2>2. trLog' = trLog /\ trLog \in Seq(StatusType) /\ Len(trLog) \in Nat
    BY <1>11 DEF reconcileCronJob, TypeOK
  <2>3. /\ pc' = "idle" /\ copy' \in [rv : 0..Len(trLog'), status : StatusType]
        /\ HasSteps(copy'.status) /\ runner' = {} /\ todo' = {} /\ queued' \in BOOLEAN
    BY <1>1, <2>1, <2>2, ReturnKeeps
  <2>4. faults' \in 0..MaxFaults /\ cron' \in BOOLEAN
    <3>1. faults' = faults \/ Fault
      BY <1>11 DEF reconcileCronJob
    <3>2. cron' = cron \/ cron' = TRUE
      BY <1>11, Zenon DEF reconcileCronJob
    <3>3. cron' \in BOOLEAN
      BY <3>2, Zenon DEF TypeOK
    <3> QED BY <3>1, <3>3, FaultType
  <2>5. TypeOK'
    BY <1>1, <1>2, <1>11, <2>2, <2>3, <2>4 DEF TypeOK, reconcileCronJob
  <2>6. StepsPresent' /\ CopyOpen'
    BY <1>2, <2>2, <2>3 DEF StepsPresent, CopyOpen
  <2> QED BY <2>5, <2>6
<1>12. CASE JobNotFound
  <2>1. TypeOK'
    BY <1>1, <1>2, <1>12 DEF TypeOK, JobNotFound, AtJob
  <2>2. StepsPresent' /\ CopyOpen'
    BY <1>2, <1>12 DEF StepsPresent, CopyOpen, JobNotFound, AtJob
  <2> QED BY <2>1, <2>2
<1>13. CASE JobLookupError
  <2>1. \E requeue \in BOOLEAN : Return(requeue)
    BY <1>13 DEF JobLookupError
  <2>2. trLog' = trLog /\ trLog \in Seq(StatusType) /\ Len(trLog) \in Nat
    BY <1>13 DEF JobLookupError, TypeOK
  <2>3. /\ pc' = "idle" /\ copy' \in [rv : 0..Len(trLog'), status : StatusType]
        /\ HasSteps(copy'.status) /\ runner' = {} /\ todo' = {} /\ queued' \in BOOLEAN
    BY <1>1, <2>1, <2>2, ReturnKeeps
  <2>4. TypeOK'
    BY <1>1, <1>2, <1>13, <2>2, <2>3, BoundsAssumption DEF TypeOK, JobLookupError, Fault
  <2>5. StepsPresent' /\ CopyOpen'
    BY <1>2, <2>2, <2>3 DEF StepsPresent, CopyOpen
  <2> QED BY <2>4, <2>5
<1>14. CASE ensureParamsConfigMap
  <2>1. /\ trLog' = trLog /\ trLog \in Seq(StatusType) /\ Len(trLog) \in Nat
        /\ cmLog \in Seq(SUBSET (Names \X Params)) /\ Len(cmLog) \in Nat
    BY <1>14 DEF ensureParamsConfigMap, TypeOK
  <2>2. ParamsData(runner) \in SUBSET (Names \X Params)
    BY IndexType DEF ParamsData, TypeOK, StepSpec
  <2>3. cmLog' = cmLog \/ cmLog' = Append(cmLog, ParamsData(runner))
    BY <1>14 DEF ensureParamsConfigMap
  <2>4. cmLog' \in Seq(SUBSET (Names \X Params)) /\ cmSeen \in 0..Len(cmLog')
    <3> DEFINE T == SUBSET (Names \X Params)
    <3>1. cmSeen \in 0..Len(cmLog) /\ ParamsData(runner) \in T /\ cmLog \in Seq(T)
      BY <2>1, <2>2 DEF TypeOK
    <3> HIDE DEF T
    <3>2. cmLog' \in Seq(T) /\ cmSeen \in 0..Len(cmLog')
      BY <2>1, <2>3, <3>1
    <3> QED BY <3>2 DEF T
  <2>5. faults' = faults \/ Fault
    BY <1>14 DEF ensureParamsConfigMap
  <2>6. faults' \in 0..MaxFaults
    BY <2>5, FaultType
  <2>7. CASE pc' = "create" /\ UNCHANGED <<copy, runner, todo, queued, faults>>
    <3>1. TypeOK'
      BY <1>1, <1>2, <1>14, <2>1, <2>4, <2>7 DEF TypeOK, ensureParamsConfigMap
    <3>2. StepsPresent' /\ CopyOpen'
      BY <1>2, <1>14, <2>1, <2>7 DEF StepsPresent, CopyOpen, ensureParamsConfigMap
    <3> QED BY <3>1, <3>2
  <2>8. CASE Fail(copy.status.steps, "ParamsConfigMapFailed")
    <3>1. /\ "ParamsConfigMapFailed" \in Reasons
          /\ copy.status.steps \in {<<>>} \union StepStatuses
          /\ copy.status.phase = "Running" => copy.status.steps \in StepStatuses
      BY DEF Reasons, TypeOK, StatusType, StepStatuses, StepsPresent, HasSteps
    <3>2. /\ pc' = "failing" /\ copy' \in [rv : 0..Len(trLog), status : StatusType]
          /\ copy'.rv = copy.rv /\ copy'.status.phase = copy.status.phase
          /\ HasSteps(copy'.status) /\ runner' = {} /\ todo' = {} /\ queued' = queued
      BY <2>8, <3>1, FailKeeps
    <3>3. TypeOK'
      BY <1>1, <1>2, <1>14, <2>1, <2>4, <2>6, <3>2 DEF TypeOK, ensureParamsConfigMap
    <3>4. StepsPresent' /\ CopyOpen'
      BY <1>2, <1>14, <2>1, <3>2 DEF StepsPresent, CopyOpen, ensureParamsConfigMap
    <3> QED BY <3>3, <3>4
  <2> QED BY <1>14, <2>7, <2>8 DEF ensureParamsConfigMap
<1>15. CASE CreateJob
  <2>1. trLog' = trLog /\ trLog \in Seq(StatusType) /\ Len(trLog) \in Nat
    BY <1>15 DEF CreateJob, TypeOK
  <2>2. /\ job' \in {"none", "active", "succeeded", "failed"}
        /\ pod' \subseteq Index
        /\ faults' = faults \/ Fault
    BY <1>15 DEF CreateJob, TypeOK
  <2>3. faults' \in 0..MaxFaults
    BY <2>2, FaultType
  <2>4. CASE pc' = "mark" /\ UNCHANGED <<copy, runner, todo, queued, faults>>
    <3>1. TypeOK'
      BY <1>1, <1>2, <1>15, <2>1, <2>2, <2>4 DEF TypeOK, CreateJob
    <3>2. StepsPresent' /\ CopyOpen'
      BY <1>2, <1>15, <2>1, <2>4 DEF StepsPresent, CopyOpen, CreateJob
    <3> QED BY <3>1, <3>2
  <2>5. CASE Return(TRUE)
    <3>1. /\ pc' = "idle" /\ copy' \in [rv : 0..Len(trLog'), status : StatusType]
          /\ HasSteps(copy'.status) /\ runner' = {} /\ todo' = {} /\ queued' \in BOOLEAN
      BY <1>1, <2>1, <2>5, ReturnKeeps
    <3>2. TypeOK'
      BY <1>1, <1>2, <1>15, <2>1, <2>2, <2>3, <3>1 DEF TypeOK, CreateJob
    <3>3. StepsPresent' /\ CopyOpen'
      BY <1>2, <2>1, <3>1 DEF StepsPresent, CopyOpen
    <3> QED BY <3>2, <3>3
  <2> QED BY <1>15, <2>4, <2>5 DEF CreateJob
<1>16. CASE MarkRunnersRunning
  <2> DEFINE new == [copy.status EXCEPT !.steps = MarkStepsRunning(@, runner)]
  <2>1. copy.status.phase = "Running" /\ copy.status \in StatusType
        /\ copy.status.steps \in StepStatuses
    BY <1>16 DEF MarkRunnersRunning, CopyOpen, StepsPresent, HasSteps, TypeOK
  <2>2. MarkStepsRunning(copy.status.steps, runner) \in StepStatuses
    BY <2>1, MarksType
  <2>3. new \in StatusType /\ HasSteps(new)
    BY <2>1, <2>2 DEF StatusType, HasSteps, StepStatuses
  <2>4. (trLog' = trLog \/ Store(new)) /\ (faults' = faults \/ Fault)
    BY <1>16 DEF MarkRunnersRunning, UpdateOk, UpdateError
  <2>5. Return(TRUE)
    BY <1>16 DEF MarkRunnersRunning
  <2> HIDE DEF new
  <2>6. /\ counted' \in [since : 1..Len(trLog), total : 0..MaxCount]
        /\ UNCHANGED <<defs, job, pod, cmLog, cron, trSeen, jobSeen, cmSeen, cronSeen,
                       started, done, defChanges>>
    BY <1>16 DEF MarkRunnersRunning, TypeOK
  <2> QED BY <1>1, <2>3, <2>4, <2>5, <2>6, WriteReturns
<1>17. CASE JobActive
  <2>1. \E requeue \in BOOLEAN : Return(requeue)
    BY <1>17 DEF JobActive
  <2>2. trLog' = trLog /\ trLog \in Seq(StatusType) /\ Len(trLog) \in Nat
    BY <1>17 DEF JobActive, TypeOK
  <2>3. /\ pc' = "idle" /\ copy' \in [rv : 0..Len(trLog'), status : StatusType]
        /\ HasSteps(copy'.status) /\ runner' = {} /\ todo' = {} /\ queued' \in BOOLEAN
    BY <1>1, <2>1, <2>2, ReturnKeeps
  <2>4. TypeOK'
    BY <1>1, <1>2, <1>17, <2>2, <2>3, BoundsAssumption DEF TypeOK, JobActive, Fault
  <2>5. StepsPresent' /\ CopyOpen'
    BY <1>2, <2>2, <2>3 DEF StepsPresent, CopyOpen
  <2> QED BY <2>4, <2>5
<1>18. CASE JobSucceeded
  <2>1. /\ copy.status.phase = "Running" /\ copy.status.steps \in StepStatuses
        /\ trLog' = trLog /\ Len(trLog) \in Nat
    BY <1>18 DEF JobSucceeded, AtJob, CopyOpen, StepsPresent, HasSteps, TypeOK
  <2>2. PICK read \in LogReads, collected \in BOOLEAN :
          copy' = [copy EXCEPT !.status.steps =
                     MarkStepsSucceeded(collectRunnerLogs(copy.status.steps, read), runner,
                                        collectRunnerOutputs(runner, collected))]
    BY <1>18, BoundsAssumption DEF JobSucceeded, AtJob
  <2>3. collectRunnerOutputs(runner, collected) \in [Index -> BOOLEAN]
    BY Zenon DEF collectRunnerOutputs
  <2>4. collectRunnerLogs(copy.status.steps, read) \in StepStatuses
    BY <2>1, <2>3, MarksType
  <2>5. MarkStepsSucceeded(collectRunnerLogs(copy.status.steps, read), runner,
            collectRunnerOutputs(runner, collected)) \in StepStatuses
    BY <2>3, <2>4, MarksType
  <2>6. /\ copy' \in [rv : 0..Len(trLog), status : StatusType]
        /\ copy'.rv = copy.rv /\ copy'.status.phase = copy.status.phase
        /\ copy'.status.steps \in StepStatuses
    BY <2>2, <2>5, CopyStepsKeeps
  <2>7. TypeOK'
    BY <1>1, <1>2, <1>18, <2>6 DEF TypeOK, JobSucceeded, AtJob, NativeSteps
  <2>8. StepsPresent' /\ CopyOpen'
    BY <1>2, <1>18, <2>1, <2>6 DEF StepsPresent, CopyOpen, JobSucceeded, AtJob, HasSteps
  <2> QED BY <2>7, <2>8
<1>19. CASE JobFailed
  <2>1. /\ copy.status.phase = "Running" /\ copy.status.steps \in StepStatuses
        /\ trLog' = trLog /\ "RunnerFailed" \in Reasons
    BY <1>19 DEF JobFailed, AtJob, CopyOpen, StepsPresent, HasSteps, Reasons
  <2>2. PICK read \in LogReads :
          Fail(MarkStepsFailed(collectRunnerLogs(copy.status.steps, read), runner),
               "RunnerFailed")
    BY <1>19 DEF JobFailed
  <2>3. MarkStepsFailed(collectRunnerLogs(copy.status.steps, read), runner) \in StepStatuses
    BY <2>1, MarksType
  <2>4. /\ pc' = "failing" /\ copy' \in [rv : 0..Len(trLog), status : StatusType]
        /\ copy'.rv = copy.rv /\ copy'.status.phase = copy.status.phase
        /\ HasSteps(copy'.status) /\ runner' = {} /\ todo' = {} /\ queued' = queued
    BY <2>1, <2>2, <2>3, FailKeeps
  <2>5. TypeOK'
    BY <1>1, <1>2, <1>19, <2>4 DEF TypeOK, JobFailed
  <2>6. StepsPresent' /\ CopyOpen'
    BY <1>2, <1>19, <2>1, <2>4 DEF StepsPresent, CopyOpen, JobFailed, AtJob
  <2> QED BY <2>5, <2>6
<1>20. ASSUME NEW i \in Index, BeginStep(i)
       PROVE  IndInv'
  <2>1. /\ copy.status.phase = "Running" /\ copy.status.steps \in StepStatuses
        /\ trLog' = trLog
    BY <1>20 DEF BeginStep, CopyOpen, StepsPresent, HasSteps
  <2>2. MarkStepsRunning(copy.status.steps, {i}) \in StepStatuses
    BY <2>1, MarksType
  <2>3. /\ copy' \in [rv : 0..Len(trLog), status : StatusType]
        /\ copy'.rv = copy.rv /\ copy'.status.phase = copy.status.phase
        /\ copy'.status.steps \in StepStatuses
    BY <1>20, <2>2, CopyStepsKeeps DEF BeginStep
  <2>4. started' \in [Index -> 0..MaxCount]
    BY <1>20, BumpType DEF BeginStep, TypeOK
  <2>5. TypeOK'
    BY <1>1, <1>2, <1>20, <2>3, <2>4 DEF TypeOK, BeginStep
  <2>6. StepsPresent' /\ CopyOpen'
    BY <1>2, <1>20, <2>1, <2>3 DEF StepsPresent, CopyOpen, BeginStep, HasSteps
  <2> QED BY <2>5, <2>6
<1>21. ASSUME NEW i \in Index, TemplateError(i)
       PROVE  IndInv'
  <2>1. /\ copy.status.phase = "Running" /\ copy.status.steps \in StepStatuses
        /\ trLog' = trLog /\ "StepFailed" \in Reasons
    BY <1>21 DEF TemplateError, AtJob, CopyOpen, StepsPresent, HasSteps, Reasons
  <2>2. Fail(MarkStepsFailed(copy.status.steps, {i}), "StepFailed")
    BY <1>21 DEF TemplateError
  <2>3. MarkStepsFailed(copy.status.steps, {i}) \in StepStatuses
    BY <2>1, MarksType
  <2>4. /\ pc' = "failing" /\ copy' \in [rv : 0..Len(trLog), status : StatusType]
        /\ copy'.rv = copy.rv /\ copy'.status.phase = copy.status.phase
        /\ HasSteps(copy'.status) /\ runner' = {} /\ todo' = {} /\ queued' = queued
    BY <2>1, <2>2, <2>3, FailKeeps
  <2>5. TypeOK'
    BY <1>1, <1>2, <1>21, <2>4 DEF TypeOK, TemplateError
  <2>6. StepsPresent' /\ CopyOpen'
    BY <1>2, <1>21, <2>1, <2>4 DEF StepsPresent, CopyOpen, TemplateError, AtJob
  <2> QED BY <2>5, <2>6
<1>22. ASSUME NEW i \in Index, StepSucceeds(i)
       PROVE  IndInv'
  <2>1. /\ copy.status.phase = "Running" /\ copy.status.steps \in StepStatuses
        /\ trLog' = trLog
    BY <1>22 DEF StepSucceeds, CopyOpen, StepsPresent, HasSteps
  <2> DEFINE outputs == [p \in Index |-> Step(i).action \in Producing]
  <2>2. outputs \in [Index -> BOOLEAN]
    BY SMT
  <2>3. MarkStepsSucceeded(copy.status.steps, {i}, outputs) \in StepStatuses
    BY <2>1, <2>2, MarksType
  <2>4. copy' = [copy EXCEPT !.status.steps =
                    MarkStepsSucceeded(copy.status.steps, {i}, outputs)]
    BY <1>22 DEF StepSucceeds
  <2> HIDE DEF outputs
  <2>5. /\ copy' \in [rv : 0..Len(trLog), status : StatusType]
        /\ copy'.rv = copy.rv /\ copy'.status.phase = copy.status.phase
        /\ copy'.status.steps \in StepStatuses
    BY <2>3, <2>4, CopyStepsKeeps
  <2>6. TypeOK'
    BY <1>1, <1>2, <1>22, <2>5 DEF TypeOK, StepSucceeds
  <2>7. StepsPresent' /\ CopyOpen'
    BY <1>2, <1>22, <2>1, <2>5 DEF StepsPresent, CopyOpen, StepSucceeds, HasSteps
  <2> QED BY <2>6, <2>7
<1>23. ASSUME NEW i \in Index, StepErrs(i)
       PROVE  IndInv'
  <2>1. /\ copy.status.phase = "Running" /\ copy.status.steps \in StepStatuses
        /\ trLog' = trLog /\ "StepFailed" \in Reasons
    BY <1>23 DEF StepErrs, AtJob, CopyOpen, StepsPresent, HasSteps, Reasons
  <2>2. Fail(MarkStepsFailed(copy.status.steps, {i}), "StepFailed")
    BY <1>23 DEF StepErrs
  <2>3. MarkStepsFailed(copy.status.steps, {i}) \in StepStatuses
    BY <2>1, MarksType
  <2>4. /\ pc' = "failing" /\ copy' \in [rv : 0..Len(trLog), status : StatusType]
        /\ copy'.rv = copy.rv /\ copy'.status.phase = copy.status.phase
        /\ HasSteps(copy'.status) /\ runner' = {} /\ todo' = {} /\ queued' = queued
    BY <2>1, <2>2, <2>3, FailKeeps
  <2>5. TypeOK'
    BY <1>1, <1>2, <1>23, <2>4 DEF TypeOK, StepErrs
  <2>6. StepsPresent' /\ CopyOpen'
    BY <1>2, <1>23, <2>1, <2>4 DEF StepsPresent, CopyOpen, StepErrs, AtJob
  <2> QED BY <2>5, <2>6
<1>24. CASE MarkSucceeded
  <2> DEFINE new == [copy.status EXCEPT !.phase = "Succeeded", !.reason = "AllStepsSucceeded"]
  <2>1. new \in StatusType /\ HasSteps(new)
    BY DEF TypeOK, StatusType, HasSteps, Phases, Reasons
  <2>2. SetTerminal(new)
    BY <1>24 DEF MarkSucceeded
  <2> HIDE DEF new
  <2>3. /\ trLog' = trLog \/ Store(new)
        /\ faults' = faults \/ Fault
        /\ \E requeue \in BOOLEAN : Return(requeue)
    BY <2>2 DEF SetTerminal, UpdateOk, UpdateError
  <2>4. /\ counted' \in [since : 1..Len(trLog), total : 0..MaxCount]
        /\ UNCHANGED <<defs, job, pod, cmLog, cron, trSeen, jobSeen, cmSeen, cronSeen,
                       started, done, defChanges>>
    BY <2>2, BumpType DEF SetTerminal, TypeOK
  <2> QED BY <1>1, <2>1, <2>3, <2>4, WriteReturns
<1>25. CASE MarkFailed
  <2> DEFINE new == [copy.status EXCEPT !.phase = "Failed"]
  <2>1. new \in StatusType /\ HasSteps(new)
    BY DEF TypeOK, StatusType, HasSteps, Phases, Reasons
  <2>2. SetTerminal(new)
    BY <1>25 DEF MarkFailed
  <2> HIDE DEF new
  <2>3. /\ trLog' = trLog \/ Store(new)
        /\ faults' = faults \/ Fault
        /\ \E requeue \in BOOLEAN : Return(requeue)
    BY <2>2 DEF SetTerminal, UpdateOk, UpdateError
  <2>4. /\ counted' \in [since : 1..Len(trLog), total : 0..MaxCount]
        /\ UNCHANGED <<defs, job, pod, cmLog, cron, trSeen, jobSeen, cmSeen, cronSeen,
                       started, done, defChanges>>
    BY <2>2, BumpType DEF SetTerminal, TypeOK
  <2> QED BY <1>1, <2>1, <2>3, <2>4, WriteReturns
<1>26. CASE SyncTaskRun
  <2>1. TypeOK'
    BY <1>1, <1>2, <1>26 DEF TypeOK, SyncTaskRun
  <2>2. StepsPresent' /\ CopyOpen'
    BY <1>2, <1>26 DEF StepsPresent, CopyOpen, SyncTaskRun
  <2> QED BY <2>1, <2>2
<1>27. CASE SyncJob
  <2>1. TypeOK'
    BY <1>1, <1>2, <1>27 DEF TypeOK, SyncJob
  <2>2. StepsPresent' /\ CopyOpen'
    BY <1>2, <1>27 DEF StepsPresent, CopyOpen, SyncJob
  <2> QED BY <2>1, <2>2
<1>28. CASE SyncCronJob
  <2>1. TypeOK'
    BY <1>1, <1>2, <1>28 DEF TypeOK, SyncCronJob
  <2>2. StepsPresent' /\ CopyOpen'
    BY <1>2, <1>28 DEF StepsPresent, CopyOpen, SyncCronJob
  <2> QED BY <2>1, <2>2
<1>29. CASE SyncConfigMap
  <2>1. TypeOK'
    BY <1>1, <1>2, <1>29 DEF TypeOK, SyncConfigMap
  <2>2. StepsPresent' /\ CopyOpen'
    BY <1>2, <1>29 DEF StepsPresent, CopyOpen, SyncConfigMap
  <2> QED BY <2>1, <2>2
<1>30. ASSUME NEW i \in Index, RunContainer(i)
       PROVE  IndInv'
  <2>1. started' \in [Index -> 0..MaxCount]
    BY <1>30, BumpType DEF RunContainer, TypeOK
  <2>2. TypeOK'
    BY <1>1, <1>2, <1>30, <2>1 DEF TypeOK, RunContainer
  <2>3. StepsPresent' /\ CopyOpen'
    BY <1>2, <1>30 DEF StepsPresent, CopyOpen, RunContainer
  <2> QED BY <2>2, <2>3
<1>31. CASE PodSucceeds
  <2>1. TypeOK'
    BY <1>1, <1>2, <1>31 DEF TypeOK, PodSucceeds
  <2>2. StepsPresent' /\ CopyOpen'
    BY <1>2, <1>31 DEF StepsPresent, CopyOpen, PodSucceeds
  <2> QED BY <2>1, <2>2
<1>32. CASE PodFails
  <2>1. started' \in [Index -> 0..MaxCount]
    <3>1. CASE started' = started
      BY <3>1 DEF TypeOK
    <3>2. CASE \E i \in pod : started' = [started EXCEPT ![i] = Bump(@)]
      <4>1. PICK i \in Index : started' = [started EXCEPT ![i] = Bump(started[i])]
        BY <3>2 DEF TypeOK
      <4> QED BY <4>1, BumpType DEF TypeOK
    <3> QED BY <1>32, <3>1, <3>2 DEF PodFails
  <2>2. TypeOK'
    BY <1>1, <1>2, <1>32, <2>1 DEF TypeOK, PodFails
  <2>3. StepsPresent' /\ CopyOpen'
    BY <1>2, <1>32 DEF StepsPresent, CopyOpen, PodFails
  <2> QED BY <2>2, <2>3
<1>33. CASE ChangeDefinition
  <2>1. TypeOK'
    <3>1. PICK s \in Scopes, a \in Actions, d \in Definitions :
            defs' = [defs EXCEPT ![s][a] = d]
      BY <1>33 DEF ChangeDefinition
    <3>2. defs' \in [Scopes -> [Actions -> Definition]]
      BY <3>1, DefinitionsAssumption DEF TypeOK
    <3>3. defChanges' \in 0..MaxDefChanges
      BY <1>33, BoundsAssumption DEF ChangeDefinition, TypeOK
    <3> QED BY <1>1, <1>2, <1>33, <3>2, <3>3 DEF TypeOK, ChangeDefinition
  <2>2. StepsPresent' /\ CopyOpen'
    BY <1>2, <1>33 DEF StepsPresent, CopyOpen, ChangeDefinition
  <2> QED BY <2>1, <2>2
<1>34. CASE Crash
  <2>1. /\ Return(TRUE) /\ trLog' = trLog /\ Len(trLog) \in Nat
        /\ faults' = faults \/ Fault
    <3>1. queued' = (queued \/ TRUE)
      BY <1>34, Zenon DEF Crash
    <3> QED BY <1>34, <3>1 DEF Crash, Return, TypeOK
  <2>2. /\ pc' = "idle" /\ copy' \in [rv : 0..Len(trLog'), status : StatusType]
        /\ HasSteps(copy'.status) /\ runner' = {} /\ todo' = {} /\ queued' \in BOOLEAN
    BY <1>1, <2>1, ReturnKeeps
  <2>3. faults' \in 0..MaxFaults
    BY <2>1, FaultType
  <2>4. cronSeen' \in BOOLEAN
    BY <1>34, Zenon DEF Crash, TypeOK
  <2>7. counted' \in [since : 1..Len(trLog'), total : 0..MaxCount]
    <3>1. Len(trLog) \in Nat \ {0} /\ 0 \in 0..MaxCount
      BY BoundsAssumption DEF TypeOK
    <3>2. counted' = [since |-> Len(trLog), total |-> 0] /\ trLog' = trLog
      BY <1>34, <2>1 DEF Crash
    <3> QED BY <3>1, <3>2
  <2>5. TypeOK'
    <3>1. /\ jobSeen' \in {"none", "active", "succeeded", "failed"}
          /\ trSeen' \in 1..Len(trLog') /\ cmSeen' \in 0..Len(cmLog')
      BY <1>34, <2>1 DEF Crash, TypeOK
    <3>2. UNCHANGED <<spec, defs, trLog, job, pod, cmLog, cron, started, done, defChanges>>
      BY <1>34 DEF Crash
    <3> QED BY <1>1, <1>2, <2>2, <2>3, <2>4, <2>7, <3>1, <3>2 DEF TypeOK
  <2>6. StepsPresent' /\ CopyOpen'
    BY <1>2, <2>1, <2>2 DEF StepsPresent, CopyOpen
  <2> QED BY <2>5, <2>6
<1> QED
  BY <1>3, <1>4, <1>5, <1>6, <1>7, <1>8, <1>9, <1>10, <1>11, <1>12, <1>13, <1>14, <1>15,
     <1>16, <1>17, <1>18, <1>19, <1>20, <1>21, <1>22, <1>23, <1>24, <1>25, <1>26, <1>27,
     <1>28, <1>29, <1>30, <1>31, <1>32, <1>33, <1>34
     DEF Next, Reconcile, RunPod

\* A TaskRun that was just applied satisfies IndInv.
LEMMA IndInvInit == Init => IndInv
PROOF
<1> SUFFICES ASSUME Init PROVE IndInv
  OBVIOUS
<1>1. spec \in TaskRuns /\ Len(spec.steps) \in Nat
  BY TaskRunsAssumption DEF Init
<1>2. NewStatus \in StatusType /\ NewStatus.phase = ""
  BY DEF NewStatus, StatusType, Phases, Reasons
<1>3. \A n \in Nat : \A T : NewStatus \in T => NoCopy \in [rv : 0..n, status : T]
  BY SMT DEF NoCopy
<1>4. NoCopy.status = NewStatus
  BY DEF NoCopy
<1>5. trLog \in Seq(StatusType) /\ Len(trLog) = 1 /\ trLog[1] = NewStatus
  <2>1. \A x, T : x \in T => <<x>> \in Seq(T) /\ Len(<<x>>) = 1 /\ <<x>>[1] = x
    OBVIOUS
  <2>2. trLog = <<NewStatus>>
    BY DEF Init
  <2> QED BY <1>2, <2>1, <2>2, Zenon
<1>6. TypeOK
  <2>1. copy \in [rv : 0..Len(trLog), status : StatusType]
    BY <1>2, <1>3, <1>5 DEF Init
  <2>2. cmLog \in Seq(SUBSET (Names \X Params)) /\ Len(cmLog) = 0
    BY DEF Init
  <2>3. /\ started \in [Index -> 0..MaxCount]
        /\ cron \in BOOLEAN /\ cronSeen \in BOOLEAN /\ queued \in BOOLEAN
    <3>1. started = [i \in Index |-> 0] /\ 0 \in 0..MaxCount
      BY BoundsAssumption DEF Init
    <3>2. started \in [Index -> 0..MaxCount]
      BY <3>1
    <3>3. cron = FALSE /\ cronSeen = FALSE /\ queued = TRUE
      BY Zenon DEF Init
    <3> QED BY <3>2, <3>3, Zenon
  <2>4. defs \in [Scopes -> [Actions -> Definition]]
    BY DefinitionsAssumption DEF Init
  <2> QED BY <1>1, <1>5, <2>1, <2>2, <2>3, <2>4, BoundsAssumption DEF TypeOK, Init
<1>7. StepsPresent /\ CopyOpen
  <2>1. copy = NoCopy /\ pc = "idle"
    BY DEF Init
  <2>2. HasSteps(NewStatus)
    BY <1>2 DEF HasSteps
  <2>3. \A n \in 1..Len(trLog) : trLog[n] = NewStatus
    BY <1>5
  <2> QED BY <1>4, <2>1, <2>2, <2>3 DEF StepsPresent, CopyOpen
<1> QED BY <1>6, <1>7 DEF IndInv

\* The invariant holds in every reachable state.
LEMMA Inductive == Spec => []IndInv
PROOF
<1>1. IndInv /\ UNCHANGED vars => IndInv'
  <2> SUFFICES ASSUME IndInv, UNCHANGED vars
               PROVE  IndInv'
    OBVIOUS
  <2>1. /\ UNCHANGED <<spec, defs, trLog, job, pod, cmLog, cron, trSeen, jobSeen, cmSeen,
                       cronSeen, queued, pc, copy, runner, todo>>
        /\ UNCHANGED <<started, done, counted, faults, defChanges>>
    BY DEF vars, objects, caches, local, history
  <2>2. /\ Index' = Index /\ StatusType' = StatusType /\ StepStatuses' = StepStatuses
        /\ \A st : HasSteps(st)' = HasSteps(st)
    BY <2>1, SameIndex DEF HasSteps
  <2>3. TypeOK'
    BY <2>1, <2>2 DEF IndInv, TypeOK
  <2>4. StepsPresent' /\ CopyOpen'
    BY <2>1, <2>2 DEF IndInv, StepsPresent, CopyOpen
  <2> QED BY <2>3, <2>4 DEF IndInv
<1>2. IndInv /\ [Next]_vars => IndInv'
  BY <1>1, IndInvNext
<1> QED BY <1>2, IndInvInit, PTL DEF Spec

\* Every reachable state of the reconciler is well-typed, whatever TaskRuns,
\* definitions and bounds it is given.
THEOREM TypeCorrect == Spec => []TypeOK
PROOF BY Inductive, PTL DEF IndInv

\* A stored terminal status is never changed: the only writes are based on the
\* latest version, and no reconcile starts from a terminal one.
THEOREM Finality == Spec => TerminalIsFinal
PROOF
<1>1. IndInv /\ [Next]_vars => [Stored.phase \in Terminal => trLog' = trLog]_vars
  <2> SUFFICES ASSUME IndInv, Next, trLog' # trLog
               PROVE  Stored.phase \notin Terminal
    BY DEF vars, objects
  <2>1. ~Conflict /\ pc # "idle"
    BY DEF Next, Reconcile, RunPod, SkipTerminal, Fetch, RejectResolution, RejectParams,
       RejectOrdering, Start, Resume, RouteNative, reconcileCronJob, JobNotFound,
       JobLookupError, ensureParamsConfigMap, CreateJob, MarkRunnersRunning, JobActive,
       JobSucceeded, JobFailed, BeginStep, TemplateError, StepSucceeds, StepErrs,
       MarkSucceeded, MarkFailed, SetTerminal, SyncTaskRun, SyncJob, SyncCronJob,
       SyncConfigMap, RunContainer, PodSucceeds, PodFails, ChangeDefinition, Crash,
       UpdateOk, UpdateError, objects
  <2> QED BY <2>1 DEF IndInv, CopyOpen, Conflict, Stored
<1> QED BY <1>1, Inductive, PTL DEF Spec, TerminalIsFinal

-----------------------------------------------------------------------------
(* The metric.                                                             *)

\* A status write makes the new status the stored one, or changes nothing.
LEMMA StoreStores ==
    ASSUME TypeOK, NEW new \in StatusType, Store(new)
    PROVE  Stored' = new
PROOF
<1>1. trLog \in Seq(StatusType) /\ Len(trLog) \in Nat \ {0}
  BY DEF TypeOK
<1>2. CASE new = Stored
  BY <1>1, <1>2 DEF Store, Stored
<1>3. CASE new # Stored
  <2>1. trLog' = Append(trLog, new)
    BY <1>3 DEF Store
  <2> QED BY <1>1, <2>1 DEF Stored
<1> QED BY <1>2, <1>3

\* Only the step that counts the TaskRun makes its status terminal.
LEMMA CountedNext ==
    ASSUME IndInv, CountedWhileAlive, Next
    PROVE  CountedWhileAlive'
PROOF
<1>1. /\ counted.total \in Nat /\ Bump(counted.total) >= 1
      /\ counted \in [since : 1..Len(trLog), total : 0..MaxCount]
  BY BoundsAssumption DEF IndInv, TypeOK, Bump
<1>2. CASE UNCHANGED <<trLog, counted>>
  BY <1>2 DEF CountedWhileAlive, Stored
<1>3. CASE MarkSucceeded \/ MarkFailed
  <2>1. counted' = [counted EXCEPT !.total = Bump(@)]
    BY <1>3 DEF MarkSucceeded, MarkFailed, SetTerminal
  <2>2. counted'.total >= 1
    BY <1>1, <2>1
  <2> QED BY <2>2 DEF CountedWhileAlive
<1>6. CASE Crash
  <2>1. trLog' = trLog /\ counted' = [since |-> Len(trLog), total |-> 0]
    BY <1>6 DEF Crash, objects
  <2>2. trLog'[counted'.since] = Stored'
    BY <2>1 DEF Stored
  <2> QED BY <2>2 DEF CountedWhileAlive
<1>4. CASE Start
  <2> DEFINE new == [copy.status EXCEPT !.phase = "Running", !.steps = InitStepStatuses]
  <2>1. new \in StatusType /\ new.phase = "Running"
    <3>1. copy.status \in StatusType
      BY DEF IndInv, TypeOK
    <3>2. InitStepStatuses \in [Index -> StepStatus]
      BY DEF InitStepStatuses, PlainStatus, StepStatus, StepPhases
    <3> QED BY <3>1, <3>2 DEF StatusType, Phases
  <2>2. counted' = counted /\ (UNCHANGED trLog \/ Store(new))
    BY <1>4 DEF Start, UpdateOk, UpdateError
  <2>3. CASE UNCHANGED trLog
    BY <2>2, <2>3 DEF CountedWhileAlive, Stored
  <2>4. CASE Store(new)
    BY <2>1, <2>4, StoreStores DEF IndInv, CountedWhileAlive, Terminal
  <2> QED BY <2>2, <2>3, <2>4
<1>5. CASE MarkRunnersRunning
  <2> DEFINE new == [copy.status EXCEPT !.steps = MarkStepsRunning(@, runner)]
  <2>1. copy.status \in StatusType /\ copy.status.phase = "Running"
        /\ copy.status.steps \in StepStatuses
    BY <1>5 DEF MarkRunnersRunning, IndInv, TypeOK, CopyOpen, StepsPresent, HasSteps
  <2>2. MarkStepsRunning(copy.status.steps, runner) \in StepStatuses
    BY <2>1, MarksType
  <2>3. new \in StatusType /\ new.phase = "Running"
    BY <2>1, <2>2 DEF StatusType, StepStatuses
  <2>4. counted' = counted /\ (UNCHANGED trLog \/ Store(new))
    BY <1>5 DEF MarkRunnersRunning, UpdateOk, UpdateError
  <2>5. CASE UNCHANGED trLog
    BY <2>4, <2>5 DEF CountedWhileAlive, Stored
  <2>6. CASE Store(new)
    BY <2>3, <2>6, StoreStores DEF IndInv, CountedWhileAlive, Terminal
  <2> QED BY <2>4, <2>5, <2>6
<1> QED
  BY <1>2, <1>3, <1>4, <1>5, <1>6 DEF Next, Reconcile, RunPod, SkipTerminal, Fetch,
     RejectResolution, RejectParams, RejectOrdering, Resume, RouteNative,
     reconcileCronJob, JobNotFound, JobLookupError, ensureParamsConfigMap, CreateJob,
     JobActive, JobSucceeded, JobFailed, BeginStep, TemplateError, StepSucceeds, StepErrs,
     SyncTaskRun, SyncJob, SyncCronJob, SyncConfigMap, RunContainer, PodSucceeds, PodFails,
     ChangeDefinition, objects

\* Every TaskRun finished since its process started is in that process's
\* taskrun_total, lost answers included.
THEOREM Counting == Spec => []CountedWhileAlive
PROOF
<1>1. Init => CountedWhileAlive
  <2> SUFFICES ASSUME Init PROVE Stored.phase \notin Terminal
    BY DEF CountedWhileAlive
  <2>1. trLog = <<NewStatus>> /\ NewStatus.phase = ""
    BY DEF Init, NewStatus
  <2>2. Stored = NewStatus
    BY <2>1 DEF Stored
  <2> QED BY <2>1, <2>2 DEF Terminal
<1>2. IndInv /\ CountedWhileAlive /\ [Next]_vars => CountedWhileAlive'
  <2>1. CountedWhileAlive /\ UNCHANGED vars => CountedWhileAlive'
    BY DEF CountedWhileAlive, Stored, vars, objects
  <2> QED BY <2>1, CountedNext
<1> QED BY <1>1, <1>2, Inductive, PTL DEF Spec

-----------------------------------------------------------------------------
(* The order of the steps, while nobody edits a definition.                *)

Ordered == ValidateStepOrdering(Runners)

\* The reconcile works with the runner steps the definitions give.
RunnerKnown ==
    pc \notin {"idle", "fetched", "failing"} => runner = Runners /\ Ordered

\* The Job's containers are the runner steps; those not in the pod any more
\* are done, all of them once the Job has succeeded.
PodProgress ==
    /\ pod \subseteq Runners
    /\ job # "none" => Ordered
    /\ job = "active" => Runners \ pod \subseteq done
    /\ job = "succeeded" => Runners \subseteq done
    /\ jobSeen = "succeeded" => job = "succeeded"

\* The steps a reconcile has behind it in phase 2 are done.
NativeProgress ==
    pc \in {"native", "executing"} =>
        /\ todo \subseteq Index \ Runners
        /\ Index \ todo \subseteq done
        /\ Runners # {} => job = "succeeded"

\* A container still in the pod, or not yet in a Job, has not been started.
Unstarted ==
    \A i \in Runners : /\ started[i] <= 1
                       /\ i \in pod \/ job = "none" => started[i] = 0

InOrder == \A i, j \in Index : j < i /\ started[i] > 0 => j \in done

JobFirst == Runners # {} => \A i \in Index \ Runners : started[i] > 0 => job = "succeeded"

OrderParts ==
    RunnerKnown /\ PodProgress /\ NativeProgress /\ Unstarted /\ InOrder /\ JobFirst

OrderInv == NoDrift => OrderParts

\* A step counted once more has been started.
LEMMA BumpFacts ==
    ASSUME NEW n \in 0..MaxCount
    PROVE  /\ Bump(n) \in Nat
           /\ n = 0 => Bump(n) = 1
PROOF BY BoundsAssumption DEF Bump

\* Every step preserves OrderInv where the variables have their types.
LEMMA OrderNext ==
    ASSUME TypeOK, OrderInv, Next
    PROVE  OrderInv'
PROOF
<1> SUFFICES ASSUME NoDrift' PROVE OrderParts'
  BY DEF OrderInv
<1> USE DEF objects, caches, local, history
<1>1. /\ spec' = spec /\ defs' = defs /\ NoDrift
  BY SpecFixed DEF ChangeDefinition, NoDrift, TypeOK
<1>2. /\ Index' = Index /\ Runners' = Runners /\ Ordered' = Ordered
      /\ Runners \subseteq Index /\ Index \subseteq Nat
  BY <1>1, IndexType DEF Index, Runners, RunnerSteps, Ordered, ValidateStepOrdering, Step
<1>3. OrderParts
  BY <1>1 DEF OrderInv
<1> USE DEF OrderParts
<1>4. ASSUME UNCHANGED <<job, jobSeen, pod, started, done>>,
             pc' \in {"idle", "fetched", "failing"}
      PROVE  OrderParts'
  BY <1>2, <1>3, <1>4 DEF RunnerKnown, PodProgress, NativeProgress, Unstarted, InOrder, JobFirst
<1>5. ASSUME UNCHANGED <<job, jobSeen, pod, started, done, pc, runner, todo>>
      PROVE  OrderParts'
  BY <1>2, <1>3, <1>5 DEF RunnerKnown, PodProgress, NativeProgress, Unstarted, InOrder, JobFirst
<1>6. ASSUME UNCHANGED <<job, jobSeen, pod, started, done>>, runner' = Runners, Ordered,
             pc' \in {"route", "params", "create", "mark"}
      PROVE  OrderParts'
  BY <1>2, <1>3, <1>6 DEF RunnerKnown, PodProgress, NativeProgress, Unstarted, InOrder, JobFirst
<1>7. CASE \/ SkipTerminal \/ SyncTaskRun \/ SyncCronJob \/ SyncConfigMap
  BY <1>5, <1>7 DEF SkipTerminal, SyncTaskRun, SyncCronJob, SyncConfigMap
<1>8. CASE \/ Fetch \/ RejectResolution \/ RejectParams \/ RejectOrdering
           \/ reconcileCronJob \/ JobLookupError \/ MarkRunnersRunning \/ JobActive
           \/ JobFailed \/ MarkSucceeded \/ MarkFailed
           \/ \E i \in Index : TemplateError(i) \/ StepErrs(i)
  BY <1>4, <1>8 DEF Fetch, RejectResolution, RejectParams, RejectOrdering,
     reconcileCronJob, JobLookupError, MarkRunnersRunning, JobActive, JobFailed,
     MarkSucceeded, MarkFailed, SetTerminal, TemplateError, StepErrs, Return, Fail
<1>9. CASE Start \/ Resume
  <2>1. UNCHANGED <<job, jobSeen, pod, started, done>> /\ Ordered
    BY <1>9 DEF Start, Resume, Valid, Ordered, Runners
  <2>2. pc' = "idle" \/ (pc' = "route" /\ runner' = Runners)
    BY <1>9 DEF Start, Resume, Return, Runners
  <2> QED BY <1>4, <1>6, <2>1, <2>2
<1>10. CASE RouteNative
  <2>1. Runners = {} /\ pc' = "native" /\ todo' = Index /\ runner' = runner
    BY <1>3, <1>10 DEF RouteNative, RunnerKnown, NativeSteps
  <2>2. UNCHANGED <<job, jobSeen, pod, started, done>> /\ runner = Runners /\ Ordered
    BY <1>3, <1>10 DEF RouteNative, RunnerKnown
  <2> QED BY <1>2, <1>3, <2>1, <2>2
          DEF RunnerKnown, PodProgress, NativeProgress, Unstarted, InOrder, JobFirst
<1>11. CASE JobNotFound \/ ensureParamsConfigMap
  <2>1. UNCHANGED <<job, jobSeen, pod, started, done>> /\ runner = Runners /\ Ordered
    BY <1>3, <1>11 DEF JobNotFound, AtJob, ensureParamsConfigMap, RunnerKnown
  <2>2. pc' = "failing" \/ (pc' \in {"params", "create"} /\ runner' = runner)
    BY <1>11 DEF JobNotFound, ensureParamsConfigMap, Fail
  <2> QED BY <1>4, <1>6, <2>1, <2>2
<1>12. CASE CreateJob
  <2>1. runner = Runners /\ Ordered /\ UNCHANGED <<jobSeen, started, done>>
    BY <1>3, <1>12 DEF CreateJob, RunnerKnown
  <2>2. pc' = "idle" \/ (pc' = "mark" /\ runner' = runner)
    BY <1>12 DEF CreateJob, Return
  <2>3. CASE UNCHANGED <<job, pod>>
    BY <1>4, <1>6, <2>1, <2>2, <2>3
  <2>4. CASE job = "none" /\ job' = "active" /\ pod' = runner
    BY <1>2, <1>3, <2>1, <2>2, <2>4
       DEF RunnerKnown, PodProgress, NativeProgress, Unstarted, InOrder, JobFirst
  <2> QED BY <1>12, <2>3, <2>4 DEF CreateJob, JobNameFree
<1>13. CASE JobSucceeded
  <2>1. /\ runner = Runners /\ Ordered /\ UNCHANGED <<job, jobSeen, pod, started, done>>
        /\ job = "succeeded" /\ pc' = "native" /\ runner' = runner /\ todo' = Index \ Runners
    BY <1>3, <1>13 DEF JobSucceeded, AtJob, JobComplete, NativeSteps, RunnerKnown, PodProgress
  <2> QED BY <1>2, <1>3, <2>1
          DEF RunnerKnown, PodProgress, NativeProgress, Unstarted, InOrder, JobFirst
<1>14. ASSUME NEW i \in Index, BeginStep(i)
       PROVE  OrderParts'
  <2>1. /\ UNCHANGED <<job, jobSeen, pod, done, runner, todo>>
        /\ pc = "native" /\ pc' = "executing"
        /\ i \in todo /\ \A j \in todo : i <= j
        /\ started' = [started EXCEPT ![i] = Bump(started[i])]
    BY <1>14 DEF BeginStep, IsNext
  <2>2. i \notin Runners /\ \A j \in Index : j < i => j \in done
    BY <1>2, <1>3, <2>1 DEF NativeProgress
  <2>3. started \in [Index -> 0..MaxCount]
    BY DEF TypeOK
  <2>4. \A k \in Index : k # i => started'[k] = started[k]
    BY <2>1, <2>3
  <2>5. RunnerKnown' /\ PodProgress' /\ NativeProgress'
    BY <1>2, <1>3, <2>1 DEF RunnerKnown, PodProgress, NativeProgress
  <2>6. Unstarted' /\ InOrder' /\ JobFirst'
    BY <1>2, <1>3, <2>1, <2>2, <2>4 DEF Unstarted, InOrder, JobFirst, NativeProgress
  <2> QED BY <2>5, <2>6
<1>15. ASSUME NEW i \in Index, StepSucceeds(i)
       PROVE  OrderParts'
  <2>1. /\ UNCHANGED <<job, jobSeen, pod, started, runner>>
        /\ pc = "executing" /\ pc' = "native"
        /\ todo' = todo \ {i} /\ done' = done \union {i}
    BY <1>15 DEF StepSucceeds
  <2> QED BY <1>2, <1>3, <2>1
          DEF RunnerKnown, PodProgress, NativeProgress, Unstarted, InOrder, JobFirst
<1>16. CASE SyncJob
  <2>1. /\ UNCHANGED <<job, pod, started, done, pc, runner, todo>>
        /\ jobSeen' = "succeeded" => job = "succeeded"
    BY <1>16 DEF SyncJob
  <2> QED BY <1>2, <1>3, <2>1
          DEF RunnerKnown, PodProgress, NativeProgress, Unstarted, InOrder, JobFirst
<1>17. ASSUME NEW i \in Index, CanStart(i)
       PROVE  /\ job = "active" /\ i \in pod /\ i \in Runners
              /\ started[i] = 0
              /\ \A j \in Index : j < i => j \in done
  <2>1. job = "active" /\ i \in pod /\ \A j \in pod : i <= j
    BY <1>17 DEF CanStart, IsNext
  <2>2. i \in Runners /\ \A j \in Index : j < i => j \in Runners
    BY <1>3, <2>1 DEF PodProgress, Ordered, ValidateStepOrdering
  <2> QED BY <1>2, <1>3, <2>1, <2>2 DEF PodProgress, Unstarted
<1>18. ASSUME NEW i \in Index, RunContainer(i)
       PROVE  OrderParts'
  <2>1. /\ UNCHANGED <<job, jobSeen, pc, runner, todo>>
        /\ pod' = pod \ {i} /\ done' = done \union {i}
        /\ started' = [started EXCEPT ![i] = Bump(started[i])]
    BY <1>18 DEF RunContainer
  <2>2. /\ job = "active" /\ i \in Runners /\ started[i] = 0
        /\ \A j \in Index : j < i => j \in done
    BY <1>17, <1>18 DEF RunContainer
  <2>3. started'[i] = 1 /\ \A k \in Index : k # i => started'[k] = started[k]
    BY <2>1, <2>2, BumpFacts DEF TypeOK
  <2>4. RunnerKnown' /\ PodProgress' /\ NativeProgress'
    BY <1>2, <1>3, <2>1, <2>2 DEF RunnerKnown, PodProgress, NativeProgress
  <2>5. Unstarted' /\ InOrder' /\ JobFirst'
    BY <1>2, <1>3, <2>1, <2>2, <2>3 DEF Unstarted, InOrder, JobFirst
  <2> QED BY <2>4, <2>5
<1>19. CASE PodSucceeds
  <2>1. /\ UNCHANGED <<jobSeen, pod, started, done, pc, runner, todo>>
        /\ job = "active" /\ pod = {} /\ job' = "succeeded"
    BY <1>19 DEF PodSucceeds
  <2> QED BY <1>2, <1>3, <2>1
          DEF RunnerKnown, PodProgress, NativeProgress, Unstarted, InOrder, JobFirst
<1>20. CASE PodFails
  <2>1. /\ UNCHANGED <<jobSeen, done, pc, runner, todo>>
        /\ job = "active" /\ pod' = {} /\ job' = "failed"
    BY <1>20 DEF PodFails
  <2>2. RunnerKnown' /\ PodProgress' /\ NativeProgress'
    BY <1>2, <1>3, <2>1 DEF RunnerKnown, PodProgress, NativeProgress
  <2>3. CASE started' = started
    BY <1>2, <1>3, <2>1, <2>2, <2>3 DEF Unstarted, InOrder, JobFirst
  <2>4. ASSUME NEW i \in Index, CanStart(i), started' = [started EXCEPT ![i] = Bump(@)]
        PROVE  OrderParts'
    <3>1. i \in Runners /\ started[i] = 0 /\ \A j \in Index : j < i => j \in done
      BY <1>17, <2>4
    <3>2. started'[i] = 1 /\ \A k \in Index : k # i => started'[k] = started[k]
      BY <2>4, <3>1, BumpFacts DEF TypeOK
    <3>3. Unstarted' /\ InOrder' /\ JobFirst'
      BY <1>2, <1>3, <2>1, <3>1, <3>2 DEF Unstarted, InOrder, JobFirst
    <3> QED BY <2>2, <3>3
  <2> QED BY <1>20, <2>3, <2>4 DEF PodFails, TypeOK
<1>21. CASE Crash
  <2>1. /\ UNCHANGED <<job, pod, started, done>> /\ pc' = "idle"
        /\ jobSeen' = "succeeded" => job = "succeeded"
    BY <1>21 DEF Crash
  <2> QED BY <1>2, <1>3, <2>1
          DEF RunnerKnown, PodProgress, NativeProgress, Unstarted, InOrder, JobFirst
<1>22. ~ChangeDefinition
  BY <1>1 DEF ChangeDefinition, NoDrift, TypeOK
<1> QED
  BY <1>7, <1>8, <1>9, <1>10, <1>11, <1>12, <1>13, <1>14, <1>15, <1>16, <1>18, <1>19,
     <1>20, <1>21, <1>22
     DEF Next, Reconcile, RunPod

\* The stated properties follow.
LEMMA OrderInductive == Spec => []OrderInv
PROOF
<1>1. Init => OrderInv
  <2> SUFFICES ASSUME Init PROVE OrderParts
    BY DEF OrderInv
  <2>1. started = [i \in Index |-> 0] /\ pc = "idle" /\ pod = {} /\ job = "none"
        /\ jobSeen = "none" /\ Runners \subseteq Index
    BY DEF Init, Runners, RunnerSteps
  <2> QED BY <2>1 DEF OrderParts, RunnerKnown, PodProgress, NativeProgress, Unstarted,
                      InOrder, JobFirst
<1>2. OrderInv /\ UNCHANGED vars => OrderInv'
  <2> SUFFICES ASSUME OrderInv, UNCHANGED vars PROVE OrderInv'
    OBVIOUS
  <2>1. UNCHANGED <<spec, defs, job, jobSeen, pod, started, done, pc, runner, todo, defChanges>>
    BY DEF vars, objects, caches, local, history
  <2>2. Index' = Index /\ Runners' = Runners /\ Ordered' = Ordered /\ NoDrift' = NoDrift
    BY <2>1 DEF Index, Runners, RunnerSteps, Ordered, ValidateStepOrdering, Step, NoDrift
  <2>3. CASE NoDrift
    BY <2>1, <2>2, <2>3 DEF OrderInv, OrderParts, RunnerKnown, PodProgress, NativeProgress,
       Unstarted, InOrder, JobFirst
  <2> QED BY <2>2, <2>3 DEF OrderInv
<1>3. TypeOK /\ OrderInv /\ [Next]_vars => OrderInv'
  BY <1>2, OrderNext
<1> QED BY <1>1, <1>3, TypeCorrect, PTL DEF Spec

\* Steps run in their declared order: none is started before every earlier one
\* completed, through stale reads, lost answers, retries and crashes.
THEOREM Order == Spec => []DeclaredOrder
PROOF
<1>1. OrderInv => DeclaredOrder
  BY DEF OrderInv, OrderParts, InOrder, DeclaredOrder
<1> QED BY <1>1, OrderInductive, PTL

\* API-native steps start only after the Job succeeded.
THEOREM Phasing == Spec => []TwoPhases
PROOF
<1>1. OrderInv => TwoPhases
  BY DEF OrderInv, OrderParts, JobFirst, TwoPhases
<1> QED BY <1>1, OrderInductive, PTL

\* No runner container is started twice.
THEOREM ExactlyOneJob == Spec => []RunnerAtMostOnce
PROOF
<1>1. OrderInv => RunnerAtMostOnce
  BY DEF OrderInv, OrderParts, Unstarted, RunnerAtMostOnce
<1> QED BY <1>1, OrderInductive, PTL
=============================================================================
