------------------------ MODULE TaskRunOutcomeProofs ------------------------
(***************************************************************************)
(* Machine-checked proofs about TaskRunController: what an API-native step *)
(* gets from the steps before it, and where a failure is recorded, while   *)
(* nobody edits a definition.                                              *)
(***************************************************************************)
EXTENDS TaskRunRecordProofs

-----------------------------------------------------------------------------
(* Outputs and the templates that refer to them.                           *)

\* In phase 2 the steps behind the worker are the earlier ones.
Behind == pc \in InPhase2 => \A j \in Index \ todo, k \in todo : j < k

\* An output in the copy is the output of a step behind the worker.
OutputsKnown ==
    pc \in InPhase2 =>
        \A p \in Index : \/ copy.status.steps[p].outputs = FALSE
                         \/ \E j \in Index \ todo : Step(j).name = Step(p).name

\* An API-native step was started with its references done.
RefsDone ==
    \A i \in Index \ Runners : started[i] > 0 =>
        \A n \in Step(i).refs : \E j \in done : j < i /\ Step(j).name = n

TemplateParts == Behind /\ OutputsKnown /\ RefsDone
TemplateInv   == NoDrift => TemplateParts

\* Entries enter phase 2 without outputs.
LEMMA NoOutputsYet ==
    ASSUME IndInv, StatusInv, pc = "route"
    PROVE  /\ copy.status.steps \in StepStatuses
           /\ \A p \in Index : copy.status.steps[p].outputs = FALSE
PROOF
<1>1. copy.status.phase = "Running" /\ copy.status = Base
  BY DEF IndInv, CopyOpen, StatusInv, Based, Before
<1>2. /\ Base.steps \in StepStatuses /\ \A p \in Index : OpenEntry(Base.steps[p])
  BY <1>1, OpenBase
<1> QED BY <1>1, <1>2 DEF OpenEntry

\* A template that resolves names a step behind the worker.
LEMMA RefsKnown ==
    ASSUME OutputsKnown, pc \in InPhase2, NEW i, ResolveTemplates(i, copy.status.steps),
           NEW n \in Step(i).refs
    PROVE  \E j \in Index \ todo : Step(j).name = n
PROOF
<1>1. PICK p \in Index : Step(p).name = n /\ copy.status.steps[p].outputs
  BY Zenon DEF ResolveTemplates
<1>2. ~(copy.status.steps[p].outputs = FALSE)
  BY <1>1, Zenon
<1> QED BY <1>1, <1>2, Zenon DEF OutputsKnown

\* Every step preserves TemplateInv.
LEMMA TemplateNext ==
    ASSUME Ground, TemplateInv, Next
    PROVE  TemplateInv'
PROOF
<1> USE DEF objects, caches, local, history
<1> SUFFICES ASSUME NoDrift' PROVE TemplateParts'
  BY DEF TemplateInv
<1>1. /\ NoDrift /\ OrderParts /\ TypeOK /\ spec' = spec /\ Index' = Index
      /\ Runners' = Runners /\ Runners \subseteq Index /\ Index \subseteq Nat
      /\ done \subseteq done' /\ done' \subseteq Index
  BY Still
<1>2. /\ Behind /\ OutputsKnown /\ RefsDone /\ IndInv /\ StatusInv
      /\ \A i : Step(i)' = Step(i)
  BY <1>1 DEF TemplateInv, TemplateParts, Ground, Step
<1>3. started \in [Index -> 0..MaxCount] /\ todo \subseteq Index
  BY <1>1 DEF TypeOK
<1>4. ASSUME \A i \in Index \ Runners : started'[i] = started[i]
      PROVE  RefsDone'
  BY <1>1, <1>2, <1>4 DEF RefsDone
<1>5. ASSUME pc' \notin InPhase2
      PROVE  Behind' /\ OutputsKnown'
  BY <1>5 DEF Behind, OutputsKnown, InPhase2
<1>6. CASE UNCHANGED <<pc, copy, todo>> /\ RefsDone'
  BY <1>1, <1>2, <1>6 DEF TemplateParts, Behind, OutputsKnown, InPhase2
<1>7. CASE pc' \notin InPhase2 /\ UNCHANGED started
  BY <1>4, <1>5, <1>7 DEF TemplateParts
<1>8. CASE RouteNative
  <2>1. pc = "route" /\ todo' = Index /\ copy' = copy /\ UNCHANGED started
    BY <1>1, <1>8 DEF RouteNative, NativeSteps
  <2>2. \A p \in Index : copy.status.steps[p].outputs = FALSE
    BY <1>2, <2>1, NoOutputsYet
  <2>3. OutputsKnown'
    BY <1>1, <2>1, <2>2 DEF OutputsKnown
  <2>4. Behind'
    BY <1>1, <2>1 DEF Behind
  <2> QED BY <1>4, <2>1, <2>3, <2>4 DEF TemplateParts
<1>9. CASE JobSucceeded
  <2>1. PICK read, collected :
            copy' = [copy EXCEPT !.status.steps =
                        MarkStepsSucceeded(collectRunnerLogs(@, read), runner,
                                           collectRunnerOutputs(runner, collected))]
    BY <1>9 DEF JobSucceeded
  <2> DEFINE logged == collectRunnerLogs(copy.status.steps, read)
             outs   == collectRunnerOutputs(runner, collected)
             steps  == MarkStepsSucceeded(logged, runner, outs)
  <2>2. copy'.status.steps = steps
    BY <1>1, <2>1, StepsSet
  <2>3. /\ pc = "route" /\ todo' = Index \ runner /\ UNCHANGED started
        /\ runner = Runners /\ Ordered
    BY <1>1, <1>9 DEF JobSucceeded, AtJob, NativeSteps, OrderParts, RunnerKnown
  <2>4. logged \in StepStatuses /\ \A p \in Index : logged[p].outputs = FALSE
    BY <1>2, <2>3, NoOutputsYet, MarksType, MarksOutputs
  <2> HIDE DEF logged
  <2>5. \A p \in Index : outs[p] = FALSE \/ \E i \in runner : Step(i).name = Step(p).name
    BY Zenon DEF collectRunnerOutputs
  <2> HIDE DEF outs
  <2>6. \A p \in Index : steps[p].outputs \in {outs[p], logged[p].outputs}
    BY <2>4, MarksOutputs
  <2> HIDE DEF steps
  <2>7. \A p \in Index : \/ steps[p].outputs = FALSE
                         \/ \E i \in runner : Step(i).name = Step(p).name
    BY <2>4, <2>5, <2>6, Zenon
  <2>8. runner \subseteq Index' \ todo'
    BY <1>1, <2>3
  <2>9. OutputsKnown'
    BY <1>1, <1>2, <2>2, <2>7, <2>8, Zenon DEF OutputsKnown
  <2>10. Behind'
    BY <1>1, <2>3 DEF Behind, Ordered, ValidateStepOrdering
  <2> QED BY <1>4, <2>3, <2>9, <2>10 DEF TemplateParts
<1>10. ASSUME NEW i \in Index, BeginStep(i)
       PROVE  TemplateParts'
  <2> DEFINE steps == MarkStepsRunning(copy.status.steps, {i})
  <2>1. /\ pc = "native" /\ pc' = "executing" /\ todo' = todo /\ i \in todo
        /\ ResolveTemplates(i, copy.status.steps)
        /\ started' = [started EXCEPT ![i] = Bump(@)]
    BY <1>10 DEF BeginStep, IsNext
  <2>2. copy' = [copy EXCEPT !.status.steps = steps]
    BY <1>10 DEF BeginStep
  <2>3. copy'.status.steps = steps
    BY <1>1, <2>2, StepsSet
  <2>4. copy.status.steps \in StepStatuses
    BY <1>2, <2>1, CopyFacts DEF IndInv, CopyOpen
  <2>5. \A p \in Index : steps[p].outputs = FALSE \/ steps[p] = copy.status.steps[p]
    BY <2>4, RunningNoOutputs
  <2> HIDE DEF steps
  <2>6. \A p \in Index : \/ copy.status.steps[p].outputs = FALSE
                         \/ \E j \in Index \ todo : Step(j).name = Step(p).name
    BY <1>2, <2>1 DEF OutputsKnown, InPhase2
  <2>7. OutputsKnown'
    BY <1>1, <1>2, <2>1, <2>3, <2>5, <2>6, Zenon DEF OutputsKnown
  <2>8. Behind'
    BY <1>1, <1>2, <2>1 DEF Behind, InPhase2
  <2>9. \A n \in Step(i).refs : \E j \in Index \ todo : Step(j).name = n
    BY <1>2, <2>1, RefsKnown DEF InPhase2
  <2>10. \A j \in Index \ todo : j \in done' /\ j < i
    BY <1>1, <1>2, <2>1 DEF Behind, InPhase2, OrderParts, NativeProgress
  <2>11. \A n \in Step(i).refs : \E j \in done' : j < i /\ Step(j).name = n
    BY <2>9, <2>10
  <2>12. \A k \in Index \ Runners : k # i => started'[k] = started[k]
    BY <1>3, <2>1
  <2>13. RefsDone'
    BY <1>1, <1>2, <2>11, <2>12 DEF RefsDone
  <2> QED BY <2>7, <2>8, <2>13 DEF TemplateParts
<1>11. ASSUME NEW i \in Index, StepSucceeds(i)
       PROVE  TemplateParts'
  <2> DEFINE outputs == [p \in Index |-> Step(i).action \in Producing]
             steps   == MarkStepsSucceeded(copy.status.steps, {i}, outputs)
  <2>1. /\ pc = "executing" /\ UNCHANGED started /\ todo' = todo \ {i}
        /\ i \in todo /\ \A j \in todo : i <= j
    BY <1>11 DEF StepSucceeds, IsNext
  <2>2. copy' = [copy EXCEPT !.status.steps = steps]
    BY <1>11 DEF StepSucceeds
  <2>3. copy'.status.steps = steps
    BY <1>1, <2>2, StepsSet
  <2>4. copy.status.steps \in StepStatuses
    BY <1>2, <2>1, CopyFacts DEF IndInv, CopyOpen
  <2> HIDE DEF outputs
  <2>5. \A p \in Index : Hit(p, {i}) \/ steps[p] = copy.status.steps[p]
    BY <2>4, SucceededPhase
  <2> HIDE DEF steps
  <2>6. \A p \in Index : Step(i).name = Step(p).name \/ steps[p] = copy.status.steps[p]
    BY <2>5 DEF Hit, IsEntryOf
  <2>7. \A p \in Index : \/ copy.status.steps[p].outputs = FALSE
                         \/ \E j \in Index \ todo : Step(j).name = Step(p).name
    BY <1>2, <2>1 DEF OutputsKnown, InPhase2
  <2>8. i \in Index \ todo' /\ \A j \in Index \ todo : j \in Index \ todo'
    BY <2>1
  <2>9. OutputsKnown'
    BY <1>1, <1>2, <2>3, <2>6, <2>7, <2>8, Zenon DEF OutputsKnown
  <2>10. Behind'
    BY <1>1, <1>2, <1>3, <2>1 DEF Behind, InPhase2
  <2> QED BY <1>4, <2>1, <2>9, <2>10 DEF TemplateParts
<1>12. CASE PodFails \/ \E i \in Index : RunContainer(i)
  <2>1. pod \subseteq Runners
    BY <1>1 DEF OrderParts, PodProgress
  <2>2. \A i \in Index \ Runners : started'[i] = started[i]
    BY <1>3, <1>12, <2>1 DEF PodFails, RunContainer, CanStart, IsNext
  <2> QED BY <1>4, <1>6, <1>12, <2>2 DEF PodFails, RunContainer
<1>13. CASE \/ SkipTerminal \/ SyncTaskRun \/ SyncJob \/ SyncCronJob \/ SyncConfigMap
            \/ PodSucceeds \/ ChangeDefinition
  BY <1>4, <1>6, <1>13 DEF SkipTerminal, SyncTaskRun, SyncJob, SyncCronJob, SyncConfigMap,
     PodSucceeds, ChangeDefinition
<1>14. CASE \/ Fetch \/ RejectResolution \/ RejectParams \/ RejectOrdering
            \/ Start \/ Resume \/ reconcileCronJob \/ JobNotFound
            \/ JobLookupError \/ ensureParamsConfigMap \/ CreateJob \/ MarkRunnersRunning
            \/ JobActive \/ JobFailed \/ MarkSucceeded \/ MarkFailed \/ Crash
            \/ \E i \in Index : TemplateError(i) \/ StepErrs(i)
  BY <1>7, <1>14 DEF Fetch, RejectResolution, RejectParams, RejectOrdering, Start, Resume,
     reconcileCronJob, JobNotFound, JobLookupError, ensureParamsConfigMap, CreateJob,
     MarkRunnersRunning, JobActive, JobFailed, MarkSucceeded, MarkFailed, SetTerminal, Crash,
     TemplateError, StepErrs, Return, Fail, InPhase2
<1> QED BY <1>8, <1>9, <1>10, <1>11, <1>12, <1>13, <1>14 DEF Next, Reconcile, RunPod

\* The invariant holds throughout.
LEMMA TemplateInductive == Spec => []TemplateInv
PROOF
<1>1. Init => TemplateInv
  BY DEF Init, TemplateInv, TemplateParts, Behind, OutputsKnown, RefsDone, InPhase2, Index
<1>2. Ground /\ TemplateInv /\ [Next]_vars => TemplateInv'
  <2>1. TemplateInv /\ UNCHANGED vars => TemplateInv'
    BY DEF TemplateInv, TemplateParts, Behind, OutputsKnown, RefsDone, InPhase2, NoDrift,
       Runners, RunnerSteps, Index, Step, vars, objects, local, history
  <2> QED BY <2>1, TemplateNext
<1> QED BY <1>1, <1>2, GroundInductive, PTL DEF Spec

\* An API-native step starts only with every template reference resolved to the
\* output of a step that completed before it: the outputs ResolveTemplates finds
\* in the reconcile's own copy were put there by this reconcile.
THEOREM Templates == Spec => []TemplatesResolved
PROOF
<1>1. TemplateInv => TemplatesResolved
  BY DEF TemplateInv, TemplateParts, RefsDone, TemplatesResolved
<1> QED BY <1>1, TemplateInductive, PTL

-----------------------------------------------------------------------------
(* Where a failure is recorded.                                            *)

\* What a status says of the API-native steps, and where it puts a failure.
NativePending(st) ==
    st.phase = "Running" => \A p \in Index \ Runners : st.steps[p].phase = "Pending"

StepLocated(st) ==
    st.reason = "StepFailed" =>
        \E i \in Index \ Runners :
            /\ st.steps[i].phase = "Failed"
            /\ \A p \in Index : /\ p < i => st.steps[p].phase = "Succeeded"
                                /\ p > i => st.steps[p].phase = "Pending"

RunnerLocated(st) ==
    st.reason = "RunnerFailed" =>
        \A p \in Index : st.steps[p].phase = IF p \in Runners THEN "Failed" ELSE "Pending"

\* While the TaskRun is Running its API-native entries are stored as Pending:
\* phase 2 happens within one reconcile.
Located(st) == NativePending(st) /\ StepLocated(st) /\ RunnerLocated(st)

StoredLocated == \A n \in 1..Len(trLog) : Located(trLog[n])

\* Between two API-native steps, and in the middle of one, the copy tells the
\* steps behind the worker from the ones ahead.
BetweenSteps ==
    pc = "native" => \A p \in Index :
        copy.status.steps[p].phase = IF p \in todo THEN "Pending" ELSE "Succeeded"

InStep ==
    pc = "executing" => \A i \in todo : IsNext(i, todo) =>
        \A p \in Index : /\ p < i => copy.status.steps[p].phase = "Succeeded"
                         /\ p > i => copy.status.steps[p].phase = "Pending"

\* A failure about to be stored is at its place.
FailurePlaced == pc = "failing" => StepLocated(copy.status) /\ RunnerLocated(copy.status)

LocateParts == StoredLocated /\ BetweenSteps /\ InStep /\ FailurePlaced
LocateInv   == NoDrift /\ UniqueNames => LocateParts

\* With unique names a step's entry is its own.
LEMMA OwnEntry ==
    ASSUME TypeOK, UniqueNames, NEW S \in SUBSET Index, NEW p \in Index
    PROVE  Hit(p, S) <=> p \in S
PROOF
<1>1. \A q \in 1..(p - 1) : q \in Index /\ q # p
  BY IndexType DEF Index
<1>2. IsEntryOf(p, p)
  BY <1>1 DEF IsEntryOf, UniqueNames
<1>3. \A i \in S : IsEntryOf(p, i) => p = i
  BY DEF IsEntryOf, UniqueNames
<1> QED BY <1>2, <1>3 DEF Hit

\* A version that places its failures may be stored.
LEMMA StoreLocated ==
    ASSUME Ground, Next, NoDrift', StoredLocated,
           NEW new \in StatusType, HasSteps(new), trLog' = trLog \/ Store(new), Located(new)
    PROVE  StoredLocated'
PROOF
<1>1. spec' = spec /\ Index' = Index /\ Runners' = Runners
  BY Still
<1>2. \A st : Located(st)' = Located(st)
  BY <1>1 DEF Located, NativePending, StepLocated, RunnerLocated
<1>3. /\ Len(trLog') \in {Len(trLog), Len(trLog) + 1} /\ Len(trLog) \in Nat
      /\ \A n \in 1..Len(trLog) : trLog'[n] = trLog[n]
      /\ trLog' = trLog \/ trLog'[Len(trLog')] = new
  BY <1>1, StoreKeeps DEF Ground, IndInv, TypeOK
<1> QED BY <1>2, <1>3 DEF StoredLocated

\* The API-native entries of a reconcile that has not reached phase 2.
LEMMA NativeUntouched ==
    ASSUME IndInv, StatusInv, StoredLocated, pc \in {"route", "mark"}
    PROVE  /\ copy.status.steps \in StepStatuses /\ copy.status = Base
           /\ \A p \in Index \ Runners : copy.status.steps[p].phase = "Pending"
PROOF
<1>1. copy.status.phase = "Running" /\ copy.status = Base /\ copy.rv \in 1..Len(trLog)
  BY CopyFacts DEF IndInv, CopyOpen, StatusInv, Based, Before
<1>2. copy.status.steps \in StepStatuses
  BY <1>1, CopyFacts
<1>3. NativePending(Base)
  BY <1>1 DEF StoredLocated, Located, Base
<1> QED BY <1>1, <1>2, <1>3 DEF NativePending

\* Every step preserves LocateInv.
LEMMA LocateNext ==
    ASSUME Ground, TemplateInv, LocateInv, Next
    PROVE  LocateInv'
PROOF
<1> USE DEF objects, caches, local, history
<1> SUFFICES ASSUME NoDrift', UniqueNames' PROVE LocateParts'
  BY DEF LocateInv
<1>1. /\ NoDrift /\ OrderParts /\ TypeOK /\ spec' = spec /\ Index' = Index
      /\ Runners' = Runners /\ Runners \subseteq Index /\ Index \subseteq Nat
      /\ UniqueNames
  BY Still
<1>2. /\ Behind /\ IndInv /\ StatusInv
      /\ StoredLocated /\ BetweenSteps /\ InStep /\ FailurePlaced
      /\ todo \subseteq Index
  BY <1>1 DEF TemplateInv, TemplateParts, Ground, LocateInv, LocateParts, TypeOK
<1>3. /\ \A st : Located(st)' = Located(st)
      /\ \A st : StepLocated(st)' = StepLocated(st)
      /\ \A st : RunnerLocated(st)' = RunnerLocated(st)
  BY <1>1 DEF Located, NativePending, StepLocated, RunnerLocated
<1>4. trLog' = trLog => StoredLocated'
  BY <1>2, <1>3 DEF StoredLocated
<1>5. ASSUME pc' \notin {"native", "executing", "failing"}, StoredLocated'
      PROVE  LocateParts'
  BY <1>5 DEF LocateParts, BetweenSteps, InStep, FailurePlaced
<1>6. CASE UNCHANGED <<trLog, pc, copy, todo>>
  BY <1>1, <1>2, <1>3, <1>4, <1>6 DEF LocateParts, BetweenSteps, InStep, FailurePlaced, IsNext
<1>7. CASE trLog' = trLog /\ pc' \notin {"native", "executing", "failing"}
  BY <1>4, <1>5, <1>7
<1>8. ASSUME trLog' = trLog, pc' = "failing", StepLocated(copy'.status), RunnerLocated(copy'.status)
      PROVE  LocateParts'
  <2>1. FailurePlaced'
    BY <1>1, <1>8 DEF FailurePlaced, StepLocated, RunnerLocated
  <2> QED BY <1>4, <1>8, <2>1 DEF LocateParts, BetweenSteps, InStep
<1>9. ASSUME trLog' = trLog, NEW reason, Fail(copy.status.steps, reason),
             reason \notin {"StepFailed", "RunnerFailed"}
      PROVE  LocateParts'
  <2>1. pc' = "failing" /\ copy'.status.reason = reason
    BY <1>1, <1>9, FailSets
  <2> QED BY <1>8, <1>9, <2>1 DEF StepLocated, RunnerLocated
<1>10. CASE Start
  <2>1. PICK new : new = [copy.status EXCEPT !.phase = "Running", !.steps = InitStepStatuses]
    OBVIOUS
  <2>2. /\ new \in StatusType /\ HasSteps(new) /\ new.reason = ""
        /\ new.steps = InitStepStatuses
    BY <1>2, <1>10, <2>1, StartStatus DEF Start
  <2>3. (trLog' = trLog \/ Store(new)) /\ pc' \in {"route", "idle"}
    BY <1>10, <2>1 DEF Start, UpdateOk, UpdateError, Return
  <2>4. Located(new)
    <3>1. new.steps = InitStepStatuses
      BY <2>2
    <3>2. \A p \in Index : InitStepStatuses[p].phase = "Pending"
      BY DEF InitStepStatuses, PlainStatus
    <3> QED BY <1>1, <2>2, <3>1, <3>2 DEF Located, NativePending, StepLocated, RunnerLocated
  <2>5. StoredLocated'
    BY <1>2, <2>2, <2>3, <2>4, StoreLocated
  <2> QED BY <1>5, <2>3, <2>5
<1>11. CASE MarkRunnersRunning
  <2>1. PICK new : new = [copy.status EXCEPT !.steps = MarkStepsRunning(@, runner)]
    OBVIOUS
  <2>2. /\ new \in StatusType /\ HasSteps(new) /\ new.reason = ""
        /\ new.steps = MarkStepsRunning(Base.steps, runner) /\ Base.steps \in StepStatuses
    BY <1>2, <1>11, <2>1, RunningStatus DEF MarkRunnersRunning
  <2>3. /\ trLog' = trLog \/ Store(new)
        /\ pc = "mark" /\ pc' = "idle" /\ runner = Runners
    BY <1>1, <1>11, <2>1 DEF MarkRunnersRunning, UpdateOk, UpdateError, Return, OrderParts,
       RunnerKnown
  <2>4. \A p \in Index \ Runners : Base.steps[p].phase = "Pending"
    BY <1>2, <2>3, NativeUntouched
  <2>5. \A p \in Index \ Runners : new.steps[p].phase = "Pending"
    <3>1. \A p \in Index \ Runners : ~Hit(p, Runners)
      BY <1>1, OwnEntry
    <3>2. Base.steps \in StepStatuses
      BY <2>2
    <3>3. \A p \in Index \ Runners : MarkStepsRunning(Base.steps, Runners)[p] = Base.steps[p]
      BY <3>1, <3>2, MarksPhase
    <3>4. new.steps = MarkStepsRunning(Base.steps, Runners)
      BY <2>2, <2>3
    <3> QED BY <2>4, <3>3, <3>4
  <2>6. Located(new)
    BY <2>2, <2>5 DEF Located, NativePending, StepLocated, RunnerLocated
  <2>7. StoredLocated'
    BY <1>2, <2>2, <2>3, <2>6, StoreLocated
  <2> QED BY <1>5, <2>3, <2>7
<1>12. CASE MarkSucceeded \/ MarkFailed
  <2>1. PICK new \in {[copy.status EXCEPT !.phase = "Succeeded", !.reason = "AllStepsSucceeded"],
                      [copy.status EXCEPT !.phase = "Failed"]} :
            /\ trLog' = trLog \/ Store(new)
            /\ pc' = "idle" /\ pc # "idle"
            /\ new = [copy.status EXCEPT !.phase = "Failed"] => pc = "failing"
    <3>1. "Failed" # "Succeeded"
      OBVIOUS
    <3>2. CASE MarkSucceeded
      <4>1. [copy.status EXCEPT !.phase = "Succeeded", !.reason = "AllStepsSucceeded"]
               # [copy.status EXCEPT !.phase = "Failed"]
        <5>1. pc = "native" /\ copy.status \in StatusType
          BY <1>2, <3>2, CopyFacts DEF MarkSucceeded
        <5> QED BY <5>1 DEF StatusType
      <4> QED BY <3>2, <4>1 DEF MarkSucceeded, SetTerminal, UpdateOk, UpdateError, Return
    <3>3. CASE MarkFailed
      BY <3>3 DEF MarkFailed, SetTerminal, UpdateOk, UpdateError, Return
    <3> QED BY <1>12, <3>2, <3>3
  <2>2. /\ new \in StatusType /\ new.phase \in Terminal /\ new.steps = copy.status.steps
        /\ \/ new.reason = "AllStepsSucceeded"
           \/ new.reason = copy.status.reason /\ pc = "failing"
    BY <1>2, <2>1, CopyFacts DEF StatusType, Phases, Reasons, Terminal
  <2>3. HasSteps(new)
    BY <2>2 DEF HasSteps, Terminal
  <2>4. trLog' = trLog \/ Store(new)
    BY <2>1
  <2>5. Located(new)
    BY <1>2, <2>2 DEF Located, NativePending, StepLocated, RunnerLocated, FailurePlaced, Terminal
  <2>6. StoredLocated'
    BY <1>2, <2>2, <2>3, <2>4, <2>5, StoreLocated
  <2> QED BY <1>5, <2>1, <2>6
<1>13. CASE RouteNative
  <2>1. /\ pc = "route" /\ pc' = "native" /\ todo' = Index /\ copy' = copy /\ trLog' = trLog
        /\ Runners = {}
    BY <1>1, <1>13 DEF RouteNative, NativeSteps, OrderParts, RunnerKnown
  <2>2. \A p \in Index : copy.status.steps[p].phase = "Pending"
    BY <1>2, <2>1, NativeUntouched
  <2>3. BetweenSteps'
    BY <1>1, <2>1, <2>2 DEF BetweenSteps
  <2> QED BY <1>4, <2>1, <2>3 DEF LocateParts, InStep, FailurePlaced
<1>14. CASE JobSucceeded
  <2>1. PICK read, collected :
            copy' = [copy EXCEPT !.status.steps =
                        MarkStepsSucceeded(collectRunnerLogs(@, read), runner,
                                           collectRunnerOutputs(runner, collected))]
    BY <1>14 DEF JobSucceeded
  <2> DEFINE logged == collectRunnerLogs(copy.status.steps, read)
             outs   == collectRunnerOutputs(runner, collected)
             steps  == MarkStepsSucceeded(logged, runner, outs)
  <2>2. copy'.status.steps = steps
    BY <1>1, <2>1, StepsSet
  <2>3. /\ pc = "route" /\ pc' = "native" /\ todo' = Index \ Runners /\ trLog' = trLog
        /\ runner = Runners
    BY <1>1, <1>14 DEF JobSucceeded, AtJob, NativeSteps, OrderParts, RunnerKnown
  <2>4. /\ copy.status.steps \in StepStatuses
        /\ \A p \in Index \ Runners : copy.status.steps[p].phase = "Pending"
    BY <1>2, <2>3, NativeUntouched
  <2>5. logged \in StepStatuses /\ \A p \in Index : logged[p].phase = copy.status.steps[p].phase
    BY <2>4, MarksType, MarksPhase
  <2> HIDE DEF logged, outs
  <2>6. \A p \in Index : IF p \in Runners THEN steps[p].phase = "Succeeded"
                                          ELSE steps[p] = logged[p]
    BY <1>1, <2>3, <2>5, OwnEntry, SucceededPhase
  <2> HIDE DEF steps
  <2>7. BetweenSteps'
    BY <1>1, <2>2, <2>3, <2>4, <2>5, <2>6 DEF BetweenSteps
  <2> QED BY <1>4, <2>3, <2>7 DEF LocateParts, InStep, FailurePlaced
<1>15. CASE JobFailed
  <2>1. PICK read \in LogReads :
            Fail(MarkStepsFailed(collectRunnerLogs(copy.status.steps, read), runner), "RunnerFailed")
    BY <1>15 DEF JobFailed
  <2> DEFINE logged == collectRunnerLogs(copy.status.steps, read)
             steps  == MarkStepsFailed(logged, runner)
  <2>2. pc = "route" /\ trLog' = trLog /\ runner = Runners
    BY <1>1, <1>15 DEF JobFailed, AtJob, OrderParts, RunnerKnown
  <2>3. /\ pc' = "failing" /\ copy'.status.steps = steps
        /\ copy'.status.reason = "RunnerFailed"
    BY <1>1, <2>1, FailSets
  <2>4. /\ copy.status.steps \in StepStatuses
        /\ \A p \in Index \ Runners : copy.status.steps[p].phase = "Pending"
    BY <1>2, <2>2, NativeUntouched
  <2>5. logged \in StepStatuses /\ \A p \in Index : logged[p].phase = copy.status.steps[p].phase
    BY <2>4, MarksType, MarksPhase
  <2> HIDE DEF logged
  <2>6. \A p \in Index : IF p \in Runners THEN steps[p].phase = "Failed"
                                          ELSE steps[p] = logged[p]
    BY <1>1, <2>2, <2>5, OwnEntry, MarksPhase
  <2> HIDE DEF steps
  <2>7. StepLocated(copy'.status) /\ RunnerLocated(copy'.status)
    BY <1>1, <2>3, <2>4, <2>5, <2>6 DEF StepLocated, RunnerLocated
  <2> QED BY <1>8, <2>2, <2>3, <2>7
<1>16. ASSUME NEW i \in Index, BeginStep(i)
       PROVE  LocateParts'
  <2> DEFINE steps == MarkStepsRunning(copy.status.steps, {i})
  <2>1. /\ pc = "native" /\ pc' = "executing" /\ todo' = todo /\ trLog' = trLog
        /\ i \in todo /\ \A j \in todo : i <= j
    BY <1>16 DEF BeginStep, IsNext
  <2>2. copy' = [copy EXCEPT !.status.steps = steps]
    BY <1>16 DEF BeginStep
  <2>3. copy'.status.steps = steps
    BY <1>1, <2>2, StepsSet
  <2>4. copy.status.steps \in StepStatuses
    BY <1>2, <2>1, CopyFacts DEF IndInv, CopyOpen
  <2>5. \A p \in Index : p # i => steps[p] = copy.status.steps[p]
    BY <1>1, <2>4, OwnEntry, MarksPhase
  <2> HIDE DEF steps
  <2>6. \A p \in Index : /\ p < i => p \notin todo
                         /\ p > i => p \in todo
    BY <1>1, <1>2, <2>1 DEF Behind, InPhase2
  <2>7. \A p \in Index : /\ p < i => steps[p].phase = "Succeeded"
                         /\ p > i => steps[p].phase = "Pending"
    BY <1>1, <1>2, <2>1, <2>5, <2>6 DEF BetweenSteps
  <2>8. \A j \in todo : IsNext(j, todo) => j = i
    BY <1>1, <1>2, <2>1 DEF IsNext
  <2>9. InStep'
    BY <1>1, <2>1, <2>3, <2>7, <2>8 DEF InStep, IsNext
  <2> QED BY <1>4, <2>1, <2>9 DEF LocateParts, BetweenSteps, FailurePlaced
<1>17. ASSUME NEW i \in Index, StepSucceeds(i)
       PROVE  LocateParts'
  <2> DEFINE outputs == [p \in Index |-> Step(i).action \in Producing]
             steps   == MarkStepsSucceeded(copy.status.steps, {i}, outputs)
  <2>1. /\ pc = "executing" /\ pc' = "native" /\ todo' = todo \ {i} /\ trLog' = trLog
        /\ i \in todo /\ \A j \in todo : i <= j
    BY <1>17 DEF StepSucceeds, IsNext
  <2>2. copy' = [copy EXCEPT !.status.steps = steps]
    BY <1>17 DEF StepSucceeds
  <2>3. copy'.status.steps = steps
    BY <1>1, <2>2, StepsSet
  <2>4. copy.status.steps \in StepStatuses
    BY <1>2, <2>1, CopyFacts DEF IndInv, CopyOpen
  <2> HIDE DEF outputs
  <2>5. /\ steps[i].phase = "Succeeded"
        /\ \A p \in Index : p # i => steps[p] = copy.status.steps[p]
    BY <1>1, <2>4, OwnEntry, SucceededPhase
  <2> HIDE DEF steps
  <2>6. \A p \in Index : /\ p < i => copy.status.steps[p].phase = "Succeeded"
                         /\ p > i => copy.status.steps[p].phase = "Pending"
    BY <1>2, <2>1 DEF InStep, IsNext
  <2>7. \A p \in Index : /\ p \notin todo => p < i
                         /\ p \in todo \ {i} => p > i
    BY <1>1, <1>2, <2>1 DEF Behind, InPhase2
  <2>8. BetweenSteps'
    BY <1>1, <2>1, <2>3, <2>5, <2>6, <2>7 DEF BetweenSteps
  <2> QED BY <1>4, <2>1, <2>8 DEF LocateParts, InStep, FailurePlaced
<1>18. ASSUME NEW i \in Index, TemplateError(i) \/ StepErrs(i)
       PROVE  LocateParts'
  <2> DEFINE steps == MarkStepsFailed(copy.status.steps, {i})
  <2>1. /\ pc \in {"native", "executing"} /\ trLog' = trLog
        /\ i \in todo /\ \A j \in todo : i <= j
    BY <1>18 DEF TemplateError, StepErrs, IsNext
  <2>2. Fail(steps, "StepFailed")
    BY <1>18 DEF TemplateError, StepErrs
  <2>3. /\ pc' = "failing" /\ copy'.status.steps = steps
        /\ copy'.status.reason = "StepFailed"
    BY <1>1, <2>2, FailSets
  <2>4. copy.status.steps \in StepStatuses
    BY <1>2, <2>1, CopyFacts DEF IndInv, CopyOpen
  <2>5. /\ steps[i].phase = "Failed"
        /\ \A p \in Index : p # i => steps[p] = copy.status.steps[p]
    <3>1. \A p \in Index : Hit(p, {i}) <=> p \in {i}
      BY <1>1, OwnEntry
    <3>2. \A p \in Index : IF Hit(p, {i}) THEN steps[p].phase = "Failed"
                                         ELSE steps[p] = copy.status.steps[p]
      BY <2>4, MarksPhase
    <3> HIDE DEF steps
    <3> QED BY <3>1, <3>2
  <2> HIDE DEF steps
  <2>6. \A p \in Index : /\ p < i => p \notin todo
                         /\ p > i => p \in todo
    BY <1>1, <1>2, <2>1 DEF Behind, InPhase2
  <2>7. \A p \in Index : /\ p < i => copy.status.steps[p].phase = "Succeeded"
                         /\ p > i => copy.status.steps[p].phase = "Pending"
    BY <1>2, <2>1, <2>6 DEF BetweenSteps, InStep, IsNext
  <2>8. i \in Index \ Runners
    BY <1>1, <2>1 DEF OrderParts, NativeProgress
  <2>9. StepLocated(copy'.status) /\ RunnerLocated(copy'.status)
    BY <1>1, <2>3, <2>5, <2>7, <2>8 DEF StepLocated, RunnerLocated
  <2> QED BY <1>8, <2>1, <2>3, <2>9
<1>19. CASE \/ SkipTerminal \/ SyncTaskRun \/ SyncJob \/ SyncCronJob \/ SyncConfigMap
            \/ PodSucceeds \/ PodFails \/ ChangeDefinition \/ \E i \in Index : RunContainer(i)
  BY <1>6, <1>19 DEF SkipTerminal, SyncTaskRun, SyncJob, SyncCronJob, SyncConfigMap,
     PodSucceeds, PodFails, ChangeDefinition, RunContainer
<1>20. CASE \/ Fetch \/ Resume \/ reconcileCronJob \/ JobNotFound \/ JobLookupError
            \/ CreateJob \/ JobActive \/ Crash
  BY <1>7, <1>20 DEF Fetch, Resume, reconcileCronJob, JobNotFound, JobLookupError, CreateJob,
     JobActive, Crash, Return
<1>21. CASE RejectResolution \/ RejectParams \/ RejectOrdering
  BY <1>9, <1>21 DEF RejectResolution, RejectParams, RejectOrdering
<1>22. CASE ensureParamsConfigMap
  BY <1>7, <1>9, <1>22 DEF ensureParamsConfigMap
<1> QED
  BY <1>10, <1>11, <1>12, <1>13, <1>14, <1>15, <1>16, <1>17, <1>18, <1>19, <1>20, <1>21, <1>22
     DEF Next, Reconcile, RunPod

\* A failure is recorded where it happened: the status names the API-native step
\* that failed, or all the runner steps of a failed Job, and no other.
THEOREM Location == Spec => []FailureLocated
PROOF
<1>1. Init => LocateInv
  <2> SUFFICES ASSUME Init PROVE LocateParts
    BY DEF LocateInv
  <2>1. /\ trLog = <<NewStatus>> /\ NewStatus.phase = "" /\ NewStatus.reason = ""
        /\ pc = "idle"
    BY DEF Init, NewStatus
  <2>2. \A n \in 1..Len(trLog) : trLog[n] = NewStatus
    <3>1. \A x : \A n \in 1..Len(<<x>>) : <<x>>[n] = x
      OBVIOUS
    <3> QED BY <2>1, <3>1, Zenon
  <2> QED BY <2>1, <2>2 DEF LocateParts, StoredLocated, Located, NativePending, StepLocated,
             RunnerLocated, BetweenSteps, InStep, FailurePlaced
<1>2. Ground /\ TemplateInv /\ LocateInv /\ [Next]_vars => LocateInv'
  <2>1. LocateInv /\ UNCHANGED vars => LocateInv'
    BY DEF LocateInv, LocateParts, StoredLocated, Located, NativePending, StepLocated,
       RunnerLocated, BetweenSteps, InStep, FailurePlaced, NoDrift, UniqueNames, IsNext,
       Runners, RunnerSteps, Index, Step, vars, objects, local
  <2> QED BY <2>1, LocateNext
<1>3. Ground /\ LocateInv => FailureLocated
  <2> SUFFICES ASSUME Ground, LocateInv, NoDrift, UniqueNames
               PROVE  StepLocated(Stored) /\ RunnerLocated(Stored)
    BY DEF FailureLocated, StepLocated, RunnerLocated
  <2>1. StoredLocated /\ Len(trLog) \in 1..Len(trLog)
    BY DEF LocateInv, LocateParts, Ground, IndInv, TypeOK
  <2> QED BY <2>1 DEF StoredLocated, Located, Stored
<1> QED BY <1>1, <1>2, <1>3, GroundInductive, TemplateInductive, PTL DEF Spec
=============================================================================
