------------------------- MODULE TaskRunStatusProofs -------------------------
(***************************************************************************)
(* Machine-checked proofs about what TaskRunController stores: that the    *)
(* stored status follows the lifecycle, and that it says what happened.    *)
(***************************************************************************)
EXTENDS TaskRunControllerProofs, WellFoundedInduction

-----------------------------------------------------------------------------
(* Entries are found by name.                                              *)

\* A set of natural numbers has a least member.
LEMMA LeastNat ==
    ASSUME NEW T \in SUBSET Nat, T # {}
    PROVE  \E x \in T : \A y \in T : x <= y
PROOF
<1>1. PICK x \in T : \A y \in T : ~(<<y, x>> \in OpToRel(<, Nat))
  BY NatLessThanWellFounded, WFMin, Zenon
<1>2. \A y \in T : ~(y < x)
  BY <1>1 DEF OpToRel
<1> QED BY <1>2

\* The entry of a step is not after the step, and is its own entry.
LEMMA EntryFacts ==
    ASSUME TypeOK, NEW p \in Index, NEW i \in Index, IsEntryOf(p, i)
    PROVE  p <= i /\ IsEntryOf(p, p)
PROOF
<1>1. Index = 1..Len(spec.steps) /\ Len(spec.steps) \in Nat
  BY IndexType DEF Index
<1>2. p <= i
  BY <1>1 DEF IsEntryOf
<1> QED BY <1>2 DEF IsEntryOf

\* Every step has an entry.
LEMMA EntryExists ==
    ASSUME TypeOK, NEW i \in Index
    PROVE  \E p \in Index : IsEntryOf(p, i)
PROOF
<1> DEFINE T == {q \in Index : Step(q).name = Step(i).name}
<1>1. Index = 1..Len(spec.steps) /\ Len(spec.steps) \in Nat
  BY IndexType DEF Index
<1>2. PICK p \in T : \A q \in T : p <= q
  <2>1. T \in SUBSET Nat /\ i \in T
    BY <1>1
  <2> QED BY <2>1, LeastNat
<1>3. p \in Index /\ Step(p).name = Step(i).name
  OBVIOUS
<1>4. \A q \in 1..(p - 1) : Step(q).name # Step(i).name
  <2> SUFFICES ASSUME NEW q \in 1..(p - 1), Step(q).name = Step(i).name PROVE FALSE
    OBVIOUS
  <2>1. q \in T
    BY <1>1, <1>3
  <2> QED BY <1>1, <1>2, <1>3, <2>1
<1> QED BY <1>3, <1>4 DEF IsEntryOf

\* Does a mark of the steps in S reach entry p?
Hit(p, S) == \E i \in S : IsEntryOf(p, i)

\* What each kind of mark makes of an entry.
LEMMA MarksPhase ==
    ASSUME NEW steps \in StepStatuses, NEW S, NEW p \in Index
    PROVE  /\ Hit(p, S) => /\ MarkStepsRunning(steps, S)[p].phase = "Running"
                           /\ MarkStepsFailed(steps, S)[p].phase = "Failed"
           /\ ~Hit(p, S) => /\ MarkStepsRunning(steps, S)[p] = steps[p]
                            /\ MarkStepsFailed(steps, S)[p] = steps[p]
           /\ collectRunnerLogs(steps, S)[p].phase = steps[p].phase
PROOF
<1>1. steps[p] \in StepStatus
  BY DEF StepStatuses
<1>2. MarkStepsRunning(steps, S)[p] = IF Hit(p, S) THEN PlainStatus("Running") ELSE steps[p]
  BY DEF SetStepStatus, MarkStepsRunning, Hit
<1>3. MarkStepsFailed(steps, S)[p]
          = IF Hit(p, S) THEN [phase |-> "Failed", outputs |-> FALSE, logs |-> "error"]
            ELSE steps[p]
  BY DEF SetStepStatus, MarkStepsFailed, Hit
<1>4. collectRunnerLogs(steps, S)[p].phase = steps[p].phase
  BY <1>1 DEF collectRunnerLogs, StepStatus
<1> QED BY <1>2, <1>3, <1>4 DEF PlainStatus

\* Marking steps succeeded sets their entries and no others.
LEMMA SucceededPhase ==
    ASSUME NEW steps \in StepStatuses, NEW S, NEW p \in Index, NEW outputs
    PROVE  /\ Hit(p, S) => MarkStepsSucceeded(steps, S, outputs)[p].phase = "Succeeded"
           /\ ~Hit(p, S) => MarkStepsSucceeded(steps, S, outputs)[p] = steps[p]
PROOF BY DEF SetStepStatus, MarkStepsSucceeded, Hit

\* The outputs of an entry: a step that is running has none.
LEMMA MarksOutputs ==
    ASSUME NEW steps \in StepStatuses, NEW S, NEW p \in Index
    PROVE  /\ collectRunnerLogs(steps, S)[p].outputs = steps[p].outputs
           /\ \A outputs : MarkStepsSucceeded(steps, S, outputs)[p].outputs
                              \in {outputs[p], steps[p].outputs}
PROOF
<1>1. collectRunnerLogs(steps, S)[p].outputs = steps[p].outputs
  BY DEF collectRunnerLogs, StepStatuses, StepStatus
<1>2. \A outputs : MarkStepsSucceeded(steps, S, outputs)[p].outputs
                      \in {outputs[p], steps[p].outputs}
  BY DEF SetStepStatus, MarkStepsSucceeded
<1> QED BY <1>1, <1>2

\* An entry marked running has no outputs.
LEMMA RunningNoOutputs ==
    ASSUME NEW steps \in StepStatuses, NEW S, NEW p \in Index
    PROVE  \/ MarkStepsRunning(steps, S)[p].outputs = FALSE
           \/ MarkStepsRunning(steps, S)[p] = steps[p]
PROOF BY DEF SetStepStatus, MarkStepsRunning, PlainStatus

-----------------------------------------------------------------------------
(* The copy a reconcile works on, and the versions it is based on.         *)

\* Up to here a reconcile has not touched the entries of its copy.
Before == {"fetched", "route", "params", "create", "mark"}
InPhase2 == {"native", "executing"}

\* Until a TaskRun is finished no finished step is stored.
OpenEntry(e) == e.phase \in {"Pending", "Running"} /\ e.outputs = FALSE
WellStored(st) ==
    /\ st.phase # "Pending"
    /\ st.phase \notin Terminal => st.reason = ""
    /\ st.phase = "Running" => \A p \in Index : OpenEntry(st.steps[p])

StoredOpen == \A n \in 1..Len(trLog) : WellStored(trLog[n])

\* The version a reconcile has read.
Base == trLog[copy.rv]

\* The copy is that version, until a step is marked.
Based ==
    /\ pc # "idle" => copy.status.phase = Base.phase
    /\ pc \in Before => copy.status = Base
    /\ pc \in InPhase2 => copy.status.reason = ""

\* The entries of the copy are ahead of the version it was read from.
Advanced ==
    pc # "idle" /\ copy.status.phase = "Running" =>
        \A p \in Index : Lifecycle!MayBecome(Base.steps[p].phase, copy.status.steps[p].phase)

\* In phase 2 the entries of the steps behind the worker are Succeeded, but for
\* one that a later step of the same name may have taken over.
Passed ==
    /\ pc = "native" =>
           \A p \in Index \ todo :
               IsEntryOf(p, p) => copy.status.steps[p].phase = "Succeeded"
    /\ pc = "executing" =>
           \A i \in todo : IsNext(i, todo) =>
               \A p \in Index \ todo :
                   IsEntryOf(p, p) /\ ~IsEntryOf(p, i) => copy.status.steps[p].phase = "Succeeded"

\* A TaskRun about to fail has an entry to show for it, unless it never started.
Blamed ==
    pc = "failing" =>
        IF copy.status.phase = "Running"
        THEN \E p \in Index : IsEntryOf(p, p) /\ copy.status.steps[p].phase # "Succeeded"
        ELSE copy.status.steps = Base.steps

StatusInv == StoredOpen /\ Based /\ Advanced /\ Passed /\ Blamed

\* A reconcile under way has read a version that exists.
LEMMA CopyFacts ==
    ASSUME IndInv, pc # "idle"
    PROVE  /\ Len(trLog) \in Nat /\ copy.rv \in 1..Len(trLog)
           /\ copy.status \in StatusType /\ Base \in StatusType
           /\ copy.status.phase = "Running" => copy.status.steps \in StepStatuses
           /\ Base.phase = "Running" => Base.steps \in StepStatuses
PROOF
<1>1. /\ trLog \in Seq(StatusType) /\ Len(trLog) \in Nat
      /\ copy \in [rv : 0..Len(trLog), status : StatusType] /\ copy.rv >= 1
  BY DEF IndInv, TypeOK, CopyOpen
<1>2. copy.rv \in 1..Len(trLog) /\ copy.status \in StatusType
  BY <1>1
<1>3. Base \in StatusType
  BY <1>1, <1>2 DEF Base
<1> QED BY <1>1, <1>2, <1>3 DEF IndInv, StepsPresent, HasSteps, Base

\* What the two ways to change the copy leave and set.
LEMMA FailSets ==
    ASSUME TypeOK, NEW steps, NEW reason, Fail(steps, reason)
    PROVE  /\ pc' = "failing" /\ copy'.rv = copy.rv
           /\ copy'.status.phase = copy.status.phase
           /\ copy'.status.steps = steps /\ copy'.status.reason = reason
PROOF
<1>1. copy \in [rv : 0..Len(trLog), status : StatusType]
  BY DEF TypeOK
<1> DEFINE st == [copy.status EXCEPT !.steps = steps, !.reason = reason]
<1>2. copy' = [copy EXCEPT !.status = st]
  BY <1>1 DEF Fail, StatusType
<1>3. st.phase = copy.status.phase /\ st.steps = steps /\ st.reason = reason
  BY <1>1 DEF StatusType
<1> HIDE DEF st
<1> QED BY <1>1, <1>2, <1>3 DEF Fail

\* Writing the entries of the copy changes nothing else of it.
LEMMA StepsSet ==
    ASSUME TypeOK, NEW steps, copy' = [copy EXCEPT !.status.steps = steps]
    PROVE  /\ copy'.rv = copy.rv
           /\ copy'.status.phase = copy.status.phase
           /\ copy'.status.steps = steps /\ copy'.status.reason = copy.status.reason
PROOF
<1>1. copy \in [rv : 0..Len(trLog), status : StatusType]
  BY DEF TypeOK
<1> DEFINE st == [copy.status EXCEPT !.steps = steps]
<1>2. copy' = [copy EXCEPT !.status = st]
  BY <1>1 DEF StatusType
<1>3. st.phase = copy.status.phase /\ st.steps = steps /\ st.reason = copy.status.reason
  BY <1>1 DEF StatusType
<1> HIDE DEF st
<1> QED BY <1>1, <1>2, <1>3

\* Storing a version that is as it should be.
LEMMA StoreWell ==
    ASSUME IndInv, StoredOpen, spec' = spec, NEW new \in StatusType, HasSteps(new),
           WellStored(new), trLog' = trLog \/ Store(new)
    PROVE  StoredOpen'
PROOF
<1>1. /\ Len(trLog') \in {Len(trLog), Len(trLog) + 1} /\ Len(trLog) \in Nat
      /\ \A n \in 1..Len(trLog) : trLog'[n] = trLog[n]
      /\ Store(new) => trLog'[Len(trLog')] = new
  BY StoreKeeps DEF IndInv, TypeOK
<1>2. \A st : WellStored(st)' = WellStored(st)
  BY DEF WellStored, OpenEntry, Index
<1>3. trLog' = trLog \/ (Store(new) /\ trLog'[Len(trLog')] = new)
  BY <1>1
<1> QED BY <1>1, <1>2, <1>3 DEF StoredOpen

\* The status a reconcile is to write when it takes the TaskRun up, and its type.
LEMMA StartStatus ==
    ASSUME IndInv, pc = "fetched", StatusInv,
           NEW new, new = [copy.status EXCEPT !.phase = "Running", !.steps = InitStepStatuses],
           FirstReconcile
    PROVE  /\ new \in StatusType /\ HasSteps(new) /\ WellStored(new)
           /\ new.phase = "Running" /\ new.steps = InitStepStatuses /\ new.reason = ""
           /\ Base.phase = ""
PROOF
<1>1. InitStepStatuses \in StepStatuses
  BY DEF StepStatuses, StepStatus, StepPhases, InitStepStatuses, PlainStatus
<1>2. copy.status \in StatusType /\ copy.status = Base /\ copy.rv \in 1..Len(trLog)
  BY CopyFacts DEF StatusInv, Based, Before
<1>3. Base.phase = "" /\ Base.reason = ""
  BY <1>2 DEF StatusInv, StoredOpen, WellStored, FirstReconcile, Base, Terminal
<1>4. /\ new \in StatusType /\ new.phase = "Running" /\ new.steps = InitStepStatuses
      /\ new.reason = ""
  BY <1>1, <1>2, <1>3 DEF StatusType, StepStatuses, Phases
<1>5. \A p \in Index : OpenEntry(InitStepStatuses[p])
  BY DEF InitStepStatuses, PlainStatus, OpenEntry
<1> QED BY <1>1, <1>3, <1>4, <1>5 DEF HasSteps, WellStored

\* Marking steps running marks none as ended.
LEMMA OpenMarked ==
    ASSUME NEW steps \in StepStatuses, NEW S, \A p \in Index : OpenEntry(steps[p])
    PROVE  \A p \in Index : OpenEntry(MarkStepsRunning(steps, S)[p])
PROOF
<1> SUFFICES ASSUME NEW p \in Index PROVE OpenEntry(MarkStepsRunning(steps, S)[p])
  OBVIOUS
<1>1. CASE Hit(p, S)
  <2>1. MarkStepsRunning(steps, S)[p] = PlainStatus("Running")
    BY <1>1 DEF SetStepStatus, MarkStepsRunning, Hit
  <2> QED BY <2>1 DEF OpenEntry, PlainStatus
<1>2. CASE ~Hit(p, S)
  BY <1>2, MarksPhase
<1> QED BY <1>1, <1>2

\* The status stored once the Job is created is the stored one with the runner
\* steps running.
LEMMA RunningStatus ==
    ASSUME IndInv, pc = "mark", StatusInv,
           NEW new, new = [copy.status EXCEPT !.steps = MarkStepsRunning(@, runner)]
    PROVE  /\ new \in StatusType /\ HasSteps(new) /\ WellStored(new)
           /\ new.phase = "Running" /\ new.steps = MarkStepsRunning(Base.steps, runner)
           /\ new.reason = "" /\ Base.phase = "Running" /\ Base.steps \in StepStatuses
PROOF
<1>1. /\ copy.status \in StatusType /\ copy.status.phase = "Running" /\ copy.status = Base
      /\ copy.status.steps \in StepStatuses /\ copy.rv \in 1..Len(trLog)
  BY CopyFacts DEF StatusInv, Based, Before, IndInv, CopyOpen
<1>2. WellStored(Base) /\ Base.reason = ""
  BY <1>1 DEF StatusInv, StoredOpen, Base, WellStored, Terminal
<1> DEFINE s == MarkStepsRunning(copy.status.steps, runner)
<1>3. s \in StepStatuses
  BY <1>1, MarksType
<1>4. \A p \in Index : OpenEntry(s[p])
  BY <1>1, <1>2, OpenMarked DEF WellStored
<1>5. /\ new \in StatusType /\ new.phase = "Running" /\ new.steps = s
      /\ new.reason = copy.status.reason
  BY <1>1, <1>3 DEF StatusType, StepStatuses
<1> QED BY <1>1, <1>2, <1>3, <1>4, <1>5 DEF HasSteps, WellStored

\* The entries a running reconcile started from are open.
LEMMA OpenBase ==
    ASSUME IndInv, StatusInv, pc # "idle", copy.status.phase = "Running"
    PROVE  /\ Base.phase = "Running" /\ Base.steps \in StepStatuses
           /\ \A p \in Index : OpenEntry(Base.steps[p])
PROOF
<1>1. Base.phase = "Running" /\ Base.steps \in StepStatuses /\ copy.rv \in 1..Len(trLog)
  BY CopyFacts DEF StatusInv, Based
<1>2. WellStored(Base)
  BY <1>1 DEF StatusInv, StoredOpen, Base
<1> QED BY <1>1, <1>2 DEF WellStored

\* Marks of any kind move an entry forward.
LEMMA MarkedCopy ==
    ASSUME IndInv, StatusInv, spec' = spec, trLog' = trLog,
           pc # "idle", copy.status.phase = "Running", NEW steps,
           copy'.rv = copy.rv, copy'.status.phase = copy.status.phase,
           copy'.status.steps = steps,
           \A p \in Index : \/ steps[p].phase \in {"Running", "Succeeded", "Failed"}
                            \/ steps[p].phase = copy.status.steps[p].phase,
           \/ pc' \in InPhase2 /\ copy'.status.reason = ""
           \/ pc' = "failing"
    PROVE  StoredOpen' /\ Based' /\ Advanced'
PROOF
<1>1. /\ Base' = Base /\ Index' = Index
      /\ \A st : WellStored(st)' = WellStored(st)
  BY DEF Base, Index, WellStored, OpenEntry
<1>2. StoredOpen'
  BY <1>1 DEF StatusInv, StoredOpen
<1>3. Base.phase = "Running" /\ \A p \in Index : Base.steps[p].phase \in {"Pending", "Running"}
  BY OpenBase DEF OpenEntry
<1>4. Based'
  BY <1>1, <1>3 DEF Based, Before, InPhase2
<1>5. \A p \in Index : Lifecycle!MayBecome(Base.steps[p].phase, copy.status.steps[p].phase)
  BY DEF StatusInv, Advanced
<1>6. \A p \in Index : Lifecycle!MayBecome(Base.steps[p].phase, steps[p].phase)
  BY <1>3, <1>5 DEF Lifecycle!MayBecome
<1>7. Advanced'
  BY <1>1, <1>6 DEF Advanced
<1> QED BY <1>2, <1>4, <1>7

\* Every step preserves StatusInv, edits of definitions included.
LEMMA StatusNext ==
    ASSUME IndInv, StatusInv, Next
    PROVE  StatusInv'
PROOF
<1> USE DEF objects, caches, local, history
<1>1. /\ spec' = spec /\ TypeOK /\ Index' = Index
      /\ \A st : WellStored(st)' = WellStored(st)
      /\ \A p, i : IsEntryOf(p, i)' = IsEntryOf(p, i)
  BY SpecFixed DEF IndInv, Index, WellStored, OpenEntry, IsEntryOf, Step
<1>2. StoredOpen /\ Based /\ Advanced /\ Passed /\ Blamed
  BY DEF StatusInv
<1>3. ASSUME UNCHANGED <<trLog, copy, pc, todo>>
      PROVE  StatusInv'
  <2>1. Base' = Base /\ StoredOpen'
    BY <1>1, <1>2, <1>3 DEF Base, StoredOpen
  <2>2. Based' /\ Advanced' /\ Blamed'
    BY <1>1, <1>2, <1>3, <2>1 DEF Based, Advanced, Blamed
  <2>3. Passed'
    BY <1>1, <1>2, <1>3 DEF Passed, IsNext
  <2> QED BY <2>1, <2>2, <2>3 DEF StatusInv
<1>4. ASSUME StoredOpen', pc' = "idle"
      PROVE  StatusInv'
  BY <1>4 DEF StatusInv, Based, Advanced, Passed, Blamed, Before, InPhase2
<1>5. ASSUME trLog' = trLog PROVE StoredOpen'
  BY <1>1, <1>2, <1>5 DEF StoredOpen
<1>6. ASSUME StoredOpen', pc' \in Before, copy'.status = Base'
      PROVE  StatusInv'
  <2>1. Based'
    BY <1>6 DEF Based, Before, InPhase2
  <2>2. Advanced'
    BY <1>6 DEF Advanced, Lifecycle!MayBecome
  <2> QED BY <1>6, <2>1, <2>2 DEF StatusInv, Passed, Blamed, Before
<1>7. ASSUME pc \in Before, UNCHANGED <<trLog, copy>>, pc' \in Before
      PROVE  StatusInv'
  BY <1>2, <1>5, <1>6, <1>7 DEF Based, Base
<1>8. ASSUME pc \in Before, trLog' = trLog, NEW reason, Fail(copy.status.steps, reason)
      PROVE  StatusInv'
  <2>1. /\ pc' = "failing" /\ copy'.rv = copy.rv
        /\ copy'.status.phase = copy.status.phase /\ copy'.status.steps = copy.status.steps
    BY <1>1, <1>8, FailSets
  <2>2. /\ copy.status = Base /\ Base' = Base /\ pc # "idle"
    BY <1>2, <1>8, <2>1 DEF Based, Base, Before
  <2>3. StoredOpen'
    BY <1>5, <1>8
  <2>4. Based' /\ Advanced' /\ Passed'
    BY <2>1, <2>2 DEF Based, Advanced, Passed, Lifecycle!MayBecome, Before, InPhase2
  <2>5. CASE copy.status.phase = "Running"
    <3>1. 1 \in Index /\ IsEntryOf(1, 1)
      BY <1>1, TaskRunsAssumption, MinItemsAssumption DEF TypeOK, Index, IsEntryOf
    <3>2. copy.status.steps[1].phase # "Succeeded"
      BY <2>2, <2>5, <3>1, OpenBase DEF OpenEntry
    <3>3. Blamed'
      BY <1>1, <2>1, <2>5, <3>1, <3>2 DEF Blamed
    <3> QED BY <2>3, <2>4, <3>3 DEF StatusInv
  <2>6. CASE copy.status.phase # "Running"
    BY <2>1, <2>2, <2>3, <2>4, <2>6 DEF StatusInv, Blamed
  <2> QED BY <2>5, <2>6
<1>9. CASE \/ SkipTerminal \/ SyncTaskRun \/ SyncJob \/ SyncCronJob \/ SyncConfigMap
           \/ PodSucceeds \/ PodFails \/ ChangeDefinition
           \/ \E i \in Index : RunContainer(i)
  BY <1>3, <1>9 DEF SkipTerminal, SyncTaskRun, SyncJob, SyncCronJob, SyncConfigMap,
     PodSucceeds, PodFails, ChangeDefinition, RunContainer
<1>10. CASE reconcileCronJob \/ JobLookupError \/ JobActive \/ Crash
  BY <1>4, <1>5, <1>10 DEF reconcileCronJob, JobLookupError, JobActive, Crash, Return
<1>11. CASE Fetch
  <2>1. trLog' = trLog /\ pc' \in Before /\ copy'.status = Base'
    BY <1>11 DEF Fetch, Before, Base
  <2> QED BY <1>5, <1>6, <2>1
<1>12. CASE RejectResolution \/ RejectParams \/ RejectOrdering
  BY <1>8, <1>12 DEF RejectResolution, RejectParams, RejectOrdering, Before
<1>13. CASE Resume \/ JobNotFound
  BY <1>7, <1>13 DEF Resume, JobNotFound, AtJob, Before
<1>14. CASE ensureParamsConfigMap
  BY <1>7, <1>8, <1>14 DEF ensureParamsConfigMap, Before
<1>15. CASE CreateJob
  BY <1>4, <1>5, <1>7, <1>15 DEF CreateJob, Return, Before
<1>16. CASE Start
  <2> DEFINE new == [copy.status EXCEPT !.phase = "Running", !.steps = InitStepStatuses]
  <2>1. new \in StatusType /\ HasSteps(new) /\ WellStored(new)
    BY <1>16, StartStatus DEF Start
  <2>2. trLog' = trLog \/ Store(new)
    BY <1>16 DEF Start, UpdateOk, UpdateError
  <2>3. \/ pc' = "idle"
        \/ Store(new) /\ pc' = "route" /\ copy' = [rv |-> Len(trLog'), status |-> new]
    BY <1>16 DEF Start, UpdateOk, Return
  <2> HIDE DEF new
  <2>4. StoredOpen'
    BY <1>1, <1>2, <2>1, <2>2, StoreWell
  <2>5. Store(new) => trLog'[Len(trLog')] = new
    BY <1>1, <2>1, <2>2, StoreKeeps DEF IndInv
  <2>6. CASE pc' = "idle"
    BY <1>4, <2>4, <2>6
  <2>7. CASE Store(new) /\ pc' = "route" /\ copy' = [rv |-> Len(trLog'), status |-> new]
    <3>1. copy'.rv = Len(trLog') /\ copy'.status = new
      BY <2>7
    <3> QED BY <1>6, <2>4, <2>5, <2>7, <3>1 DEF Base, Before
  <2> QED BY <2>3, <2>6, <2>7
<1>17. CASE MarkRunnersRunning
  <2> DEFINE new == [copy.status EXCEPT !.steps = MarkStepsRunning(@, runner)]
  <2>1. new \in StatusType /\ HasSteps(new) /\ WellStored(new)
    BY <1>17, RunningStatus DEF MarkRunnersRunning
  <2>2. (trLog' = trLog \/ Store(new)) /\ pc' = "idle"
    BY <1>17 DEF MarkRunnersRunning, UpdateOk, UpdateError, Return
  <2> HIDE DEF new
  <2>3. StoredOpen'
    BY <1>1, <1>2, <2>1, <2>2, StoreWell
  <2> QED BY <1>4, <2>2, <2>3
<1>18. CASE MarkSucceeded \/ MarkFailed
  <2>1. PICK new \in {[copy.status EXCEPT !.phase = "Succeeded", !.reason = "AllStepsSucceeded"],
                      [copy.status EXCEPT !.phase = "Failed"]} :
            (trLog' = trLog \/ Store(new)) /\ pc' = "idle" /\ pc # "idle"
    BY <1>18 DEF MarkSucceeded, MarkFailed, SetTerminal, UpdateOk, UpdateError, Return
  <2>2. new \in StatusType /\ new.phase \in Terminal
    BY <2>1, CopyFacts DEF StatusType, Phases, Reasons, Terminal
  <2>3. HasSteps(new) /\ WellStored(new)
    BY <2>2 DEF HasSteps, WellStored, Terminal
  <2>4. StoredOpen'
    BY <1>1, <1>2, <2>1, <2>2, <2>3, StoreWell
  <2> QED BY <1>4, <2>1, <2>4
<1>19. ASSUME pc \in {"route", "native", "executing"}
       PROVE  /\ copy.status.phase = "Running" /\ copy.status.steps \in StepStatuses
              /\ copy.status.reason = "" /\ pc # "idle"
  <2>1. copy.status.phase = "Running" /\ copy.status.steps \in StepStatuses
    BY <1>19, CopyFacts DEF IndInv, CopyOpen
  <2>2. copy.rv \in 1..Len(trLog)
    BY <1>19, CopyFacts
  <2>3. WellStored(Base)
    BY <1>2, <2>2 DEF StoredOpen, Base
  <2> QED BY <1>2, <1>19, <2>1, <2>3 DEF Based, Before, InPhase2, WellStored, Terminal
<1>20. CASE RouteNative
  <2>1. /\ pc = "route" /\ pc' = "native" /\ UNCHANGED <<trLog, copy>> /\ todo' = Index
    BY <1>20 DEF RouteNative, NativeSteps
  <2>2. StoredOpen' /\ Based' /\ Advanced'
    BY <1>1, <1>2, <1>19, <2>1, MarkedCopy DEF InPhase2
  <2>3. Passed' /\ Blamed'
    BY <1>1, <2>1 DEF Passed, Blamed
  <2> QED BY <2>2, <2>3 DEF StatusInv
<1>21. CASE JobSucceeded
  <2>1. PICK read, collected :
            copy' = [copy EXCEPT !.status.steps =
                        MarkStepsSucceeded(collectRunnerLogs(@, read), runner,
                                           collectRunnerOutputs(runner, collected))]
    BY <1>21 DEF JobSucceeded
  <2>2. /\ pc = "route" /\ pc' = "native" /\ trLog' = trLog /\ todo' = Index \ runner
    BY <1>21 DEF JobSucceeded, AtJob, NativeSteps
  <2> DEFINE logged == collectRunnerLogs(copy.status.steps, read)
             steps  == MarkStepsSucceeded(logged, runner, collectRunnerOutputs(runner, collected))
  <2>3. /\ copy'.rv = copy.rv /\ copy'.status.phase = copy.status.phase
        /\ copy'.status.steps = steps /\ copy'.status.reason = copy.status.reason
    BY <1>1, <2>1, StepsSet
  <2>4. logged \in StepStatuses
    BY <1>19, <2>2, MarksType
  <2>5. \A p \in Index : logged[p].phase = copy.status.steps[p].phase
    <3>1. copy.status.steps \in StepStatuses
      BY <1>19, <2>2
    <3> QED BY <3>1, MarksPhase
  <2> HIDE DEF logged
  <2>6. \A p \in Index : IF Hit(p, runner) THEN steps[p].phase = "Succeeded"
                         ELSE steps[p] = logged[p]
    BY <2>4, SucceededPhase
  <2> HIDE DEF steps
  <2>7. \A p \in Index : \/ steps[p].phase \in {"Running", "Succeeded", "Failed"}
                         \/ steps[p].phase = copy.status.steps[p].phase
    BY <2>5, <2>6
  <2>8. StoredOpen' /\ Based' /\ Advanced'
    BY <1>1, <1>19, <2>2, <2>3, <2>7, MarkedCopy DEF InPhase2
  <2>9. \A p \in Index \ todo' : IsEntryOf(p, p) => steps[p].phase = "Succeeded"
    BY <1>1, <2>2, <2>6 DEF Hit, TypeOK
  <2>10. Passed' /\ Blamed'
    BY <1>1, <2>2, <2>3, <2>9 DEF Passed, Blamed
  <2> QED BY <2>8, <2>10 DEF StatusInv
<1>22. ASSUME pc \in {"route", "native", "executing"}, trLog' = trLog,
              NEW steps \in StepStatuses, NEW S, NEW i \in Index, i \in S,
              Fail(MarkStepsFailed(steps, S), "RunnerFailed")
                  \/ Fail(MarkStepsFailed(steps, S), "StepFailed"),
              \A p \in Index : steps[p].phase = copy.status.steps[p].phase
       PROVE  StatusInv'
  <2> DEFINE new == MarkStepsFailed(steps, S)
  <2>1. /\ pc' = "failing" /\ copy'.rv = copy.rv
        /\ copy'.status.phase = copy.status.phase /\ copy'.status.steps = new
    BY <1>1, <1>22, FailSets
  <2>2. \A p \in Index : IF Hit(p, S) THEN new[p].phase = "Failed" ELSE new[p] = steps[p]
    BY <1>22, MarksPhase
  <2> HIDE DEF new
  <2>3. \A p \in Index : \/ new[p].phase \in {"Running", "Succeeded", "Failed"}
                         \/ new[p].phase = copy.status.steps[p].phase
    BY <1>22, <2>2
  <2>4. StoredOpen' /\ Based' /\ Advanced'
    BY <1>1, <1>19, <1>22, <2>1, <2>3, MarkedCopy
  <2>5. PICK p \in Index : IsEntryOf(p, i)
    BY <1>1, <1>22, EntryExists
  <2>6. IsEntryOf(p, p) /\ new[p].phase = "Failed"
    BY <1>1, <1>22, <2>2, <2>5, EntryFacts DEF Hit
  <2>7. Passed' /\ Blamed'
    BY <1>1, <1>19, <1>22, <2>1, <2>6 DEF Passed, Blamed
  <2> QED BY <2>4, <2>7 DEF StatusInv
<1>23. CASE JobFailed
  <2>1. PICK read \in LogReads :
            Fail(MarkStepsFailed(collectRunnerLogs(copy.status.steps, read), runner), "RunnerFailed")
    BY <1>23 DEF JobFailed
  <2>2. pc = "route" /\ trLog' = trLog /\ runner # {} /\ runner \subseteq Index
    BY <1>1, <1>23 DEF JobFailed, AtJob, TypeOK
  <2>3. /\ collectRunnerLogs(copy.status.steps, read) \in StepStatuses
        /\ \A p \in Index : collectRunnerLogs(copy.status.steps, read)[p].phase
                               = copy.status.steps[p].phase
    <3>1. copy.status.steps \in StepStatuses
      BY <1>19, <2>2
    <3> QED BY <3>1, MarksType, MarksPhase
  <2> QED BY <1>22, <2>1, <2>2, <2>3
<1>24. ASSUME NEW i \in Index, TemplateError(i) \/ StepErrs(i)
       PROVE  StatusInv'
  <2>1. /\ pc \in {"native", "executing"} /\ trLog' = trLog
        /\ Fail(MarkStepsFailed(copy.status.steps, {i}), "StepFailed")
    BY <1>24 DEF TemplateError, StepErrs
  <2> QED BY <1>19, <1>22, <2>1
<1>25. ASSUME NEW i \in Index, BeginStep(i)
       PROVE  StatusInv'
  <2> DEFINE steps == MarkStepsRunning(copy.status.steps, {i})
  <2>1. /\ pc = "native" /\ pc' = "executing" /\ UNCHANGED <<trLog, todo>>
        /\ IsNext(i, todo) /\ copy' = [copy EXCEPT !.status.steps = steps]
    BY <1>25 DEF BeginStep
  <2>2. /\ copy'.rv = copy.rv /\ copy'.status.phase = copy.status.phase
        /\ copy'.status.steps = steps /\ copy'.status.reason = copy.status.reason
    BY <1>1, <2>1, StepsSet
  <2>3. \A p \in Index : IF Hit(p, {i}) THEN steps[p].phase = "Running"
                         ELSE steps[p] = copy.status.steps[p]
    <3>1. copy.status.steps \in StepStatuses
      BY <1>19, <2>1
    <3> QED BY <3>1, MarksPhase
  <2> HIDE DEF steps
  <2>4. StoredOpen' /\ Based' /\ Advanced'
    BY <1>1, <1>19, <2>1, <2>2, <2>3, MarkedCopy DEF InPhase2
  <2>5. \A k \in todo : IsNext(k, todo) => k = i
    BY <1>1, <2>1, IndexType DEF IsNext, TypeOK
  <2>6. \A p \in Index \ todo : IsEntryOf(p, p) /\ ~IsEntryOf(p, i) => steps[p].phase = "Succeeded"
    BY <1>2, <2>1, <2>3 DEF Passed, Hit
  <2>7. Passed' /\ Blamed'
    BY <1>1, <2>1, <2>2, <2>5, <2>6 DEF Passed, Blamed, IsNext
  <2> QED BY <2>4, <2>7 DEF StatusInv
<1>26. ASSUME NEW i \in Index, StepSucceeds(i)
       PROVE  StatusInv'
  <2> DEFINE outputs == [p \in Index |-> Step(i).action \in Producing]
             steps   == MarkStepsSucceeded(copy.status.steps, {i}, outputs)
  <2>1. /\ pc = "executing" /\ pc' = "native" /\ trLog' = trLog /\ todo' = todo \ {i}
        /\ IsNext(i, todo) /\ copy' = [copy EXCEPT !.status.steps = steps]
    BY <1>26 DEF StepSucceeds
  <2>2. /\ copy'.rv = copy.rv /\ copy'.status.phase = copy.status.phase
        /\ copy'.status.steps = steps /\ copy'.status.reason = copy.status.reason
    BY <1>1, <2>1, StepsSet
  <2>3. \A p \in Index : IF Hit(p, {i}) THEN steps[p].phase = "Succeeded"
                         ELSE steps[p] = copy.status.steps[p]
    <3>1. copy.status.steps \in StepStatuses
      BY <1>19, <2>1
    <3> QED BY <3>1, SucceededPhase
  <2> HIDE DEF steps
  <2>4. StoredOpen' /\ Based' /\ Advanced'
    BY <1>1, <1>19, <2>1, <2>2, <2>3, MarkedCopy DEF InPhase2
  <2>5. \A p \in Index \ todo' : IsEntryOf(p, p) => steps[p].phase = "Succeeded"
    BY <1>2, <2>1, <2>3 DEF Passed, Hit, IsNext
  <2>6. Passed' /\ Blamed'
    BY <1>1, <2>1, <2>2, <2>5 DEF Passed, Blamed
  <2> QED BY <2>4, <2>6 DEF StatusInv
<1> QED
  BY <1>9, <1>10, <1>11, <1>12, <1>13, <1>14, <1>15, <1>16, <1>17, <1>18, <1>20, <1>21,
     <1>23, <1>24, <1>25, <1>26
     DEF Next, Reconcile, RunPod

\* The invariant holds throughout.
LEMMA StatusInductive == Spec => []StatusInv
PROOF
<1>1. Init => StatusInv
  <2> SUFFICES ASSUME Init PROVE StatusInv
    OBVIOUS
  <2>1. trLog = <<NewStatus>> /\ NewStatus.phase = "" /\ NewStatus.reason = "" /\ pc = "idle"
    BY DEF Init, NewStatus
  <2>2. \A n \in 1..Len(trLog) : trLog[n] = NewStatus
    <3>1. \A x : \A n \in 1..Len(<<x>>) : <<x>>[n] = x
      OBVIOUS
    <3> QED BY <2>1, <3>1, Zenon
  <2>3. StoredOpen
    BY <2>1, <2>2 DEF StoredOpen, WellStored
  <2> QED BY <2>1, <2>3 DEF StatusInv, Based, Advanced, Passed, Blamed, Before, InPhase2
<1>2. StatusInv /\ UNCHANGED vars => StatusInv'
  <2> SUFFICES ASSUME StatusInv, UNCHANGED vars PROVE StatusInv'
    OBVIOUS
  <2>1. UNCHANGED <<spec, trLog, copy, pc, todo>>
    BY DEF vars, objects, local
  <2>2. /\ Index' = Index /\ Base' = Base
        /\ \A st : WellStored(st)' = WellStored(st)
        /\ \A p, i : IsEntryOf(p, i)' = IsEntryOf(p, i)
    BY <2>1 DEF Index, Base, WellStored, OpenEntry, IsEntryOf, Step
  <2> QED BY <2>1, <2>2 DEF StatusInv, StoredOpen, Based, Advanced, Passed, Blamed, IsNext
<1>3. IndInv /\ StatusInv /\ [Next]_vars => StatusInv'
  BY <1>2, StatusNext
<1> QED BY <1>1, <1>3, Inductive, PTL DEF Spec

-----------------------------------------------------------------------------
(* The refinement.                                                         *)

\* What a client sees of the steps.
Shown == [p \in Entries |-> Stored.steps[p].phase]

\* Once the steps have entries, those that count are the first of each name.
LEMMA EntriesKnown ==
    ASSUME TypeOK, Stored.steps \in StepStatuses
    PROVE  /\ Entries = {p \in Index : IsEntryOf(p, p)}
           /\ DOMAIN Shown = Entries
           /\ \A p \in Entries : Shown[p] = Stored.steps[p].phase
PROOF BY DEF Entries, Shown, StepStatuses

\* A write that is accepted replaces the version the reconcile has read.
LEMMA Accepted ==
    ASSUME IndInv, spec' = spec, pc # "idle", NEW new \in StatusType, ~Conflict, Store(new)
    PROVE  Base = Stored /\ Stored' = new
PROOF BY StoreStores DEF IndInv, Conflict, Base, Stored

\* A stored Start is the beginning of the abstract lifecycle.
LEMMA BeginRefines ==
    ASSUME IndInv, StatusInv, spec' = spec, Start, trLog' # trLog
    PROVE  Lifecycle!Begin
PROOF
<1> DEFINE new == [copy.status EXCEPT !.phase = "Running", !.steps = InitStepStatuses]
<1>1. ~Conflict /\ Store(new) /\ pc = "fetched" /\ FirstReconcile
  BY DEF Start, UpdateOk, UpdateError
<1>2. /\ new \in StatusType /\ new.phase = "Running" /\ new.steps = InitStepStatuses
      /\ Base.phase = ""
  BY <1>1, StartStatus
<1> HIDE DEF new
<1>3. Stored.phase = "" /\ Stored'.phase = "Running" /\ Stored'.steps = InitStepStatuses
  BY <1>1, <1>2, Accepted
<1>4. DOMAIN InitStepStatuses = Index /\ \A p \in Index : InitStepStatuses[p].phase = "Pending"
  BY DEF InitStepStatuses, PlainStatus
<1>5. Index' = Index
  BY DEF Index
<1>6. Shown' = [p \in DOMAIN Shown' |-> "Pending"]
  <2>1. Entries' \subseteq Index
    BY <1>3, <1>4 DEF Entries
  <2> QED BY <1>3, <1>4, <2>1 DEF Shown
<1> QED BY <1>3, <1>6 DEF Lifecycle!Begin, Shown

\* A write of entries that are ahead of the stored ones.
LEMMA ForwardRefines ==
    ASSUME IndInv, StatusInv, spec' = spec, Stored.steps \in StepStatuses,
           Stored'.steps \in StepStatuses,
           \A p \in Index : Lifecycle!MayBecome(Stored.steps[p].phase, Stored'.steps[p].phase)
    PROVE  /\ Lifecycle!Forward
           /\ DOMAIN Shown = {p \in Index : IsEntryOf(p, p)}
           /\ \A p \in DOMAIN Shown : Shown'[p] = Stored'.steps[p].phase
PROOF
<1>1. /\ Index' = Index /\ StepStatuses' = StepStatuses
      /\ \A p : IsEntryOf(p, p)' = IsEntryOf(p, p)
  BY SameIndex DEF IsEntryOf, Step
<1>2. /\ Entries = {p \in Index : IsEntryOf(p, p)} /\ DOMAIN Shown = Entries
      /\ \A p \in Entries : Shown[p] = Stored.steps[p].phase
  BY EntriesKnown DEF IndInv
<1>3. /\ Entries' = Entries /\ DOMAIN Shown' = Entries
      /\ \A p \in Entries : Shown'[p] = Stored'.steps[p].phase
  <2>1. Entries' = {p \in Index : IsEntryOf(p, p)}
    BY <1>1 DEF Entries, StepStatuses
  <2> QED BY <1>2, <2>1 DEF Shown
<1>4. /\ DOMAIN Shown' = DOMAIN Shown
      /\ \A p \in DOMAIN Shown : Lifecycle!MayBecome(Shown[p], Shown'[p])
  BY <1>2, <1>3
<1> QED BY <1>2, <1>3, <1>4 DEF Lifecycle!Forward, Shown

\* Marking the runner steps running is progress of the abstract lifecycle.
LEMMA ProgressRefines ==
    ASSUME IndInv, StatusInv, spec' = spec, MarkRunnersRunning, trLog' # trLog
    PROVE  Lifecycle!Progress
PROOF
<1> DEFINE new == [copy.status EXCEPT !.steps = MarkStepsRunning(@, runner)]
<1>1. ~Conflict /\ Store(new) /\ pc = "mark"
  BY DEF MarkRunnersRunning, UpdateOk, UpdateError
<1>2. /\ new \in StatusType /\ new.phase = "Running" /\ WellStored(new) /\ HasSteps(new)
      /\ new.steps = MarkStepsRunning(Base.steps, runner)
      /\ Base.phase = "Running" /\ Base.steps \in StepStatuses
  BY <1>1, RunningStatus
<1> HIDE DEF new
<1>3. Base = Stored /\ Stored' = new
  BY <1>1, <1>2, Accepted
<1>4. \A p \in Index : new.steps[p].phase \in {"Pending", "Running"}
  BY <1>2 DEF WellStored, OpenEntry
<1>5. \A p \in Index : Base.steps[p].phase \in {"Pending", "Running"}
  BY <1>1, <1>2, OpenBase DEF OpenEntry, StatusInv, Based
<1>6. \A p \in Index : \/ new.steps[p].phase = "Running"
                       \/ new.steps[p] = Base.steps[p]
  BY <1>2, MarksPhase
<1>7. \A p \in Index : Lifecycle!MayBecome(Base.steps[p].phase, new.steps[p].phase)
  BY <1>5, <1>6 DEF Lifecycle!MayBecome
<1>8. /\ Lifecycle!Forward /\ DOMAIN Shown \subseteq Index
      /\ \A p \in DOMAIN Shown : Shown'[p] = new.steps[p].phase
  BY <1>2, <1>3, <1>7, ForwardRefines DEF HasSteps
<1> QED BY <1>2, <1>3, <1>4, <1>8 DEF Lifecycle!Progress, Shown

\* The terminal writes: the copy is ahead of the version it replaces.
LEMMA TerminalWrite ==
    ASSUME IndInv, StatusInv, spec' = spec, trLog' # trLog, MarkSucceeded \/ MarkFailed
    PROVE  /\ pc \in {"native", "failing"} /\ Stored.phase = copy.status.phase
           /\ Base = Stored /\ Stored'.steps = copy.status.steps
           /\ MarkSucceeded => Stored'.phase = "Succeeded" /\ Stored'.reason = "AllStepsSucceeded"
           /\ MarkFailed => Stored'.phase = "Failed" /\ Stored'.reason = copy.status.reason
PROOF
<1>1. PICK new : /\ ~Conflict /\ Store(new) /\ pc \in {"native", "failing"}
                 /\ \/ /\ pc = "native"
                       /\ new = [copy.status EXCEPT !.phase = "Succeeded",
                                                    !.reason = "AllStepsSucceeded"]
                    \/ /\ pc = "failing"
                       /\ new = [copy.status EXCEPT !.phase = "Failed"]
  BY DEF MarkSucceeded, MarkFailed, SetTerminal, UpdateOk, UpdateError
<1>2. /\ new \in StatusType /\ new.steps = copy.status.steps
      /\ pc = "native" => new.phase = "Succeeded" /\ new.reason = "AllStepsSucceeded"
      /\ pc = "failing" => new.phase = "Failed" /\ new.reason = copy.status.reason
  BY <1>1, CopyFacts DEF StatusType, Phases, Reasons
<1>3. /\ MarkSucceeded => pc = "native"
      /\ MarkFailed => pc = "failing"
  BY DEF MarkSucceeded, MarkFailed
<1>4. ~Conflict /\ Store(new) /\ pc \in {"native", "failing"}
  BY <1>1
<1>5. Base = Stored /\ Stored' = new
  BY <1>2, <1>4, Accepted
<1>6. copy.status.phase = Base.phase
  BY <1>4 DEF StatusInv, Based
<1> QED BY <1>2, <1>3, <1>4, <1>5, <1>6

\* A stored end is one of the three ends of the abstract lifecycle.
LEMMA TerminalRefines ==
    ASSUME IndInv, StatusInv, spec' = spec, trLog' # trLog, MarkSucceeded \/ MarkFailed
    PROVE  Lifecycle!Succeed \/ Lifecycle!Fail \/ Lifecycle!Reject
PROOF
<1>1. /\ pc \in {"native", "failing"} /\ Stored.phase = copy.status.phase
      /\ Base = Stored /\ Stored'.steps = copy.status.steps
  BY TerminalWrite
<1>2. CASE copy.status.phase = "Running"
  <2>1. Stored.steps \in StepStatuses /\ Stored'.steps \in StepStatuses
    BY <1>1, <1>2, CopyFacts, OpenBase
  <2>2. /\ Lifecycle!Forward
        /\ DOMAIN Shown = {p \in Index : IsEntryOf(p, p)}
        /\ \A p \in DOMAIN Shown : Shown'[p] = Stored'.steps[p].phase
    <3>1. \A p \in Index : Lifecycle!MayBecome(Stored.steps[p].phase, Stored'.steps[p].phase)
      BY <1>1, <1>2 DEF StatusInv, Advanced
    <3> QED BY <2>1, <3>1, ForwardRefines
  <2>3. CASE MarkSucceeded
    <3>1. pc = "native" /\ todo = {} /\ Stored'.phase = "Succeeded"
      BY <2>3, TerminalWrite DEF MarkSucceeded
    <3>2. \A p \in DOMAIN Shown : Shown'[p] = "Succeeded"
      BY <1>1, <2>2, <3>1 DEF StatusInv, Passed
    <3> QED BY <1>1, <1>2, <2>2, <3>1, <3>2 DEF Lifecycle!Succeed, Shown
  <2>4. CASE MarkFailed
    <3>1. pc = "failing" /\ Stored'.phase = "Failed"
      BY <2>4, TerminalWrite DEF MarkFailed
    <3>2. \E p \in DOMAIN Shown : Shown'[p] # "Succeeded"
      BY <1>1, <1>2, <2>2, <3>1 DEF StatusInv, Blamed
    <3> QED BY <1>1, <1>2, <2>2, <3>1, <3>2 DEF Lifecycle!Fail, Shown
  <2> QED BY <2>3, <2>4
<1>3. CASE copy.status.phase # "Running"
  <2>1. pc = "failing" /\ MarkFailed
    BY <1>1, <1>3 DEF IndInv, CopyOpen, MarkSucceeded
  <2>2. copy.status.phase = ""
    <3>1. copy.rv \in 1..Len(trLog) /\ copy.status.phase \in Phases
      BY <2>1, CopyFacts DEF StatusType
    <3>2. WellStored(Base)
      BY <3>1 DEF StatusInv, StoredOpen, Base
    <3> QED BY <1>1, <1>3, <2>1, <3>1, <3>2 DEF Phases, WellStored, IndInv, CopyOpen, Terminal
  <2>3. Stored'.steps = Stored.steps /\ Stored'.phase = "Failed"
    BY <1>1, <1>3, <2>1, TerminalWrite DEF StatusInv, Blamed
  <2>4. Shown' = Shown
    BY <2>3 DEF Shown, Entries, IsEntryOf, Step
  <2> QED BY <1>1, <2>2, <2>3, <2>4 DEF Lifecycle!Reject, Shown
<1> QED BY <1>2, <1>3

\* The reconciler implements the lifecycle: through stale reads, lost answers,
\* crashes and edited definitions the stored status only moves forward, and
\* succeeds or fails with the entries that say so.
THEOREM Implements == Spec => LifecycleSpec
PROOF
<1>1. Init => Lifecycle!Init
  <2> SUFFICES ASSUME Init PROVE Lifecycle!Init
    OBVIOUS
  <2>1. trLog = <<NewStatus>> /\ NewStatus.phase = "" /\ NewStatus.steps = <<>>
    BY DEF Init, NewStatus
  <2>2. \A x : <<x>>[Len(<<x>>)] = x
    OBVIOUS
  <2>3. Stored.phase = "" /\ Stored.steps = <<>>
    BY <2>1, <2>2, Zenon DEF Stored
  <2>4. Entries = {}
    <3>1. DOMAIN <<>> = {}
      OBVIOUS
    <3>2. DOMAIN Stored.steps = {}
      BY <2>3, <3>1, Zenon
    <3> QED BY <3>2, Zenon DEF Entries
  <2>5. Shown = <<>>
    BY <2>4 DEF Shown
  <2> QED BY <2>3, <2>5 DEF Lifecycle!Init, Shown
<1>2. IndInv /\ StatusInv /\ [Next]_vars => [Lifecycle!Next]_(Lifecycle!vars)
  <2> SUFFICES ASSUME IndInv, StatusInv, [Next]_vars
               PROVE  Lifecycle!Next \/ UNCHANGED Lifecycle!vars
    OBVIOUS
  <2>1. spec' = spec
    BY SpecFixed DEF vars
  <2>2. CASE trLog' = trLog
    BY <2>1, <2>2 DEF Lifecycle!vars, Stored, Entries, IsEntryOf, Step
  <2>3. CASE trLog' # trLog
    <3>1. Start \/ MarkRunnersRunning \/ MarkSucceeded \/ MarkFailed
      BY <2>3 DEF vars, Next, Reconcile, RunPod, SkipTerminal, Fetch, RejectResolution,
         RejectParams, RejectOrdering, Resume, RouteNative, reconcileCronJob, JobNotFound,
         JobLookupError, ensureParamsConfigMap, CreateJob, JobActive, JobSucceeded, JobFailed,
         BeginStep, TemplateError, StepSucceeds, StepErrs, SyncTaskRun, SyncJob, SyncCronJob,
         SyncConfigMap, RunContainer, PodSucceeds, PodFails, ChangeDefinition, Crash, objects
    <3> QED BY <2>1, <2>3, <3>1, BeginRefines, ProgressRefines, TerminalRefines
            DEF Lifecycle!Next
  <2> QED BY <2>2, <2>3
<1> QED BY <1>1, <1>2, Inductive, StatusInductive, PTL
        DEF Spec, LifecycleSpec, Lifecycle!Spec
=============================================================================
