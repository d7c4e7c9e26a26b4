-------------------------- MODULE TaskRunController --------------------------
(***************************************************************************)
(* The reconciler of one TaskRun (internal/controller/taskrun_controller): *)
(* the TaskRun object, its runner Job or CronJob, its params ConfigMap,    *)
(* and the single worker that reconciles it through a cached client.       *)
(*                                                                         *)
(* What makes the reconciler hard, and is modelled:                        *)
(*   - the client reads from informer caches and writes to the API server: *)
(*     every read may be stale, each kind of object by its own lag;        *)
(*   - a status write is refused when the copy it is based on is not the   *)
(*     latest version, and any call may fail, before or after it took      *)
(*     effect on the server (MaxFaults of them);                           *)
(*   - the controller may crash between any two API calls;                 *)
(*   - pods, watch events and edits of the definitions interleave with     *)
(*     every step of a reconcile.                                          *)
(*                                                                         *)
(* Simplifications:                                                        *)
(*   - a step's params are one value, its outputs one bit, its templates   *)
(*     the set of step names they mention;                                 *)
(*   - timestamps, durations, messages and the auth block are left out;    *)
(*   - a spec is admissible when the API server accepts the Job or CronJob *)
(*     built from it (a cron expression or a container name it refuses is  *)
(*     checked nowhere before);                                            *)
(*   - nobody edits or deletes the TaskRun, its Job or its ConfigMap.      *)
(***************************************************************************)
EXTENDS Integers, Sequences, FiniteSets

CONSTANTS
    TaskRuns,            \* the specs a user may apply
    Names,               \* step names
    Actions,             \* names of StepDefinitions
    Params,              \* step parameter values
    Producing,           \* the actions whose steps have outputs
    InitialDefinitions,  \* the definitions the cluster may start with
    Definitions,         \* what an edit may turn a definition into
    LogsMayFail,         \* reading a pod's logs may fail
    MaxFaults,           \* failed calls and crashes in one behaviour
    MaxDefChanges,       \* edits of StepDefinitions in one behaviour
    MaxCount             \* where the history counters stop counting

Phases     == {"", "Pending", "Running", "Succeeded", "Failed"}
StepPhases == {"Pending", "Running", "Succeeded", "Failed"}
Terminal   == {"Succeeded", "Failed"}
Reasons    == {"", "ResolutionFailed", "ValidationFailed", "InvalidStepOrdering",
               "ParamsConfigMapFailed", "RunnerFailed", "StepFailed",
               "AllStepsSucceeded"}

Scopes     == {"namespace", "cluster"}
Definition == [kind : {"absent", "runner", "native"}, accepts : SUBSET Params]
StepSpec   == [name : Names, action : Actions, params : Params, refs : SUBSET Names]
StepStatus == [phase : StepPhases, outputs : BOOLEAN,
               logs : {"none", "container", "error"}]

ASSUME TaskRunsAssumption ==
    \A s \in TaskRuns :
        s \in [steps : Seq(StepSpec), schedule : BOOLEAN, admissible : BOOLEAN]
ASSUME MinItemsAssumption == \A s \in TaskRuns : s.steps # <<>>
ASSUME DefinitionsAssumption ==
    /\ Definitions \subseteq Definition
    /\ InitialDefinitions \subseteq [Scopes -> [Actions -> Definition]]
ASSUME BoundsAssumption ==
    /\ LogsMayFail \in BOOLEAN
    /\ MaxFaults \in Nat /\ MaxDefChanges \in Nat /\ MaxCount \in Nat \ {0}

VARIABLES
    spec,       \* the TaskRun's spec, fixed when it is applied
    defs,       \* the StepDefinitions and ClusterStepDefinitions
    trLog,      \* every stored version of the TaskRun's status, oldest first
    trSeen,     \* the version the informer cache holds
    job,        \* the runner Job on the server
    jobSeen,    \* the runner Job in the cache
    pod,        \* the Job's init containers that have not run yet
    cmLog,      \* every stored version of the params ConfigMap
    cmSeen,     \* the version the cache holds, 0 when it holds none
    cron,       \* the CronJob exists on the server
    cronSeen,   \* the CronJob is in the cache
    queued,     \* the TaskRun is in the workqueue
    pc,         \* where the worker is in Reconcile
    copy,       \* the reconcile's TaskRun: version and status
    runner,     \* the reconcile's runner steps
    todo,       \* the API-native steps the reconcile has still to execute
    started,    \* history: how often each step was started
    done,       \* history: the steps that completed successfully
    counted,    \* taskrun_total of the process, and the version it started at
    faults,     \* failed calls and crashes so far
    defChanges  \* edits of definitions so far

objects == <<trLog, job, pod, cmLog, cron>>
caches  == <<trSeen, jobSeen, cmSeen, cronSeen>>
local   == <<pc, copy, runner, todo>>
history == <<started, done>>
vars == <<spec, defs, objects, caches, queued, local, history, counted, faults,
          defChanges>>

-----------------------------------------------------------------------------
(* The TaskRun's steps and their statuses.                                 *)

Index     == 1..Len(spec.steps)
Step(i)   == spec.steps[i]
Stored    == trLog[Len(trLog)]
NewStatus == [phase |-> "", reason |-> "", steps |-> <<>>]
NoCopy    == [rv |-> 0, status |-> NewStatus]
UniqueNames == \A i, j \in Index : Step(i).name = Step(j).name => i = j

\* Statuses are found by name: entry p is the one a write for step i lands in.
IsEntryOf(p, i) ==
    /\ Step(p).name = Step(i).name
    /\ \A q \in 1..(p - 1) : Step(q).name # Step(i).name

\* One SetStepStatus for each step of S; new holds the status of each entry.
SetStepStatus(steps, S, new) ==
    [p \in Index |-> IF \E i \in S : IsEntryOf(p, i) THEN new[p] ELSE steps[p]]

PlainStatus(phase) == [phase |-> phase, outputs |-> FALSE, logs |-> "none"]

\* Mutated form: the entries are allocated and never filled in.
InitStepStatusesEmpty == [p \in Index |-> PlainStatus("")]

InitStepStatuses == [p \in Index |-> PlainStatus("Pending")]

MarkStepsRunning(steps, S) ==
    SetStepStatus(steps, S, [p \in Index |-> PlainStatus("Running")])

\* The whole entry is replaced, whatever logs it held.
MarkStepsSucceeded(steps, S, outputs) ==
    SetStepStatus(steps, S, [p \in Index |->
        [phase |-> "Succeeded", outputs |-> outputs[p], logs |-> "none"]])

\* Mutated form: the failure goes to the log and not to the status.
MarkStepsFailedForgotten(steps, S) == steps

MarkStepsFailed(steps, S) ==
    SetStepStatus(steps, S, [p \in Index |->
        [phase |-> "Failed", outputs |-> FALSE, logs |-> "error"]])

\* The logs of the containers in read, written into the steps' entries.
collectRunnerLogs(steps, read) ==
    [p \in Index |-> IF \E i \in read : IsEntryOf(p, i)
                     THEN [steps[p] EXCEPT !.logs = "container"]
                     ELSE steps[p]]

\* The collector reports by step name; nothing when its log cannot be read.
collectRunnerOutputs(S, collected) ==
    [p \in Index |-> /\ collected
                     /\ \E i \in S : /\ Step(i).name = Step(p).name
                                     /\ Step(i).action \in Producing]

\* Mutated form: an unresolved reference is left in the text.
ResolveTemplatesLenient(i, steps) == TRUE

ResolveTemplates(i, steps) ==
    \A n \in Step(i).refs : \E p \in Index : Step(p).name = n /\ steps[p].outputs

-----------------------------------------------------------------------------
(* Definitions, validation and partitioning.                               *)

ResolveIn(d, a) ==
    IF d["namespace"][a].kind # "absent" THEN d["namespace"][a] ELSE d["cluster"][a]

ResolveAll == \A i \in Index : ResolveIn(defs, Step(i).action).kind # "absent"

ValidateStepParams ==
    \A i \in Index : Step(i).params \in ResolveIn(defs, Step(i).action).accepts

RunnerSteps(d) == {i \in Index : ResolveIn(d, Step(i).action).kind = "runner"}

\* Mutated form: the ordering check is dropped.
ValidateStepOrderingDropped(S) == TRUE

ValidateStepOrdering(S) == \A i \in S : \A j \in Index : j < i => j \in S

\* The admission webhook accepts every TaskRun.
ValidateCreate(s) == TRUE

\* Mutated form: the loop over the runner steps returns after the first.
ParamsDataFirst(S) ==
    {<<Step(i).name, Step(i).params>> : i \in {k \in S : \A j \in S : k <= j}}

\* The params ConfigMap: one key per step name, the last step of a name wins.
ParamsData(S) ==
    {<<Step(i).name, Step(i).params>> :
        i \in {k \in S : \A j \in S : Step(j).name = Step(k).name => j <= k}}

-----------------------------------------------------------------------------
(* Calls of the API server and the ends of a reconcile.                    *)

Fault == faults < MaxFaults /\ faults' = faults + 1

\* Mutated form: the write carries no resourceVersion.
ConflictIgnored == FALSE

\* Status().Update: refused unless based on the latest version; a write that
\* changes nothing makes no new version.  An error may hide a write that
\* took effect.
Conflict == copy.rv # Len(trLog)

Store(new) == trLog' = IF new = Stored THEN trLog ELSE Append(trLog, new)
UpdateOk(new) == ~Conflict /\ Store(new) /\ UNCHANGED faults
UpdateError(new) ==
    \/ Conflict /\ UNCHANGED <<trLog, faults>>
    \/ ~Conflict /\ Fault /\ (UNCHANGED trLog \/ Store(new))

\* Reconcile returns; an error or a RequeueAfter puts the TaskRun back.
Return(requeue) ==
    /\ pc' = "idle"
    /\ copy' = NoCopy
    /\ runner' = {}
    /\ todo' = {}
    /\ queued' = (queued \/ requeue)

\* On the way to MarkFailed, with the step statuses set so far.
Fail(steps, reason) ==
    /\ pc' = "failing"
    /\ copy' = [copy EXCEPT !.status.steps = steps, !.status.reason = reason]
    /\ runner' = {}
    /\ todo' = {}
    /\ UNCHANGED queued

Bump(n)      == IF n < MaxCount THEN n + 1 ELSE n
IsNext(i, S) == i \in S /\ \A j \in S : i <= j

-----------------------------------------------------------------------------
(* Reconcile: fetch, resolve, validate, start.                             *)

SkipTerminal ==
    /\ pc = "idle" /\ queued
    /\ trLog[trSeen].phase \in Terminal
    /\ queued' = FALSE
    /\ UNCHANGED <<spec, defs, objects, caches, local, history, counted, faults,
                   defChanges>>

Fetch ==
    /\ pc = "idle" /\ queued
    /\ trLog[trSeen].phase \notin Terminal
    /\ queued' = FALSE
    /\ pc' = "fetched"
    /\ copy' = [rv |-> trSeen, status |-> trLog[trSeen]]
    /\ UNCHANGED <<spec, defs, objects, caches, runner, todo, history, counted,
                   faults, defChanges>>

\* A lookup that fails for any reason counts as an unresolvable action.
RejectResolution ==
    /\ pc = "fetched"
    /\ \/ ~ResolveAll /\ UNCHANGED faults
       \/ ResolveAll /\ Fault
    /\ Fail(copy.status.steps, "ResolutionFailed")
    /\ UNCHANGED <<spec, defs, objects, caches, history, counted, defChanges>>

RejectParams ==
    /\ pc = "fetched"
    /\ ResolveAll /\ ~ValidateStepParams
    /\ Fail(copy.status.steps, "ValidationFailed")
    /\ UNCHANGED <<spec, defs, objects, caches, history, counted, faults, defChanges>>

RejectOrdering ==
    /\ pc = "fetched"
    /\ ResolveAll /\ ValidateStepParams /\ ~ValidateStepOrdering(RunnerSteps(defs))
    /\ Fail(copy.status.steps, "InvalidStepOrdering")
    /\ UNCHANGED <<spec, defs, objects, caches, history, counted, faults, defChanges>>

Valid == /\ ResolveAll
         /\ ValidateStepParams
         /\ ValidateStepOrdering(RunnerSteps(defs))

\* Mutated form: every reconcile takes itself for the first.
FirstReconcileAlways == TRUE

FirstReconcile == copy.status.phase \in {"", "Pending"}

\* The first reconcile: Pending entries for the steps, phase Running.
Start ==
    /\ pc = "fetched" /\ Valid /\ FirstReconcile
    /\ LET new == [copy.status EXCEPT !.phase = "Running", !.steps = InitStepStatuses]
       IN  \/ /\ UpdateOk(new)
              /\ pc' = "route"
              /\ copy' = [rv |-> Len(trLog'), status |-> new]
              /\ runner' = RunnerSteps(defs)
              /\ UNCHANGED <<todo, queued>>
           \/ UpdateError(new) /\ Return(TRUE)
    /\ UNCHANGED <<spec, defs, job, pod, cmLog, cron, caches, history, counted,
                   defChanges>>

Resume ==
    /\ pc = "fetched" /\ Valid /\ ~FirstReconcile
    /\ pc' = "route"
    /\ runner' = RunnerSteps(defs)
    /\ UNCHANGED <<spec, defs, objects, caches, queued, copy, todo, history, counted,
                   faults, defChanges>>

-----------------------------------------------------------------------------
(* Phase 1: the runner Job or CronJob.                                     *)

\* Mutated form: the test for API-native steps is inverted.
NativeStepsNone == {}

\* The steps left for phase 2.
NativeSteps == Index \ runner

RouteNative ==
    /\ pc = "route" /\ runner = {}
    /\ pc' = "native"
    /\ todo' = NativeSteps
    /\ UNCHANGED <<spec, defs, objects, caches, queued, copy, runner, history, counted,
                   faults, defChanges>>

\* The CronJob is created once and never looked at again; no params ConfigMap.
\* One that the server refuses is tried again for ever.
reconcileCronJob ==
    LET accepted == ~cron /\ spec.admissible
    IN  /\ pc = "route" /\ runner # {} /\ spec.schedule
        /\ \/ cronSeen /\ UNCHANGED <<cron, faults>> /\ Return(FALSE)
           \/ ~cronSeen /\ accepted /\ cron' = TRUE /\ UNCHANGED faults /\ Return(FALSE)
           \/ ~cronSeen /\ ~accepted /\ UNCHANGED <<cron, faults>> /\ Return(TRUE)
           \/ /\ Fault /\ Return(TRUE)
              /\ UNCHANGED cron \/ (~cronSeen /\ accepted /\ cron' = TRUE)
        /\ UNCHANGED <<spec, defs, trLog, job, pod, cmLog, caches, history, counted,
                       defChanges>>

AtJob == pc = "route" /\ runner # {} /\ ~spec.schedule

JobNotFound ==
    /\ AtJob /\ jobSeen = "none"
    /\ pc' = "params"
    /\ UNCHANGED <<spec, defs, objects, caches, queued, copy, runner, todo, history,
                   counted, faults, defChanges>>

JobLookupError ==
    /\ AtJob /\ Fault
    /\ Return(TRUE)
    /\ UNCHANGED <<spec, defs, objects, caches, history, counted, defChanges>>

\* Create when the cache holds no ConfigMap, else Update of the cached version.
ensureParamsConfigMap ==
    LET data == ParamsData(runner)
        wrote == cmLog' = IF cmSeen > 0 /\ cmLog[cmSeen] = data
                          THEN cmLog ELSE Append(cmLog, data)
        current == cmSeen = Len(cmLog)
    IN  /\ pc = "params"
        /\ \/ /\ current /\ wrote
              /\ pc' = "create"
              /\ UNCHANGED <<copy, runner, todo, queued, faults>>
           \/ /\ \/ ~current /\ UNCHANGED <<cmLog, faults>>
                 \/ current /\ Fault /\ (UNCHANGED cmLog \/ wrote)
              /\ Fail(copy.status.steps, "ParamsConfigMapFailed")
        /\ UNCHANGED <<spec, defs, trLog, job, pod, cron, caches, history, counted,
                       defChanges>>

\* Mutated form: every Job gets a generated name.
JobNameFreeAlways == TRUE

\* The Job's name is fixed, so the server holds at most one.
JobNameFree == job = "none"

\* The TaskRun is put back also when the server refuses the Job for good.
CreateJob ==
    LET accepted == JobNameFree /\ spec.admissible
        created == job' = "active" /\ pod' = runner
    IN  /\ pc = "create"
        /\ \/ /\ accepted /\ created
              /\ pc' = "mark"
              /\ UNCHANGED <<copy, runner, todo, queued, faults>>
           \/ /\ ~accepted /\ UNCHANGED <<job, pod, faults>>
              /\ Return(TRUE)
           \/ /\ accepted /\ Fault /\ (UNCHANGED <<job, pod>> \/ created)
              /\ Return(TRUE)
        /\ UNCHANGED <<spec, defs, trLog, cmLog, cron, caches, history, counted,
                       defChanges>>

\* Requeued whether or not the write succeeds.
MarkRunnersRunning ==
    /\ pc = "mark"
    /\ LET new == [copy.status EXCEPT !.steps = MarkStepsRunning(@, runner)]
       IN  UpdateOk(new) \/ UpdateError(new)
    /\ Return(TRUE)
    /\ UNCHANGED <<spec, defs, job, pod, cmLog, cron, caches, history, counted,
                   defChanges>>

JobActive ==
    /\ AtJob /\ jobSeen = "active"
    /\ Return(TRUE)
    /\ UNCHANGED <<spec, defs, objects, caches, history, counted, faults, defChanges>>

\* Mutated form: a Job that exists is taken for a Job that is done.
JobCompleteOnceSeen == jobSeen # "none"

JobComplete == jobSeen = "succeeded"

\* The runner containers whose logs can be read.
LogReads == IF LogsMayFail THEN SUBSET runner ELSE {runner}

JobSucceeded ==
    /\ AtJob /\ JobComplete
    /\ \E read \in LogReads, collected \in {~LogsMayFail, TRUE} :
           copy' = [copy EXCEPT !.status.steps =
                       MarkStepsSucceeded(collectRunnerLogs(@, read), runner,
                                          collectRunnerOutputs(runner, collected))]
    /\ pc' = "native"
    /\ todo' = NativeSteps
    /\ UNCHANGED <<spec, defs, objects, caches, queued, runner, history, counted,
                   faults, defChanges>>

JobFailed ==
    /\ AtJob /\ jobSeen = "failed"
    /\ \E read \in LogReads :
           Fail(MarkStepsFailed(collectRunnerLogs(copy.status.steps, read), runner),
                "RunnerFailed")
    /\ UNCHANGED <<spec, defs, objects, caches, history, counted, faults, defChanges>>

-----------------------------------------------------------------------------
(* Phase 2: the API-native steps, and the terminal status.                 *)

\* What the step did is seen from outside before its status is stored.
BeginStep(i) ==
    /\ pc = "native" /\ IsNext(i, todo)
    /\ ResolveTemplates(i, copy.status.steps)
    /\ pc' = "executing"
    /\ copy' = [copy EXCEPT !.status.steps = MarkStepsRunning(@, {i})]
    /\ started' = [started EXCEPT ![i] = Bump(@)]
    /\ UNCHANGED <<spec, defs, objects, caches, queued, runner, todo, done, counted,
                   faults, defChanges>>

TemplateError(i) ==
    /\ pc = "native" /\ IsNext(i, todo)
    /\ ~ResolveTemplates(i, copy.status.steps)
    /\ Fail(MarkStepsFailed(copy.status.steps, {i}), "StepFailed")
    /\ UNCHANGED <<spec, defs, objects, caches, history, counted, faults, defChanges>>

StepSucceeds(i) ==
    /\ pc = "executing" /\ IsNext(i, todo)
    /\ pc' = "native"
    /\ copy' = [copy EXCEPT !.status.steps =
                   MarkStepsSucceeded(@, {i}, [p \in Index |-> Step(i).action \in Producing])]
    /\ todo' = todo \ {i}
    /\ done' = done \union {i}
    /\ UNCHANGED <<spec, defs, objects, caches, queued, runner, started, counted,
                   faults, defChanges>>

StepErrs(i) ==
    /\ pc = "executing" /\ IsNext(i, todo)
    /\ Fail(MarkStepsFailed(copy.status.steps, {i}), "StepFailed")
    /\ UNCHANGED <<spec, defs, objects, caches, history, counted, faults, defChanges>>

\* Mutated form: the error of the status write is dropped.
SetTerminalOnce(new) ==
    /\ counted' = [counted EXCEPT !.total = Bump(@)]
    /\ UpdateOk(new) \/ UpdateError(new)
    /\ Return(FALSE)
    /\ UNCHANGED <<spec, defs, job, pod, cmLog, cron, caches, history, defChanges>>

\* Mutated form: counted once the write is known to have been accepted.
SetTerminalCountedAfter(new) ==
    /\ \/ UpdateOk(new) /\ Return(FALSE) /\ counted' = [counted EXCEPT !.total = Bump(@)]
       \/ UpdateError(new) /\ Return(TRUE) /\ UNCHANGED counted
    /\ UNCHANGED <<spec, defs, job, pod, cmLog, cron, caches, history, defChanges>>

\* A terminal phase: counted first, then written; an error is retried.
SetTerminal(new) ==
    /\ counted' = [counted EXCEPT !.total = Bump(@)]
    /\ \/ UpdateOk(new) /\ Return(FALSE)
       \/ UpdateError(new) /\ Return(TRUE)
    /\ UNCHANGED <<spec, defs, job, pod, cmLog, cron, caches, history, defChanges>>

MarkSucceeded ==
    /\ pc = "native" /\ todo = {}
    /\ SetTerminal([copy.status EXCEPT !.phase = "Succeeded",
                                       !.reason = "AllStepsSucceeded"])

MarkFailed ==
    /\ pc = "failing"
    /\ SetTerminal([copy.status EXCEPT !.phase = "Failed"])

-----------------------------------------------------------------------------
(* The cluster: informers, the Job's pod, people who edit definitions, and *)
(* the controller process.                                                 *)

SyncTaskRun ==
    /\ trSeen < Len(trLog)
    /\ trSeen' = trSeen + 1
    /\ queued' = TRUE
    /\ UNCHANGED <<spec, defs, objects, jobSeen, cmSeen, cronSeen, local, history,
                   counted, faults, defChanges>>

SyncJob ==
    /\ jobSeen # job
    /\ jobSeen' = IF jobSeen = "none" THEN "active" ELSE job
    /\ queued' = TRUE
    /\ UNCHANGED <<spec, defs, objects, trSeen, cmSeen, cronSeen, local, history,
                   counted, faults, defChanges>>

\* Every change of the CronJob's status, at each firing, queues the TaskRun.
SyncCronJob ==
    /\ cron
    /\ cronSeen' = TRUE
    /\ queued' = TRUE
    /\ UNCHANGED <<spec, defs, objects, trSeen, jobSeen, cmSeen, local, history,
                   counted, faults, defChanges>>

\* ConfigMaps are cached but not watched for: no reconcile follows.
SyncConfigMap ==
    /\ cmSeen < Len(cmLog)
    /\ cmSeen' = cmSeen + 1
    /\ UNCHANGED <<spec, defs, objects, trSeen, jobSeen, cronSeen, queued, local,
                   history, counted, faults, defChanges>>

\* The next init container can start: the ConfigMap is mounted and has its file.
CanStart(i) ==
    /\ job = "active" /\ IsNext(i, pod)
    /\ cmLog # <<>> /\ \E kv \in cmLog[Len(cmLog)] : kv[1] = Step(i).name

RunContainer(i) ==
    /\ CanStart(i)
    /\ pod' = pod \ {i}
    /\ started' = [started EXCEPT ![i] = Bump(@)]
    /\ done' = done \union {i}
    /\ UNCHANGED <<spec, defs, trLog, job, cmLog, cron, caches, queued, local, counted,
                   faults, defChanges>>

PodSucceeds ==
    /\ job = "active" /\ pod = {}
    /\ job' = "succeeded"
    /\ UNCHANGED <<spec, defs, trLog, pod, cmLog, cron, caches, queued, local, history,
                   counted, faults, defChanges>>

\* A container fails or the pod is lost; no retry (backoffLimit 0, restart Never).
PodFails ==
    /\ job = "active"
    /\ job' = "failed"
    /\ pod' = {}
    /\ \/ UNCHANGED started
       \/ \E i \in pod : CanStart(i) /\ started' = [started EXCEPT ![i] = Bump(@)]
    /\ UNCHANGED <<spec, defs, trLog, cmLog, cron, caches, queued, local, done, counted,
                   faults, defChanges>>

ChangeDefinition ==
    /\ defChanges < MaxDefChanges
    /\ \E s \in Scopes, a \in Actions, d \in Definitions :
           /\ d # defs[s][a]
           /\ defs' = [defs EXCEPT ![s][a] = d]
    /\ defChanges' = defChanges + 1
    /\ UNCHANGED <<spec, objects, caches, queued, local, history, counted, faults>>

\* The process dies and a new one lists every object, possibly an old version
\* (lists are served from the API server's watch cache), and queues the TaskRun.
\* Metrics live in the process and start again at zero.
Crash ==
    /\ Fault
    /\ trSeen' \in 1..Len(trLog)
    /\ jobSeen' \in {"none", job} \union (IF job = "none" THEN {} ELSE {"active"})
    /\ cmSeen' \in 0..Len(cmLog)
    /\ cronSeen' \in {FALSE, cron}
    /\ pc' = "idle" /\ copy' = NoCopy /\ runner' = {} /\ todo' = {}
    /\ queued' = TRUE
    /\ counted' = [since |-> Len(trLog), total |-> 0]
    /\ UNCHANGED <<spec, defs, objects, history, defChanges>>

-----------------------------------------------------------------------------

Init ==
    /\ spec \in {s \in TaskRuns : ValidateCreate(s)}
    /\ defs \in InitialDefinitions
    /\ trLog = <<NewStatus>> /\ trSeen = 1
    /\ job = "none" /\ jobSeen = "none" /\ pod = {}
    /\ cmLog = <<>> /\ cmSeen = 0
    /\ cron = FALSE /\ cronSeen = FALSE
    /\ queued = TRUE
    /\ pc = "idle" /\ copy = NoCopy /\ runner = {} /\ todo = {}
    /\ started = [i \in Index |-> 0] /\ done = {}
    /\ counted = [since |-> 1, total |-> 0]
    /\ faults = 0 /\ defChanges = 0

\* The worker's next step.
Reconcile ==
    \/ SkipTerminal \/ Fetch
    \/ RejectResolution \/ RejectParams \/ RejectOrdering
    \/ Start \/ Resume
    \/ RouteNative \/ reconcileCronJob
    \/ JobNotFound \/ JobLookupError \/ ensureParamsConfigMap \/ CreateJob
    \/ MarkRunnersRunning \/ JobActive \/ JobSucceeded \/ JobFailed
    \/ \E i \in Index : BeginStep(i) \/ TemplateError(i) \/ StepSucceeds(i) \/ StepErrs(i)
    \/ MarkSucceeded \/ MarkFailed

\* The kubelet and the Job controller.
RunPod == PodSucceeds \/ PodFails \/ \E i \in Index : RunContainer(i)

Next ==
    \/ Reconcile
    \/ SyncTaskRun \/ SyncJob \/ SyncCronJob \/ SyncConfigMap
    \/ RunPod
    \/ ChangeDefinition \/ Crash

Spec == Init /\ [][Next]_vars

Fairness ==
    /\ WF_vars(Reconcile)
    /\ WF_vars(SyncTaskRun) /\ WF_vars(SyncJob)
    /\ WF_vars(SyncCronJob) /\ WF_vars(SyncConfigMap)
    /\ WF_vars(RunPod)

FairSpec == Spec /\ Fairness

-----------------------------------------------------------------------------
(* Properties.                                                             *)

StatusType ==
    [phase : Phases, reason : Reasons, steps : {<<>>} \union [Index -> StepStatus]]

\* Every variable has its type; versions and cached versions are in range,
\* the worker's locals belong to the step it is at.
TypeOK ==
    /\ spec \in TaskRuns
    /\ defs \in [Scopes -> [Actions -> Definition]]
    /\ trLog \in Seq(StatusType) /\ trSeen \in 1..Len(trLog)
    /\ job \in {"none", "active", "succeeded", "failed"}
    /\ jobSeen \in {"none", "active", "succeeded", "failed"}
    /\ pod \subseteq Index
    /\ cmLog \in Seq(SUBSET (Names \X Params)) /\ cmSeen \in 0..Len(cmLog)
    /\ cron \in BOOLEAN /\ cronSeen \in BOOLEAN /\ queued \in BOOLEAN
    /\ pc \in {"idle", "fetched", "route", "params", "create", "mark", "native",
               "executing", "failing"}
    /\ copy \in [rv : 0..Len(trLog), status : StatusType]
    /\ runner \subseteq Index /\ todo \subseteq Index
    /\ started \in [Index -> 0..MaxCount] /\ done \subseteq Index
    /\ counted \in [since : 1..Len(trLog), total : 0..MaxCount]
    /\ faults \in 0..MaxFaults /\ defChanges \in 0..MaxDefChanges

\* Nobody edited a definition since the TaskRun was applied.
NoDrift == defChanges = 0

Runners == RunnerSteps(defs)

\* Steps run in their declared order, whatever is stale, lost or retried: a
\* step is started only after every earlier one completed successfully.
DeclaredOrder ==
    NoDrift => \A i, j \in Index : j < i /\ started[i] > 0 => j \in done

\* No API-native step starts before the Job of the runner steps succeeded,
\* its collector included.
TwoPhases ==
    NoDrift /\ Runners # {}
        => \A i \in Index \ Runners : started[i] > 0 => job = "succeeded"

\* A runner container is started at most once, although the controller may
\* crash or lose the answer after creating the Job and creates it again.
RunnerAtMostOnce == NoDrift => \A i \in Runners : started[i] <= 1

\* What the status says happened did happen: a step recorded as Succeeded
\* completed, and in a Succeeded TaskRun every step did.
RecordedSuccess ==
    NoDrift =>
        /\ \A n \in 1..Len(trLog) : trLog[n].steps # <<>> =>
               \A p \in Index : trLog[n].steps[p].phase = "Succeeded" => p \in done
        /\ Stored.phase = "Succeeded" => done = Index

\* A failure is recorded where it happened: after a failed API-native step the
\* earlier steps are Succeeded and the later ones untouched; after a failed
\* Job the runner steps are Failed and the others untouched.
FailureLocated ==
    LET phase(p) == Stored.steps[p].phase
    IN  NoDrift /\ UniqueNames =>
            /\ Stored.reason = "StepFailed" =>
                   \E i \in Index \ Runners :
                       /\ phase(i) = "Failed"
                       /\ \A p \in Index : /\ p < i => phase(p) = "Succeeded"
                                           /\ p > i => phase(p) = "Pending"
            /\ Stored.reason = "RunnerFailed" =>
                   \A p \in Index : phase(p) = IF p \in Runners THEN "Failed" ELSE "Pending"

\* Every container still to run finds its own params in the ConfigMap.
ParamsDelivered ==
    NoDrift /\ UniqueNames /\ job = "active" =>
        \A i \in pod :
            cmLog # <<>> /\ <<Step(i).name, Step(i).params>> \in cmLog[Len(cmLog)]

\* An API-native step starts only with every template reference resolved to
\* the output of a step that completed before it.
TemplatesResolved ==
    NoDrift => \A i \in Index \ Runners : started[i] > 0 =>
        \A n \in Step(i).refs : \E j \in done : j < i /\ Step(j).name = n

\* The taskrun_total of a process holds every TaskRun that was finished since
\* the process started, also when it lost the answer to the write that finished
\* it and only ever sees the TaskRun as terminal again; counting twice is the
\* price.
CountedWhileAlive ==
    Stored.phase \in Terminal /\ trLog[counted.since].phase \notin Terminal
        => counted.total >= 1

\* A stored Succeeded or Failed status is never changed again, by any
\* reconcile, however old the copy it works on.
TerminalIsFinal == [][Stored.phase \in Terminal => trLog' = trLog]_vars

\* Every reconcile ends.  A TaskRun whose Job or CronJob the API server accepts
\* comes to rest in a terminal status, with no reconcile running or queued, or,
\* when it has a schedule, gets its CronJob, whose every firing queues it again.
Settles ==
    /\ []<>(pc = "idle")
    /\ spec.admissible =>
           \/ <>[](pc = "idle" /\ ~queued /\ Stored.phase \in Terminal)
           \/ spec.schedule /\ <>cron

\* The entries that writes by name can reach: the first of each name.
Entries == {p \in DOMAIN Stored.steps : IsEntryOf(p, p)}

Lifecycle == INSTANCE TaskRunLifecycle
    WITH phase <- Stored.phase,
         steps <- [p \in Entries |-> Stored.steps[p].phase]

\* The stored status moves as the lifecycle allows, even when definitions are
\* edited between reconciles: no step or phase goes back, a Succeeded TaskRun
\* has only Succeeded entries and a Failed one has another.
LifecycleSpec == Lifecycle!Spec
=============================================================================
