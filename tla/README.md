# TLA+ models of the TaskRun operator

A `TaskRun` is a Kubernetes custom resource: an ordered list of steps, some of
which run as init containers of one Job (*runner* steps) and the rest in the
controller process (*API-native* steps). This directory models the controller
that executes TaskRuns, model-checks it with TLC and proves its safety
properties with TLAPS.

```
tlc -workers 2 -config MCTaskRunController_safety.cfg MCTaskRunController
tlapm TaskRunControllerProofs.tla
```

## The system and its parts

| Part | Source | State it keeps | Operations |
|---|---|---|---|
| TaskRun reconciler | `internal/controller/taskrun_controller.go` | none between reconciles; works on a copy of the TaskRun | `Reconcile`, `reconcileJob`, `reconcileCronJob`, `executeAPINativeSteps*`, `executeOneStep`, `ensureParamsConfigMap`, `collectRunner*` |
| Status manager | `status.go` | `TaskRun.status` (phase, step entries, conditions), counters | `SetPhase`, `SetStepStatus`, `InitStepStatuses`, `MarkStep*`, `MarkFailed`, `MarkSucceeded` |
| Step resolver | `resolver.go` | a cache for one `ResolveAll` | `ResolveAll`, `resolve` |
| Validation | `validation.go` | none | `ValidateStepParams`, `ValidateStepOrdering` |
| Template engine | `template.go` | none | `ResolveTemplates` |
| Job builder | `jobbuilder.go` | none | `PartitionSteps`, `Build`, `BuildCronJob` |
| Step executor | `executor.go` | Secrets, ConfigMaps and workloads of the cluster | `secretUpdate`, `secretRead`, `rolloutRestart`, `configmapUpdate`, `wait`, `assert` |
| Webhook | `internal/webhook/v1alpha1` | none | `ValidateCreate`/`Update`/`Delete`, which accept everything |
| Metrics | `internal/metrics` | counters and histograms | incremented by the status manager |
| Manager | `cmd/main.go` | the lease, a queue of TaskRuns, one worker | start-up, leader election, shutdown on a signal |

How they interact: the workqueue hands a TaskRun to the single worker after a
watch event of the TaskRun, its Job or its CronJob, after an error, or after
the 5 s requeue. The worker reads through **informer caches**, one per kind,
each with its own lag, and writes to the API server, which refuses a write
based on an old version (`resourceVersion`) and a create of a name that is
taken. Everything a reconcile decides is decided from possibly old reads. The
Job's pod and the worker run concurrently; people edit StepDefinitions at any
time; the process may die anywhere, and what it had done stays done.

The hard behaviours are therefore stale reads, conflicts, lost answers,
crashes between two calls, repeated execution of steps, definitions that change
under a running TaskRun, a name that is used again while objects of its earlier
life are still there, a process told to stop in the middle of a step, and the
question whether a TaskRun always comes to an end. `PROJECT.json` lists them one by one, with the line where each bites.

What makes each part correct:

* reconciler: steps run in declared order and in two phases, runner containers
  at most once, a terminal status is final, every TaskRun that can be executed settles;
* status manager: the status tells what happened, a failure is located at its
  step, phases only move forward;
* resolver, validation, templates: nothing is started that was not resolved,
  validated and given the outputs it refers to;
  templates are replaced once and completely, or the step fails;
* builder: every container finds its own params, scheduled Jobs do not overlap
  unless that is wanted, everything a TaskRun owns goes when it goes;
* executor: no lost updates, success means stored, a read returns a real value;
* metrics: a process counts every TaskRun it finishes;
* manager: stopping or replacing a process fails no TaskRun and forgets none.

## Modules

| Module | What it is |
|---|---|
| `TaskRunController` | one TaskRun, its Job, CronJob and ConfigMap, the four caches, the worker's program counter, the pod, definition edits, faults and crashes; the properties |
| `TaskRunLifecycle` | abstract: what a client that watches a TaskRun may rely on |
| `TaskRunClaims` | statements of the README, comments and API docs that the code does not keep |
| `MCTaskRunController` | pipelines and definitions for TLC |
| `TaskRunControllerProofs` | theorems about `TaskRunController`: types, finality, order |
| `TaskRunStatusProofs` | theorem: `TaskRunController` implements `TaskRunLifecycle` |
| `TaskRunRecordProofs` | theorems about what is delivered to the pod and recorded in the status |
| `TaskRunOutcomeProofs` | theorems about templates and about where a failure is recorded |
| `TaskRunObjects` | one TaskRun name over several lives: Job, CronJob, ConfigMap and pods found by name and label, removed by owner; edits, deletions, scheduled Jobs |
| `MCTaskRunObjects` | specs for TLC |
| `TaskRunObjectsProofs` | theorems about `TaskRunObjects` |
| `ControllerManager` | several processes and several TaskRuns: start-up, leader election, signals, the queue and its one worker |
| `MCControllerManager` | two TaskRuns and two processes |
| `ControllerManagerProofs` | theorems about `ControllerManager` |
| `Template` | the template engine, token by token, and what it promises |
| `MCTemplate` | values made of pieces of references |
| `TemplateProofs` | theorems about `Template` |
| `StepExecutor` | the API-native steps as the API calls they make; its properties |
| `MCStepExecutor` | lists of steps for TLC |
| `StepExecutorProofs` | theorems about `StepExecutor` |

### TaskRunController

*State.* `trLog` is every stored version of the TaskRun's status and `trSeen`
the version in the cache; `cmLog`/`cmSeen` the same for the ConfigMap; `job`,
`jobSeen`, `cron`, `cronSeen` likewise for objects with few states. `copy` is
the `taskRun` variable of a reconcile with its `resourceVersion`, `runner` and
`todo` its partition. `started`, `done` are history variables; `counted` is
the metric `taskrun_total` of the process that runs, with the version of the
status at its start: the counter is in memory and `Crash` resets it.
`spec.admissible` tells whether the API server accepts the Job or CronJob built
from the spec: nobody checks that the schedule parses, or that names fit into
63 characters, before `Create` is called.

*Actions.* A reconcile is a sequence of actions cut at its API calls, because
that is where others interleave: `Fetch`/`SkipTerminal`, the three `Reject…`,
`Start`/`Resume`, `RouteNative`, `reconcileCronJob`, then for a Job
`JobNotFound`, `ensureParamsConfigMap`, `CreateJob`, `MarkRunnersRunning`,
`JobActive`, `JobSucceeded`, `JobFailed`, and for API-native steps `BeginStep`,
`StepSucceeds`, `StepErrs`, `TemplateError`; `MarkSucceeded` and `MarkFailed`
end it. `ensureParamsConfigMap` is one action: between its Get and its write
only the version check matters, and the action makes it. The three checks are
made at one instant; a definition edited between two lookups of one
`ResolveAll` is not distinguished from an edit before or after. Each call can
fail before or after taking effect (`Fault`). `Crash` drops the worker's state
and refills the caches with any version up to the latest. A create that is not
admissible is refused each time and requeued (`CreateJob`, `reconcileCronJob`).
`SyncCronJob` happens again and again, because every firing changes the CronJob's
status and `Owns` requeues the TaskRun. The cluster's actions are `Sync…`, `RunContainer`, `PodSucceeds`, `PodFails`,
`ChangeDefinition`.

*Data.* A step's params are one value, its schema the set of values it accepts,
its templates the set of step names they mention, its outputs one bit. Step
entries keep the lookup by name, so duplicate names behave as in the code.

### StepExecutor

The steps are cut between the Get and the write. An object is the list of its
versions, `seen` the cached one; a write is accepted when it is based on the
latest. `OtherWrites` is anybody else; `Rerun` is another reconcile executing
the list from its start, which the reconciler does after a crash, a lost
answer or a stale read (see the run `terminal`). `rolloutRestart` writes the
restart annotation in whole seconds.

### TaskRunObjects

To run a finished TaskRun again, a user deletes it and applies it again.
`tr.life` is the uid of the TaskRun that has the name; `jobs`, `cron`, `cm` and
`pods` carry the life or uid of their owner, which the controller never
compares: `jobName` finds the Job by name, `collectRunnerOutputs` any pod with
the label. `ghost` is a deleted TaskRun the cache still shows and `jobSeen` the
Job in the cache. `CollectGarbage` removes one object whose owner is gone, at
any time; pods go after their Job. `Fire` is the CronJob controller, with its
three policies; the CRD's default makes a policy that is left out `Forbid`. `Edit`, `Delete`, `Apply` and `RemoveJob` may come between any
two steps of a reconcile, `Abort` ends one anywhere. A reconcile is the one of
`TaskRunController` without what needs a single life: both kinds of steps are
there, and the API-native ones are one outcome. The caches lag behind deletions
only, not behind writes of a status or a spec: `TaskRunController` has those.

### ControllerManager

`mode` tells of each process whether it is down, waiting for the lease, active
or stopping. A stopping process is one whose context is cancelled: it may take
what is left in its queue, its waits end (`WaitCancelled`), every write it
tries fails (`Cancelled`), and the code for failed steps runs (`MarkFailed`)
without being able to store anything. `Exit` is the end of `main`,
`GracePeriodEnds` and `Kill` end a process wherever it is. The lease is not
released (the option is commented out in `main.go`); it runs out after its
holder has ended. `queue` is a set, so that nothing depends on the order the
library hands keys out; every write is an event for the TaskRun in all active
processes. The flag `--leader-elect` is chosen at the start.

Reads lag and calls fail here too: `past` is every earlier version of a status,
from which `Fetch` may read; `reconcileJob` may see an earlier state of the Job
and miss the ConfigMap (`Earlier`); a lookup, a create and a status write may
fail, the latter two before or after they took effect (`UpdateError`). A lookup
or a params ConfigMap that fails leads to `MarkFailed`, also when the cause is a
lagging cache. `failed` records who had such a failure in a process that was not
being stopped (`Blamed`). `MaxTroubles` bounds stops, deaths, lagging reads and
failed calls together.

### Template

Text is a sequence of tokens, a brace at a time, so that stray and doubled
braces behave as in the regular expression; a body the expression accepts is
one token. `NextParam`, `Literal`, `Match`, `EndOfValue` and `ReturnResolved`
are the loop over the params and `ReplaceAllStringFunc`. `Expansion` is the
reference: the spans of a value that match, all at once.

## Runs

Passing:

| Run | Instance | Shows |
|---|---|---|
| `safety` | 12 pipelines × 2 sets of definitions, 2 faults; 433,044 states | `TypeOK`, `DeclaredOrder`, `TwoPhases`, `RunnerAtMostOnce`, `RecordedSuccess`, `FailureLocated`, `ParamsDelivered`, `TemplatesResolved`, `CountedWhileAlive`, `TerminalIsFinal` |
| `drift` | 3 pipelines, 1 edit of a definition, 1 fault; 1,604,075 states | the stored status refines `TaskRunLifecycle` |
| `liveness` | 12 pipelines, 1 fault; 149,900 states | `Settles` |
| `executor_safety` | 8 lists, 1 other write, 1 rerun, 1 fault, 2 seconds; 195,399 states | `TypeOK`, `OthersKept`, `ReportedIsStored`, `ReadIsReal` |
| `lives` | one-shot, and scheduled with policy Forbid and Replace; 2 lives, 1 edit or removed Job, 3 Jobs and CronJobs; 934,389 states | `TypeOK`, `NoOverlap`, `FinalPerLife`, `Collected`, `PodsStart` |
| `manager` | 2 processes with and without leader election, 2 TaskRuns, 2 stops, deaths, lagging reads or failed calls with it and 1 without; 140,266 states | `TypeOK`, `FailsForCause`, `FinalStatus`, `AllServed`, `StopsPromptly` |
| `template` | all values of up to 4 of 9 pieces, 36 pairs of params; 67,742 states | `TypeOK`, `Substituted`, `MissingReported` |

`CHECK_DEADLOCK FALSE` everywhere: a settled TaskRun has nothing left to do.

*Bounds.* Three steps are the least with two runner steps and a later step that
uses an output, or one runner and two API-native steps, so that "a later
step", "the runner before" and "another native step" all differ. The pipelines
also contain a forward reference, a wrong order, bad params, an unknown action,
a duplicate name, two scheduled TaskRuns, a Job and a CronJob that are refused
for good. Two faults allow a crash during
the recovery from a lost answer. `MaxCount = 2` is enough to tell "more than
once". In `StepExecutor` two keys tell "the key written" from "another", and
one other write between a Get and an Update is what a lost update needs. In
`TaskRunObjects` two lives are what a mix-up needs, and a CronJob with two Jobs
what an overlap needs; the policy `Allow`, of which `NoOverlap` says nothing, is
left to the run `ownjob` (its states double the time and fire no other action).
In `ControllerManager` one TaskRun goes through a Job and an API-native step and
the other through a wait. With leader election two troubles are what a hand-over
to a process whose caches lag needs, or a stop and a failed call; without it both
processes work at once and meet each other's objects and versions without any
trouble, and one more is enough for each kind of it to happen on top. In
`Template` four pieces hold a reference with blanks on both sides between stray
braces, or several references next to each other.

*Fairness.* In `liveness`: weak fairness of the worker, of each informer and of
the pod. The workqueue hands out every queued key and errors are requeued with
a finite back-off; watches deliver; the Job controller brings a pod to an end.
A CronJob goes on firing and nothing is assumed of when it stops: `Settles` asks
of a scheduled TaskRun only that it gets its CronJob, and of one that is not
`admissible` only that its reconciles end. Status writes are refused for a
conflict, a fault or a stop, never for good.
A runner container that hangs for ever is thereby excluded: nothing in the
controller would end it (no deadline is set on the Job). The same goes for
edits: no fairness for `ChangeDefinition`, `Crash` and faults. In `lives`: the
worker, the informers, the pods and the garbage collector; none for what users
do, for `Fire` and for `Abort`. In `manager`: each process is restarted and
goes on, an expired lease is taken, Jobs end. A wait ends by itself in a process
that is not stopping; in one that is, only cancellation is relied on, because a
wait may be longer than the grace period. The order of the queue is free.

Violations: what the repository says and the code does not do. Each run checks
one statement, `findings` in `PROJECT.json` quotes it.

| Run | Statement | What happens |
|---|---|---|
| `terminal` | terminal TaskRuns are skipped | a stale read executes the steps of a finished TaskRun again |
| `params` | the ConfigMap is created or updated | lagging caches turn a healthy TaskRun into `ParamsConfigMapFailed` |
| `allran` | `AllStepsSucceeded` | a definition edited under a running Job moves a step to the phase that is over: it never runs |
| `cronparams` | params ConfigMap before the Job or CronJob | the CronJob path writes none |
| `ownjob` | a TaskRun generates a Job; outputs come from the pod owned by the Job | applied again too soon, a TaskRun succeeds with the outputs of its earlier life and runs nothing |

Other disagreements that reading the code shows:

* `taskrun_total` is said to count executions and counts a TaskRun again at
  each retry of its last status write; the count is lost with the process;
* a Job or CronJob that the API server refuses for good, say for a schedule that
  does not parse or a step name that is too long for a container, is created
  again for ever: the TaskRun stays `Running` and never fails;
* a lookup of a definition that fails for a moment fails the TaskRun for good
  (`ResolutionFailed`), also while its Job runs;
* the logs `collectRunnerLogs` puts into a step's entry are overwritten by
  `MarkStepSucceeded` or `MarkStepFailed` before anything is stored;
* `secret-update` is said to create or patch, and the second one of a TaskRun
  on one Secret fails when the cache has not caught up with the first;
* a CronJob is never updated or removed when the TaskRun's spec is edited, and
  an edit while the Job runs does not reach the Job;
* API-native steps of a scheduled TaskRun with runner steps never run, although
  a comment in `reconcileCronJob` says its Jobs are reconciled;
* a params ConfigMap left from an earlier life is updated but keeps its owner;
  once it is collected, the pod of the new life waits for its volume for ever
  (`PodsStart` is about TaskRuns that begin without leftovers);
* without `--leader-elect`, which is off unless the chart's arguments are used,
  two processes can fail a TaskRun between them: the second one to create the
  params ConfigMap marks it `ParamsConfigMapFailed`;
* `StepSpec.outputs` and `onFailure.retries` are read nowhere.

Further: the webhook accepts every TaskRun although params are said to
be validated when applied; step names are said to be unique and are not
checked, so two runner steps of one name share a params file; the params of
runner steps go into the ConfigMap without `ResolveTemplates`; a scheduled
TaskRun of API-native steps only runs once, at once, and gets no CronJob; a
second `rollout-restart` within one second changes nothing and succeeds; the
README's `deploy-and-notify` example declares a runner step after an API-native
one, which `ValidateStepOrdering` rejects.

## Theorems

Proved by TLAPS for every value of the constants, under the named assumptions
of the modules (specs and definitions are well-formed, a TaskRun has a step,
bounds are naturals).

Every invariant and action property that a passing run checks is also proved,
and so is the refinement; only liveness is left to TLC. The invariants below
were checked by TLC on the instances of the runs before they were proved.

`TaskRunControllerProofs`:

* `TypeCorrect` (`TypeOK`) and `Finality` (`TerminalIsFinal`). Inductive
  invariant `IndInv`: the types, *StepsPresent* (a Running status has an entry
  per step; needed for the entries to be writable) and *CopyOpen* (the version
  a reconcile works on was not terminal). Finality follows: a write based on
  the latest version is then based on one that is not terminal.
* `Counting` (`CountedWhileAlive`): only the step that counts a TaskRun makes
  its status terminal, and it counts before it writes. So a process whose first
  version of the status was not terminal has counted it once it is terminal; a
  process that starts later begins with a terminal version and at zero.
* `Order`, `Phasing`, `ExactlyOneJob` (`DeclaredOrder`, `TwoPhases`,
  `RunnerAtMostOnce`), from `OrderInv`: while nobody edits a definition the
  reconcile's partition is that of the definitions and passed the ordering
  check (*RunnerKnown*), containers no longer in the pod are done
  (*PodProgress*), steps behind the worker are done and the Job has succeeded
  (*NativeProgress*), containers still in the pod have not been started
  (*Unstarted*). None of the three properties is inductive alone: order in
  phase 2 rests on what the Job did in phase 1, seen through a cache.

`TaskRunStatusProofs`: `Implements` (`LifecycleSpec`), for any edits of
definitions. The refinement mapping takes the stored status to what a client
sees; all steps but `Start`, `MarkRunnersRunning`, `MarkSucceeded` and
`MarkFailed` stutter, and these stutter when their write is refused.
`StatusInv`: no stored status of a TaskRun that is not finished has a finished
step (*StoredOpen*), the copy is the version it was read from until a step is
marked (*Based*) and afterwards only ahead of it (*Advanced*), the steps behind
the worker are Succeeded (*Passed*), and a TaskRun about to fail has an entry
that did not succeed (*Blamed*). *Passed* and *Blamed* make an exception for an
entry that a later step of the same name took over, because names are not
checked to be unique.

`TaskRunRecordProofs`, from `IndInv`, `StatusInv` and `OrderInv` together:

* `Delivery` (`ParamsDelivered`): every version of the ConfigMap holds the
  params of the runner steps, and there is one before there is a Job.
* `Record` (`RecordedSuccess`): the steps that the copy and each stored version
  call Succeeded are done. The copy matters: it is where the claim is made
  first, and its write may come after a crash elsewhere.

`TaskRunOutcomeProofs`, from the same:

* `Templates` (`TemplatesResolved`): in phase 2 an output in the copy is the
  output of a step behind the worker, and those are the earlier steps.
* `Location` (`FailureLocated`): while a TaskRun is Running its API-native
  entries are stored as Pending, since phase 2 happens within one reconcile;
  between two steps (*BetweenSteps*) and in one (*InStep*) the copy tells the
  steps behind the worker from those ahead.

`StepExecutorProofs`:

* `ExecutorTypeCorrect`, `NoLostUpdate` (`OthersKept`): what is about to be
  written is the version that was read with one key set (*WriteBased*), and a
  write is accepted only on top of that version.
* `ReadsAreReal` (`ReadIsReal`): versions are only ever added, and a step whose
  write or sleep is under way is not a read.
* `ReportsAreStored` (`ReportedIsStored`), from `ReportInv`: what is about to be
  written has the step's value in its key and the version read in the others
  (*Ready*); each step behind the worker holds on the server unless a later
  step behind the worker sets the same key or somebody else wrote the object
  (*Stored*). *Stored* is claimed only while the list has not failed: a write
  that is stored although its answer is lost breaks it, and then nothing is
  reported.

`ControllerManagerProofs`, for any number of processes and TaskRuns:

* `Typing` (`TypeOK`) and `Final` (`FinalStatus`): a process that works on a
  TaskRun read a status that was not terminal, and a write based on an older
  version is refused.
* `Cause` (`FailsForCause`), from `CauseInv`: a process that is not being stopped
  is at `MarkFailed` only after a step, the Job, the params ConfigMap or a lookup
  of the TaskRun failed in a process that was not being stopped (*Blame*,
  *JobBlame*); one that is being stopped gets there in the middle of a wait, too,
  but cannot store anything. The theorem does not say that a step failed: the
  params ConfigMap can fail a healthy TaskRun (run `params`), with one process
  because of its cache, with two because of each other.

`TaskRunObjectsProofs`, for any number of lives, edits, Jobs and CronJobs, from
`ObjInv`:

* `Typing` (`TypeOK`), with at most one Job of the fixed name (*OneJob*).
* `FinalLife` (`FinalPerLife`): a write is accepted only for the life and the
  spec that were read, which were not terminal (*CopyOpen*); the first result of
  a life is covered as well as the last.
* `Overlap` (`NoOverlap`): in a life that began without leftovers and was left
  alone the reconcile works on the spec that is there (*Own*), so the CronJob
  has its policy, and uids are never used twice, so that the Jobs that count
  are its own (*Uids*, *Alone*).

`TemplateProofs`, for texts and outputs of any length: `EngineTypeCorrect`
(`TypeOK`), `Replacement` (`Substituted`), `Reporting` (`MissingReported`). Two
references never overlap and none has two ends (`Disjoint`, `OneEnd`), so the
scan stands before, at, or behind each of them. Up to its position, the text it
has built is the flattening of the pieces of the reference definition
(`Prefix`), and what it has noted are the references without an output, each
at its rank (`Noted`). That the recursion in `FlattenSeq` defines a function,
and what it returns after each piece, is proved first, by the induction
principle `NatSet`: a set of natural numbers with 0 and all successors is all of
them, from the least member of its complement.

Only model-checked: liveness (`Settles`, `Collected`, `PodsStart`, `AllServed`,
`StopsPromptly`), because fairness and `ENABLED` are beyond the prover.

## Not modelled

Timestamps, durations, messages, step metrics; images and the auth container;
addresses, certificates and probes of the manager; generated code and
manifests; `JobBuildFailed`/`CronJobBuildFailed`, which need an owner reference
that cannot be set. The RBAC rules grant the controller no list or watch on
Secrets, ConfigMaps and workloads, which its cached client needs; the models
assume the caches work. The library's resync every ten hours is left out, so
that no liveness property can rest on it.

Left to do:

1. The invariants that the liveness arguments rest on (a TaskRun that is not
   finished always has an enabled step of the worker, the pod or an informer)
   as theorems, with only the fairness left to TLC.
2. The params ConfigMap over several lives: `PodsStart` is checked for TaskRuns
   that begin without leftovers only, with any failing call.
