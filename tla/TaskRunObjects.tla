--------------------------- MODULE TaskRunObjects ---------------------------
(***************************************************************************)
(* One TaskRun name over its lives.  A finished TaskRun is never run       *)
(* again, so to repeat it a user deletes it and applies it once more,      *)
(* under the same name and a new uid (here: its life).  The controller     *)
(* finds the runner Job, the CronJob and the params ConfigMap by NAME and  *)
(* the pods by LABEL, and looks at no owner; the garbage collector removes *)
(* by OWNER, in the background.  This module is about what the two make of *)
(* each other, and of edits of the spec and removed Jobs.                  *)
(*                                                                         *)
(* Also here: scheduled TaskRuns, whose CronJob starts Jobs of its own     *)
(* that carry the same label.                                              *)
(*                                                                         *)
(* Simplifications (TaskRunController has the detail):                     *)
(*   - every spec resolves, validates and has both kinds of steps; step    *)
(*     entries are left out, the API-native steps are one outcome;         *)
(*   - the caches of the TaskRun and of the Job lag behind deletions, and  *)
(*     the Job's behind everything; a lagging read of any other object can *)
(*     only make the call that follows fail, so it is covered by Abort or  *)
(*     by a failed outcome;                                                *)
(*   - the queue is left out: the worker may look at the TaskRun whenever  *)
(*     it is idle.                                                         *)
(***************************************************************************)
EXTENDS Integers, FiniteSets

CONSTANTS
    Specs,        \* what a user may apply: schedule, concurrencyPolicy
    MaxLives,     \* times the TaskRun is applied
    MaxMeddling,  \* edits of its spec, and Jobs removed by somebody else
    MaxMade       \* Jobs and CronJobs made in one behaviour

Policies == {"Allow", "Forbid", "Replace"}
Terminal == {"Succeeded", "Failed"}
NoSpec   == [schedule |-> FALSE, policy |-> "Forbid"]

\* The API server fills in Forbid for a policy that is left out, and refuses
\* any other value.
ASSUME SpecsAssumption == Specs \subseteq [schedule : BOOLEAN, policy : Policies]
ASSUME BoundsAssumption ==
    /\ MaxLives \in Nat /\ MaxMeddling \in Nat /\ MaxMade \in Nat

VARIABLES
    tr,       \* the TaskRun on the server
    ghost,    \* the deleted TaskRun the cache still shows
    lives,    \* how often it has been applied
    clean,    \* history: this life began without leftovers and was left alone
    jobs,     \* the Jobs on the server
    jobSeen,  \* the state of the Job <name>-runner in the cache
    cron,     \* the CronJob <name>-runner
    cm,       \* the ConfigMap <name>-params
    pods,     \* the pods labelled with the TaskRun's name
    made,     \* Jobs and CronJobs made so far: the last uid
    pc,       \* where the worker is in Reconcile
    copy,     \* the reconcile's TaskRun
    meddling  \* edits and removed Jobs so far

taskrun == <<tr, lives, clean>>
owned   == <<jobs, cron, cm, pods, made>>
caches  == <<ghost, jobSeen>>
worker  == <<pc, copy>>
vars    == <<taskrun, owned, caches, worker, meddling>>

-----------------------------------------------------------------------------
(* The objects.  A life or uid of 0 stands for "not there"; an owner is a  *)
(* kind and a life or uid.                                                 *)

NoOwner   == <<"TaskRun", 0>>
NoTaskRun == [life |-> 0, spec |-> NoSpec, phase |-> "", outputs |-> NoOwner]
NoCron    == [uid |-> 0, owner |-> 0, policy |-> "Forbid"]
NoMap     == [there |-> FALSE, owner |-> 0]

Exists(o) == o # NoTaskRun

\* The Job whose name the controller uses; the Jobs of a CronJob have others.
jobName  == {j \in jobs : j.owner[1] = "TaskRun"}
JobState == IF jobName = {} THEN "none" ELSE (CHOOSE j \in jobName : TRUE).state

\* A new Job, and the pod the Job controller makes of its template.
Create(js, owner) ==
    /\ made < MaxMade
    /\ made' = made + 1
    /\ jobs' = js \union {[uid |-> made', owner |-> owner, state |-> "active"]}
    /\ pods' = pods \union {[job |-> made', owner |-> owner, state |-> "waiting"]}

-----------------------------------------------------------------------------
(* The user, and others with access to the namespace.                      *)

NothingLeft ==
    /\ jobs = {} /\ pods = {} /\ cron = NoCron /\ cm = NoMap
    /\ jobSeen = "none" /\ ghost = NoTaskRun /\ pc = "idle"

Apply ==
    /\ tr = NoTaskRun /\ lives < MaxLives
    /\ \E s \in Specs : tr' = [NoTaskRun EXCEPT !.life = lives + 1, !.spec = s]
    /\ lives' = lives + 1
    /\ clean' = NothingLeft
    /\ UNCHANGED <<owned, caches, worker, meddling>>

Edit ==
    /\ Exists(tr) /\ meddling < MaxMeddling
    /\ \E s \in Specs \ {tr.spec} : tr' = [tr EXCEPT !.spec = s]
    /\ meddling' = meddling + 1
    /\ clean' = FALSE
    /\ UNCHANGED <<lives, owned, caches, worker>>

\* Background deletion: the TaskRun is gone at once, what it owns is not.
Delete ==
    /\ Exists(tr)
    /\ tr' = NoTaskRun
    /\ ghost' = IF Exists(ghost) \/ tr.phase \in Terminal THEN ghost ELSE tr
    /\ UNCHANGED <<lives, clean, owned, jobSeen, worker, meddling>>

RemoveJob ==
    /\ meddling < MaxMeddling
    /\ \E j \in jobs : jobs' = jobs \ {j}
    /\ meddling' = meddling + 1
    /\ clean' = FALSE
    /\ UNCHANGED <<tr, lives, cron, cm, pods, made, caches, worker>>

-----------------------------------------------------------------------------
(* Reconcile.                                                              *)

Return == pc' = "idle" /\ copy' = NoTaskRun

\* Mutated form: the write is addressed by name alone.
ConflictByName == tr = NoTaskRun

\* A status write is refused unless the TaskRun is as it was read.
Conflict == [copy EXCEPT !.outputs = NoOwner] # tr

Update(phase) ==
    \/ /\ ~Conflict
       /\ tr' = [tr EXCEPT !.phase = phase, !.outputs = copy.outputs]
    \/ Conflict /\ UNCHANGED tr

Cached == IF Exists(ghost) THEN ghost ELSE tr

\* A TaskRun that is not there or already terminal is left alone.
Fetch ==
    /\ pc = "idle" /\ Exists(Cached) /\ Cached.phase \notin Terminal
    /\ copy' = Cached
    /\ pc' = IF Cached.phase = "" THEN "start" ELSE "route"
    /\ UNCHANGED <<taskrun, owned, caches, meddling>>

Start ==
    /\ pc = "start"
    /\ \/ /\ ~Conflict /\ Update("Running")
          /\ copy' = [copy EXCEPT !.phase = "Running"]
          /\ pc' = "route"
       \/ Conflict /\ Return /\ UNCHANGED tr
    /\ UNCHANGED <<lives, clean, owned, caches, meddling>>

\* Mutated form: the default branch is the default of a CronJob.
mapConcurrencyPolicyAllow(p) == IF p = "Replace" THEN p ELSE "Allow"

mapConcurrencyPolicy(p) == IF p \in {"Allow", "Replace"} THEN p ELSE "Forbid"

\* Created once; an existing CronJob is neither compared nor updated, and the
\* Jobs it starts are not looked at.
reconcileCronJob ==
    /\ pc = "route" /\ copy.spec.schedule
    /\ \/ /\ cron = NoCron /\ made < MaxMade
          /\ made' = made + 1
          /\ cron' = [uid |-> made', owner |-> copy.life,
                      policy |-> mapConcurrencyPolicy(copy.spec.policy)]
       \/ cron # NoCron /\ UNCHANGED <<cron, made>>
    /\ Return
    /\ UNCHANGED <<taskrun, jobs, cm, pods, caches, meddling>>

AtJob == pc = "route" /\ ~copy.spec.schedule

\* Whatever Job has the name is taken for this TaskRun's.
JobNotFound ==
    /\ AtJob /\ jobSeen = "none"
    /\ pc' = "params"
    /\ UNCHANGED <<taskrun, owned, caches, copy, meddling>>

JobActive ==
    /\ AtJob /\ jobSeen = "active"
    /\ Return
    /\ UNCHANGED <<taskrun, owned, caches, meddling>>

JobFailed ==
    /\ AtJob /\ jobSeen = "failed"
    /\ pc' = "failing"
    /\ UNCHANGED <<taskrun, owned, caches, copy, meddling>>

\* The collector's log is read from the first pod with the label, in the order
\* of the list; there is none unless that pod got as far as its collector.
collectRunnerOutputs ==
    {p.owner : p \in {q \in pods : q.state = "succeeded"}} \union {NoOwner}

JobSucceeded ==
    /\ AtJob /\ jobSeen = "succeeded"
    /\ \E o \in collectRunnerOutputs : copy' = [copy EXCEPT !.outputs = o]
    /\ pc' = "native"
    /\ UNCHANGED <<taskrun, owned, caches, meddling>>

\* Mutated form: no owner reference is set.
ParamsOwnerNone == 0

ParamsOwner == copy.life

\* Mutated form: the error of the write is logged, and the Job made all the same.
ensureParamsConfigMapLogged ==
    /\ pc = "params"
    /\ \/ cm' = [there |-> TRUE, owner |-> IF cm.there THEN cm.owner ELSE ParamsOwner]
       \/ UNCHANGED cm
    /\ pc' = "create"
    /\ UNCHANGED <<taskrun, jobs, cron, pods, made, caches, copy, meddling>>

\* Created with an owner, or updated and left with the owner it has; the write
\* may be refused, and then fails the TaskRun.
ensureParamsConfigMap ==
    /\ pc = "params"
    /\ \/ /\ cm' = [there |-> TRUE, owner |-> IF cm.there THEN cm.owner ELSE ParamsOwner]
          /\ pc' = "create"
       \/ UNCHANGED cm /\ pc' = "failing"
    /\ UNCHANGED <<taskrun, jobs, cron, pods, made, caches, copy, meddling>>

\* Mutated form: the Job gets a generated name.
NameTakenNever == FALSE

NameTaken == jobName # {}

\* The steps are marked Running afterwards, and the TaskRun is requeued.
CreateJob ==
    /\ pc = "create"
    /\ \/ ~NameTaken /\ Create(jobs, <<"TaskRun", copy.life>>)
       \/ NameTaken /\ UNCHANGED <<jobs, pods, made>>
    /\ Return
    /\ UNCHANGED <<taskrun, cron, cm, caches, meddling>>

MarkSucceeded ==
    /\ pc = "native"
    /\ Update("Succeeded") /\ Return
    /\ UNCHANGED <<lives, clean, owned, caches, meddling>>

\* After a failed Job, a failed ConfigMap write or a failed API-native step.
MarkFailed ==
    /\ pc \in {"native", "failing"}
    /\ Update("Failed") /\ Return
    /\ UNCHANGED <<lives, clean, owned, caches, meddling>>

\* A call fails, or the process dies: whatever was written stays written.
Abort ==
    /\ pc # "idle"
    /\ Return
    /\ UNCHANGED <<taskrun, owned, caches, meddling>>

-----------------------------------------------------------------------------
(* The cluster: caches, pods, the CronJob controller and the garbage       *)
(* collector.                                                              *)

SyncTaskRun ==
    /\ Exists(ghost)
    /\ ghost' = NoTaskRun
    /\ UNCHANGED <<taskrun, owned, jobSeen, worker, meddling>>

SyncJob ==
    /\ jobSeen # JobState
    /\ jobSeen' = JobState
    /\ UNCHANGED <<taskrun, owned, ghost, worker, meddling>>

\* A pod mounts the ConfigMap before any container starts, and waits for it.
RunPod ==
    /\ cm.there
    /\ \E p \in pods, s \in {"succeeded", "failed"} :
           /\ p.state = "waiting"
           /\ pods' = (pods \ {p}) \union {[p EXCEPT !.state = s]}
           /\ jobs' = {IF j.uid = p.job THEN [j EXCEPT !.state = s] ELSE j : j \in jobs}
    /\ UNCHANGED <<taskrun, cron, cm, made, caches, worker, meddling>>

Scheduled == {j \in jobs : j.owner = <<"CronJob", cron.uid>> /\ j.state = "active"}

\* The schedule is due.  Replace deletes the Jobs that are active.
Fire ==
    /\ cron # NoCron
    /\ cron.policy = "Forbid" => Scheduled = {}
    /\ Create(IF cron.policy = "Replace" THEN jobs \ Scheduled ELSE jobs,
              <<"CronJob", cron.uid>>)
    /\ UNCHANGED <<taskrun, cron, cm, caches, worker, meddling>>

OwnerGone(owner) == owner \notin {<<"TaskRun", tr.life>>, <<"CronJob", cron.uid>>}

\* Whatever names an owner that is gone goes too; without an owner it stays.
CollectGarbage ==
    \/ /\ \E j \in jobs : OwnerGone(j.owner) /\ jobs' = jobs \ {j}
       /\ UNCHANGED <<taskrun, cron, cm, pods, made, caches, worker, meddling>>
    \/ /\ \E p \in pods : (\A j \in jobs : j.uid # p.job) /\ pods' = pods \ {p}
       /\ UNCHANGED <<taskrun, jobs, cron, cm, made, caches, worker, meddling>>
    \/ /\ cron # NoCron /\ OwnerGone(<<"TaskRun", cron.owner>>)
       /\ cron' = NoCron
       /\ UNCHANGED <<taskrun, jobs, cm, pods, made, caches, worker, meddling>>
    \/ /\ cm.owner # 0 /\ OwnerGone(<<"TaskRun", cm.owner>>)
       /\ cm' = NoMap
       /\ UNCHANGED <<taskrun, jobs, cron, pods, made, caches, worker, meddling>>

-----------------------------------------------------------------------------

Init ==
    /\ tr = NoTaskRun /\ ghost = NoTaskRun /\ lives = 0 /\ clean = TRUE
    /\ jobs = {} /\ jobSeen = "none" /\ cron = NoCron /\ cm = NoMap /\ pods = {}
    /\ made = 0
    /\ pc = "idle" /\ copy = NoTaskRun
    /\ meddling = 0

Reconcile ==
    \/ Fetch \/ Start \/ reconcileCronJob
    \/ JobNotFound \/ ensureParamsConfigMap \/ CreateJob
    \/ JobActive \/ JobSucceeded \/ JobFailed
    \/ MarkSucceeded \/ MarkFailed

Next ==
    \/ Apply \/ Edit \/ Delete \/ RemoveJob
    \/ Reconcile \/ Abort
    \/ SyncTaskRun \/ SyncJob
    \/ RunPod \/ Fire \/ CollectGarbage

Spec == Init /\ [][Next]_vars

Fairness ==
    /\ WF_vars(Reconcile) /\ WF_vars(SyncTaskRun) /\ WF_vars(SyncJob)
    /\ WF_vars(RunPod) /\ WF_vars(CollectGarbage)

FairSpec == Spec /\ Fairness

-----------------------------------------------------------------------------
(* Properties.                                                             *)

Owner   == {"TaskRun", "CronJob"} \X Nat
TaskRun == [life : 0..MaxLives, spec : Specs \union {NoSpec},
            phase : {"", "Running"} \union Terminal, outputs : Owner]
Job     == [uid : 0..MaxMade, owner : Owner, state : {"active", "succeeded", "failed"}]
Pod     == [job : 1..MaxMade, owner : Owner,
            state : {"waiting", "succeeded", "failed"}]

\* Every variable has its type, and the server holds one Job of the fixed name.
TypeOK ==
    /\ tr \in TaskRun /\ ghost \in TaskRun /\ copy \in TaskRun
    /\ lives \in 0..MaxLives /\ clean \in BOOLEAN
    /\ jobs \subseteq Job /\ jobSeen \in {"none", "active", "succeeded", "failed"}
    /\ Cardinality(jobName) <= 1
    /\ cron \in [uid : 0..MaxMade, owner : 0..MaxLives, policy : Policies]
    /\ cm \in [there : BOOLEAN, owner : Nat]
    /\ pods \subseteq Pod /\ made \in 0..MaxMade
    /\ pc \in {"idle", "start", "route", "params", "create", "native", "failing"}
    /\ meddling \in 0..MaxMeddling

\* The result a life ends with is the one it keeps; and whatever is written to
\* a life, its first result included, is written by a reconcile that read this
\* life with the spec it still has, never by one that began for an earlier life
\* or before an edit.
FinalPerLife ==
    [][Exists(tr) /\ tr'.life = tr.life
            /\ (tr'.phase # tr.phase \/ tr'.outputs # tr.outputs)
          => /\ tr.phase \notin Terminal
             /\ copy.life = tr.life /\ copy.spec = tr.spec]_vars

\* Unless its policy is Allow, a scheduled TaskRun that is left alone never has
\* two Jobs at once.
NoOverlap ==
    clean /\ Exists(tr) /\ tr.spec.policy # "Allow" => Cardinality(Scheduled) <= 1

\* Once a TaskRun is deleted for good, everything made for it disappears, also
\* what a reconcile under way at that time still creates.
Collected ==
    <>[](tr = NoTaskRun)
        => <>[](jobs = {} /\ pods = {} /\ cron = NoCron /\ cm = NoMap)

\* The pod of a TaskRun that began without leftovers does not wait for its
\* params for ever, whichever call of a reconcile failed.
PodsStart ==
    []<>~(/\ clean /\ Exists(tr) /\ ~tr.spec.schedule
          /\ \E p \in pods : p.state = "waiting")

\* A TaskRun without a schedule "generates a one-shot Kubernetes Job", and logs
\* and outputs come from "the pod owned by the Job": what a TaskRun succeeds
\* with was produced by a Job of its own.
OwnJobRan ==
    tr.phase = "Succeeded" => tr.outputs \in {NoOwner, <<"TaskRun", tr.life>>}
=============================================================================
