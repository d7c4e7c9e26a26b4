------------------------ MODULE TaskRunObjectsProofs ------------------------
(***************************************************************************)
(* Machine-checked proofs about TaskRunObjects, for all specs and bounds.  *)
(***************************************************************************)
EXTENDS TaskRunObjects, TLAPS, FiniteSetTheorems

-----------------------------------------------------------------------------
(* The inductive invariant.                                                *)

States == {"none", "active", "succeeded", "failed"}
Crons  == [uid : 0..MaxMade, owner : 0..MaxLives, policy : Policies]
Maps   == [there : BOOLEAN, owner : Nat]
Pcs    == {"idle", "start", "route", "params", "create", "native", "failing"}

\* What is true of every variable by itself.
Types ==
    /\ tr \in TaskRun /\ ghost \in TaskRun /\ copy \in TaskRun
    /\ lives \in 0..MaxLives /\ clean \in BOOLEAN
    /\ jobs \subseteq Job /\ jobSeen \in States
    /\ cron \in Crons /\ cm \in Maps
    /\ pods \subseteq Pod /\ made \in 0..MaxMade
    /\ pc \in Pcs /\ meddling \in 0..MaxMeddling

AtMostOne(S) == \A x, y \in S : x = y

\* The Job's name is fixed, so the server holds at most one.
OneJob == AtMostOne(jobName)

\* A TaskRun that is there, or that the cache shows, has been applied.
Applied == /\ Exists(tr) => tr.life >= 1
           /\ Exists(ghost) => ghost.life >= 1

\* A reconcile works on a TaskRun that was there and not terminal.
CopyOpen == pc # "idle" => copy.life >= 1 /\ copy.phase \notin Terminal

\* The uids of CronJobs are uids that have been given out.
Uids == /\ cron # NoCron => cron.uid \in 1..made
        /\ \A j \in jobs : j.owner[1] = "CronJob" => j.owner[2] \in 1..made

\* In a life that began without leftovers and was left alone, a reconcile reads
\* the TaskRun that is there.
Own == clean /\ Exists(tr) =>
           /\ ghost = NoTaskRun
           /\ pc # "idle" => copy.spec = tr.spec

\* The CronJob has the policy of the spec, and keeps it.
Alone == clean /\ Exists(tr) /\ tr.spec.policy # "Allow" =>
             /\ cron # NoCron => cron.policy # "Allow"
             /\ AtMostOne(Scheduled)

ObjInv == Types /\ OneJob /\ Applied /\ CopyOpen /\ Uids /\ Own /\ Alone
-----------------------------------------------------------------------------
(* What a step can do to the TaskRun and to the worker.                    *)

\* The values for nothing have their types.
LEMMA Constants ==
    /\ NoTaskRun \in TaskRun /\ NoOwner \in Owner /\ NoTaskRun.life = 0
    /\ NoTaskRun.phase = "" /\ NoTaskRun.outputs = NoOwner
    /\ NoCron \in Crons /\ NoMap \in Maps
PROOF
<1>1. NoSpec \in Specs \union {NoSpec}
  OBVIOUS
<1>2. NoOwner \in Owner
  BY DEF NoOwner, Owner
<1>3. NoTaskRun \in TaskRun
  BY <1>1, <1>2, BoundsAssumption DEF NoTaskRun, TaskRun
<1>4. NoTaskRun.life = 0 /\ NoTaskRun.phase = "" /\ NoTaskRun.outputs = NoOwner
  BY DEF NoTaskRun
<1>5. NoCron \in Crons /\ NoMap \in Maps
  BY BoundsAssumption DEF NoCron, Crons, Policies, NoMap, Maps
<1> QED BY <1>2, <1>3, <1>4, <1>5

\* A TaskRun that is not there has no life.
LEMMA NoLife == NoTaskRun.life = 0
PROOF BY DEF NoTaskRun

\* The writes a TaskRun undergoes.
LEMMA SetRunning ==
    ASSUME NEW o \in TaskRun, NEW n, n = [o EXCEPT !.phase = "Running"]
    PROVE  n \in TaskRun /\ n.life = o.life /\ n.spec = o.spec /\ n.phase = "Running"
PROOF BY DEF TaskRun, Terminal

\* Recording outputs changes nothing else of a TaskRun.
LEMMA SetOutputs ==
    ASSUME NEW o \in TaskRun, NEW x \in Owner, NEW n, n = [o EXCEPT !.outputs = x]
    PROVE  n \in TaskRun /\ n.life = o.life /\ n.spec = o.spec /\ n.phase = o.phase
PROOF BY DEF TaskRun

Applies(s)  == /\ tr = NoTaskRun /\ lives < MaxLives /\ clean' = NothingLeft
               /\ tr' = [NoTaskRun EXCEPT !.life = lives + 1, !.spec = s]
Edits(s)    == Exists(tr) /\ tr' = [tr EXCEPT !.spec = s] /\ clean' = FALSE
Writes(ph)  == /\ pc # "idle" /\ ~Conflict
               /\ tr' = [tr EXCEPT !.phase = ph, !.outputs = copy.outputs]

\* What a step can do to the stored TaskRun.
LEMMA TrForms ==
    ASSUME Next
    PROVE  \/ tr' = tr
           \/ \E s \in Specs : Applies(s)
           \/ \E s \in Specs : Edits(s)
           \/ tr' = NoTaskRun
           \/ \E ph \in {"Running", "Succeeded", "Failed"} : Writes(ph)
PROOF BY DEF Next, Reconcile, Apply, Edit, Delete, RemoveJob, Fetch, Start, reconcileCronJob,
     JobNotFound, ensureParamsConfigMap, CreateJob, JobActive, JobSucceeded, JobFailed,
     MarkSucceeded, MarkFailed, Update, Abort, SyncTaskRun, SyncJob, RunPod, Fire,
     CollectGarbage, taskrun, owned, caches, worker, Applies, Edits, Writes

\* A status write goes to the TaskRun the reconcile has read, which is there.
LEMMA Addressed ==
    ASSUME ObjInv, pc # "idle", ~Conflict
    PROVE  /\ tr.life = copy.life /\ tr.phase = copy.phase /\ tr.spec = copy.spec
           /\ tr.life >= 1 /\ tr.phase \notin Terminal
PROOF
<1>1. copy \in TaskRun /\ tr = [copy EXCEPT !.outputs = NoOwner] /\ NoOwner \in Owner
  BY Constants DEF ObjInv, Types, Conflict
<1>2. tr.life = copy.life /\ tr.phase = copy.phase /\ tr.spec = copy.spec
  BY <1>1, SetOutputs
<1> QED BY <1>2 DEF ObjInv, CopyOpen

\* The stored TaskRun keeps its type, and one that is there has been applied.
LEMMA TrNext ==
    ASSUME ObjInv, Next
    PROVE  /\ tr' \in TaskRun
           /\ Exists(tr)' => tr'.life >= 1
PROOF
<1>1. /\ tr \in TaskRun /\ copy \in TaskRun /\ lives \in 0..MaxLives /\ copy.outputs \in Owner
      /\ Exists(tr) => tr.life >= 1
  BY DEF ObjInv, Types, Applied, TaskRun
<1>2. CASE tr' = tr
  BY <1>1, <1>2 DEF Exists
<1>3. CASE tr' = NoTaskRun
  BY <1>3, Constants DEF Exists
<1>4. ASSUME NEW s \in Specs, Applies(s)
      PROVE  tr' \in TaskRun /\ tr'.life >= 1
  <2>1. lives + 1 \in 0..MaxLives /\ lives + 1 >= 1
    BY <1>1, <1>4, BoundsAssumption DEF Applies
  <2>2. tr' = [NoTaskRun EXCEPT !.life = lives + 1, !.spec = s]
    BY <1>4 DEF Applies
  <2>3. tr' \in TaskRun /\ tr'.life = lives + 1
    BY <2>1, <2>2, Constants DEF TaskRun
  <2> QED BY <2>1, <2>3
<1>5. ASSUME NEW s \in Specs, Edits(s)
      PROVE  tr' \in TaskRun /\ tr'.life >= 1
  <2>1. tr' = [tr EXCEPT !.spec = s] /\ Exists(tr)
    BY <1>5 DEF Edits
  <2>2. tr.life \in 0..MaxLives
    BY <1>1 DEF TaskRun
  <2>3. tr' \in TaskRun /\ tr'.life = tr.life
    BY <1>1, <2>1, <2>2 DEF TaskRun
  <2> QED BY <1>1, <2>1, <2>3
<1>6. ASSUME NEW ph \in {"Running", "Succeeded", "Failed"}, Writes(ph)
      PROVE  tr' \in TaskRun /\ tr'.life >= 1
  <2>1. tr.life >= 1
    BY <1>6, Addressed DEF Writes
  <2>2. tr' = [tr EXCEPT !.phase = ph, !.outputs = copy.outputs]
    BY <1>6 DEF Writes
  <2>3. tr' \in TaskRun /\ tr'.life = tr.life
    BY <1>1, <2>2 DEF TaskRun, Terminal
  <2> QED BY <2>1, <2>3
<1> QED BY <1>2, <1>3, <1>4, <1>5, <1>6, TrForms

\* The worker's moves.
Fetches == /\ copy' = Cached /\ pc' \in {"start", "route"} /\ pc = "idle"
           /\ Exists(Cached) /\ Cached.phase \notin Terminal
           /\ UNCHANGED <<taskrun, caches>>
Goes    == /\ pc # "idle" /\ pc' \in Pcs /\ UNCHANGED caches /\ clean' = clean
           /\ \/ copy' = copy /\ tr' = tr
              \/ copy' = [copy EXCEPT !.phase = "Running"] /\ Writes("Running")
              \/ /\ \E o \in collectRunnerOutputs : copy' = [copy EXCEPT !.outputs = o]
                 /\ tr' = tr

\* What a step can do to the worker.
LEMMA WorkerForms ==
    ASSUME Next
    PROVE  \/ UNCHANGED <<pc, copy>>
           \/ copy' = NoTaskRun /\ pc' = "idle"
           \/ Fetches
           \/ Goes
PROOF BY DEF Next, Reconcile, Apply, Edit, Delete, RemoveJob, Fetch, Start, reconcileCronJob,
     JobNotFound, ensureParamsConfigMap, CreateJob, JobActive, JobSucceeded, JobFailed,
     MarkSucceeded, MarkFailed, Update, Abort, SyncTaskRun, SyncJob, RunPod, Fire,
     CollectGarbage, AtJob, Return, taskrun, owned, caches, worker, Fetches, Goes, Writes, Pcs

\* A reconcile's TaskRun.
LEMMA CopyNext ==
    ASSUME ObjInv, Next
    PROVE  /\ copy' \in TaskRun /\ pc' \in Pcs /\ CopyOpen'
           /\ Goes => copy'.spec = copy.spec
PROOF
<1>1. /\ copy \in TaskRun /\ tr \in TaskRun /\ ghost \in TaskRun /\ pc \in Pcs /\ CopyOpen
      /\ pods \subseteq Pod /\ Applied
  BY DEF ObjInv, Types
<1>2. collectRunnerOutputs \subseteq Owner
  BY <1>1, Constants DEF collectRunnerOutputs, Pod
<1>3. CASE Goes
  <2>1. pc # "idle" /\ pc' \in Pcs
    BY <1>3 DEF Goes
  <2>2. /\ copy' \in TaskRun /\ copy'.life = copy.life /\ copy'.spec = copy.spec
        /\ copy'.phase \in {copy.phase, "Running"}
    <3>1. CASE copy' = copy
      BY <1>1, <3>1
    <3>2. CASE copy' = [copy EXCEPT !.phase = "Running"]
      BY <1>1, <3>2, SetRunning
    <3>3. ASSUME NEW o \in collectRunnerOutputs, copy' = [copy EXCEPT !.outputs = o]
          PROVE  copy' \in TaskRun /\ copy'.life = copy.life /\ copy'.spec = copy.spec
                 /\ copy'.phase = copy.phase
      BY <1>1, <1>2, <3>3, SetOutputs
    <3> QED BY <1>3, <3>1, <3>2, <3>3 DEF Goes
  <2> QED BY <1>1, <2>1, <2>2 DEF CopyOpen, Terminal
<1>4. CASE UNCHANGED <<pc, copy>> /\ ~Goes
  BY <1>1, <1>4 DEF CopyOpen
<1>5. CASE copy' = NoTaskRun /\ pc' = "idle" /\ ~Goes
  BY <1>5, Constants DEF CopyOpen, Pcs
<1>6. CASE Fetches /\ ~Goes
  <2>1. Cached \in {tr, ghost} /\ Exists(Cached)
    BY <1>6 DEF Fetches, Cached
  <2>2. Cached \in TaskRun /\ Cached.life >= 1
    BY <1>1, <2>1 DEF Applied
  <2> QED BY <1>6, <2>2 DEF Fetches, CopyOpen, Pcs
<1> QED BY <1>3, <1>4, <1>5, <1>6, WorkerForms

-----------------------------------------------------------------------------
(* What a step can do to the Jobs and their pods.                          *)

NewJob(u, owner) == [uid |-> u, owner |-> owner, state |-> "active"]

Creates == /\ jobName = {} /\ Create(jobs, <<"TaskRun", copy.life>>)
           /\ UNCHANGED <<tr, clean, cron>>

\* The numbers and the owners involved.
LEMMA Basics ==
    ASSUME ObjInv
    PROVE  /\ copy.life \in 0..MaxLives /\ copy.life \in Nat /\ cron.uid \in Nat
           /\ made \in Nat
PROOF
<1>1. copy \in TaskRun /\ cron \in Crons /\ made \in 0..MaxMade
  BY DEF ObjInv, Types
<1>2. copy.life \in 0..MaxLives
  BY <1>1 DEF TaskRun
<1>3. cron.uid \in 0..MaxMade
  BY <1>1 DEF Crons
<1> QED BY <1>1, <1>2, <1>3, BoundsAssumption

\* What a step can do to Jobs and pods.
LEMMA JobForms ==
    ASSUME Next
    PROVE  \/ UNCHANGED <<jobs, pods, made>>
           \/ jobs' \subseteq jobs /\ pods' \subseteq pods /\ UNCHANGED <<cron, made>>
           \/ Creates
           \/ RunPod
           \/ Fire
           \/ reconcileCronJob
PROOF BY DEF Next, Reconcile, Apply, Edit, Delete, RemoveJob, Fetch, Start,
     JobNotFound, ensureParamsConfigMap, CreateJob, JobActive, JobSucceeded, JobFailed,
     MarkSucceeded, MarkFailed, Abort, SyncTaskRun, SyncJob, NameTaken,
     CollectGarbage, taskrun, owned, caches, worker, Creates

\* A new Job and its pod.
LEMMA CreateTypes ==
    ASSUME Types, NEW js \in SUBSET jobs, NEW owner \in Owner, Create(js, owner)
    PROVE  /\ jobs' \subseteq Job /\ pods' \subseteq Pod
           /\ made' \in 0..MaxMade /\ made <= made'
           /\ jobs' = js \union {NewJob(made', owner)}
PROOF
<1>1. made' = made + 1 /\ made' \in 1..MaxMade /\ made \in Nat
  BY BoundsAssumption DEF Types, Create
<1>2. NewJob(made', owner) \in Job /\ jobs' = js \union {NewJob(made', owner)}
  BY <1>1 DEF Job, NewJob, Create
<1>3. [job |-> made', owner |-> owner, state |-> "waiting"] \in Pod
  BY <1>1 DEF Pod
<1> QED BY <1>1, <1>2, <1>3, BoundsAssumption DEF Types, Create

\* A pod that ends takes its Job with it: every Job is then a Job of before, the
\* same or ended.
LEMMA RunPodJobs ==
    ASSUME Types, RunPod
    PROVE  /\ jobs' \subseteq Job /\ pods' \subseteq Pod
           /\ \A x \in jobs' : \E j \in jobs : x.owner = j.owner /\ (x.state = "active" => x = j)
           /\ \A x, y \in jobs' : \E j, k \in jobs :
                  /\ x.owner = j.owner /\ y.owner = k.owner
                  /\ j = k => x = y
PROOF
<1>1. PICK p \in pods, s \in {"succeeded", "failed"} :
          /\ pods' = (pods \ {p}) \union {[p EXCEPT !.state = s]}
          /\ jobs' = {IF j.uid = p.job THEN [j EXCEPT !.state = s] ELSE j : j \in jobs}
  BY DEF RunPod
<1> DEFINE f(j) == IF j.uid = p.job THEN [j EXCEPT !.state = s] ELSE j
<1>2. ASSUME NEW j \in jobs
      PROVE  f(j) \in Job /\ f(j).owner = j.owner /\ (f(j).state = "active" => f(j) = j)
  <2>1. j \in Job
    BY DEF Types
  <2>2. /\ [j EXCEPT !.state = s] \in Job /\ [j EXCEPT !.state = s].owner = j.owner
        /\ [j EXCEPT !.state = s].state = s
    BY <2>1 DEF Job
  <2> QED BY <2>1, <2>2
<1>3. jobs' = {f(j) : j \in jobs}
  BY <1>1
<1>4. p \in Pod /\ [p EXCEPT !.state = s] \in Pod
  BY DEF Types, Pod
<1>5. pods' \subseteq Pod
  BY <1>1, <1>4 DEF Types
<1> HIDE DEF f
<1> QED BY <1>2, <1>3, <1>5

\* An owner is told by its kind and its number.
LEMMA OwnerKinds ==
    \A n \in Nat : /\ <<"TaskRun", n>> \in Owner /\ <<"TaskRun", n>>[1] = "TaskRun"
                   /\ <<"CronJob", n>> \in Owner /\ <<"CronJob", n>>[1] = "CronJob"
                   /\ <<"CronJob", n>>[2] = n
PROOF BY DEF Owner

\* The Jobs, their pods and the last uid keep their types.
LEMMA JobTypes ==
    ASSUME ObjInv, Next
    PROVE  jobs' \subseteq Job /\ pods' \subseteq Pod /\ made' \in 0..MaxMade /\ made <= made'
PROOF
<1>1. /\ Types /\ jobs \subseteq Job /\ pods \subseteq Pod /\ made \in 0..MaxMade /\ made <= made
      /\ copy.life \in Nat /\ cron.uid \in Nat
  BY Basics DEF ObjInv, Types
<1>2. CASE UNCHANGED <<jobs, pods, made>>
  BY <1>1, <1>2
<1>3. CASE jobs' \subseteq jobs /\ pods' \subseteq pods /\ UNCHANGED <<cron, made>>
  BY <1>1, <1>3
<1>4. CASE Creates
  BY <1>1, <1>4, CreateTypes, OwnerKinds DEF Creates
<1>5. CASE RunPod
  BY <1>1, <1>5, RunPodJobs DEF RunPod
<1>6. CASE Fire
  <2>1. PICK js \in SUBSET jobs : Create(js, <<"CronJob", cron.uid>>)
    BY <1>6 DEF Fire
  <2> QED BY <1>1, <2>1, CreateTypes, OwnerKinds
<1>7. CASE reconcileCronJob
  BY <1>1, <1>7, BoundsAssumption DEF reconcileCronJob
<1> QED BY <1>2, <1>3, <1>4, <1>5, <1>6, <1>7, JobForms

\* A Job is only created when there is none of its name.
LEMMA OneJobNext ==
    ASSUME ObjInv, Next
    PROVE  OneJob'
PROOF
<1>1. /\ Types /\ OneJob /\ copy.life \in Nat /\ cron.uid \in Nat
  BY Basics DEF ObjInv
<1>2. CASE jobs' \subseteq jobs
  BY <1>1, <1>2 DEF OneJob, AtMostOne, jobName
<1>3. CASE Creates
  <2>1. jobs' = jobs \union {NewJob(made', <<"TaskRun", copy.life>>)}
    BY <1>1, <1>3, CreateTypes, OwnerKinds DEF Creates
  <2>2. jobName' \subseteq {NewJob(made', <<"TaskRun", copy.life>>)}
    BY <1>3, <2>1 DEF Creates, jobName
  <2> QED BY <2>2 DEF OneJob, AtMostOne
<1>4. CASE RunPod
  <2>1. \A x, y \in jobs' : \E j, k \in jobs :
            x.owner = j.owner /\ y.owner = k.owner /\ (j = k => x = y)
    BY <1>1, <1>4, RunPodJobs
  <2> QED BY <1>1, <2>1 DEF OneJob, AtMostOne, jobName
<1>5. CASE Fire
  <2>1. PICK js \in SUBSET jobs : Create(js, <<"CronJob", cron.uid>>)
    BY <1>5 DEF Fire
  <2>2. jobs' = js \union {NewJob(made', <<"CronJob", cron.uid>>)}
    BY <1>1, <2>1, CreateTypes, OwnerKinds
  <2>3. NewJob(made', <<"CronJob", cron.uid>>).owner[1] = "CronJob"
    BY <1>1, OwnerKinds DEF NewJob
  <2>4. jobName' \subseteq jobName
    BY <2>2, <2>3 DEF jobName
  <2> QED BY <1>1, <2>4 DEF OneJob, AtMostOne
<1> QED BY <1>2, <1>3, <1>4, <1>5, JobForms DEF reconcileCronJob

\* A CronJob gets a uid nobody has had, and its Jobs carry it.
LEMMA UidsNext ==
    ASSUME ObjInv, Next
    PROVE  cron' \in Crons /\ Uids'
PROOF
<1>1. /\ Types /\ Uids /\ copy.life \in Nat /\ cron.uid \in Nat /\ cron \in Crons
      /\ made \in Nat /\ made' \in Nat /\ made <= made' /\ copy.life \in 0..MaxLives
  BY Basics, JobTypes DEF ObjInv, Types
<1>2. cron' \in Crons /\ (cron # NoCron => cron.uid \in 1..made)' /\ (cron' # cron => jobs' = jobs)
  <2>1. \/ cron' = cron \/ (cron' = NoCron /\ jobs' = jobs)
        \/ /\ made < MaxMade /\ made' = made + 1 /\ jobs' = jobs
           /\ cron' = [uid |-> made', owner |-> copy.life,
                       policy |-> mapConcurrencyPolicy(copy.spec.policy)]
    BY DEF Next, Reconcile, Apply, Edit, Delete, RemoveJob, Fetch, Start, reconcileCronJob,
       JobNotFound, ensureParamsConfigMap, CreateJob, JobActive, JobSucceeded, JobFailed,
       MarkSucceeded, MarkFailed, Abort, SyncTaskRun, SyncJob, RunPod, Fire,
       CollectGarbage, owned
  <2>2. mapConcurrencyPolicy(copy.spec.policy) \in Policies
    BY DEF mapConcurrencyPolicy, Policies
  <2>3. CASE cron' = cron
    BY <1>1, <2>3 DEF Uids
  <2>4. CASE cron' = NoCron /\ jobs' = jobs
    BY <2>4, Constants
  <2>5. CASE /\ made < MaxMade /\ made' = made + 1 /\ jobs' = jobs
             /\ cron' = [uid |-> made', owner |-> copy.life,
                         policy |-> mapConcurrencyPolicy(copy.spec.policy)]
    <3>1. made' \in 0..MaxMade
      BY JobTypes
    <3>2. cron' \in Crons /\ cron'.uid = made'
      BY <1>1, <2>2, <2>5, <3>1 DEF Crons
    <3> QED BY <1>1, <2>5, <3>2
  <2> QED BY <2>1, <2>3, <2>4, <2>5
<1>3. ASSUME NEW x \in jobs', x.owner[1] = "CronJob"
      PROVE  x.owner[2] \in 1..made'
  <2>1. ASSUME NEW j \in jobs, x.owner = j.owner
        PROVE  x.owner[2] \in 1..made'
    BY <1>1, <1>3, <2>1 DEF Uids
  <2>2. CASE jobs' \subseteq jobs
    BY <2>1, <2>2
  <2>3. CASE Creates
    <3>1. jobs' = jobs \union {NewJob(made', <<"TaskRun", copy.life>>)}
      BY <1>1, <2>3, CreateTypes, OwnerKinds DEF Creates
    <3>2. NewJob(made', <<"TaskRun", copy.life>>).owner[1] = "TaskRun"
      BY <1>1, OwnerKinds DEF NewJob
    <3> QED BY <1>3, <2>1, <3>1, <3>2
  <2>4. CASE RunPod
    BY <1>1, <2>1, <2>4, RunPodJobs
  <2>5. CASE Fire
    <3>1. PICK js \in SUBSET jobs : Create(js, <<"CronJob", cron.uid>>)
      BY <2>5 DEF Fire
    <3>2. jobs' = js \union {NewJob(made', <<"CronJob", cron.uid>>)}
      BY <1>1, <3>1, CreateTypes, OwnerKinds
    <3>3. NewJob(made', <<"CronJob", cron.uid>>).owner[2] = cron.uid
      BY <1>1, OwnerKinds DEF NewJob
    <3>4. cron.uid \in 1..made'
      BY <1>1, <2>5 DEF Fire, Uids
    <3> QED BY <2>1, <3>2, <3>3, <3>4
  <2> QED BY <2>2, <2>3, <2>4, <2>5, JobForms DEF reconcileCronJob
<1> QED BY <1>2, <1>3 DEF Uids

-----------------------------------------------------------------------------
(* A life that began without leftovers and is left alone.                  *)

\* Such a life begins by Apply, and its spec stays.
LEMMA Steady ==
    ASSUME ObjInv, Next, clean', Exists(tr)'
    PROVE  \/ Apply
           \/ /\ clean /\ Exists(tr) /\ tr'.spec = tr.spec
              /\ ghost' \in {ghost, NoTaskRun}
PROOF
<1> USE DEF taskrun, owned, caches, worker
<1>1. CASE Apply
  BY <1>1
<1>2. CASE Edit \/ RemoveJob
  BY <1>2 DEF Edit, RemoveJob
<1>3. CASE Delete
  BY <1>3 DEF Delete, Exists
<1>4. CASE Reconcile \/ Abort \/ SyncTaskRun \/ SyncJob \/ RunPod \/ Fire \/ CollectGarbage
  <2>1. /\ clean' = clean /\ ghost' \in {ghost, NoTaskRun}
        /\ \/ tr' = tr
           \/ \E ph \in {"Running", "Succeeded", "Failed"} : Writes(ph)
    BY <1>4 DEF Reconcile, Fetch, Start, reconcileCronJob, JobNotFound, ensureParamsConfigMap,
       CreateJob, JobActive, JobSucceeded, JobFailed, MarkSucceeded, MarkFailed, Update, Abort,
       SyncTaskRun, SyncJob, RunPod, Fire, CollectGarbage, Writes
  <2>2. CASE tr' = tr
    BY <2>1, <2>2 DEF Exists
  <2>3. ASSUME NEW ph \in {"Running", "Succeeded", "Failed"}, Writes(ph)
        PROVE  Exists(tr) /\ tr'.spec = tr.spec
    <3>1. tr.life >= 1 /\ tr \in TaskRun /\ copy \in TaskRun
      BY <2>3, Addressed DEF Writes, ObjInv, Types
    <3>2. tr' = [tr EXCEPT !.phase = ph, !.outputs = copy.outputs]
      BY <2>3 DEF Writes
    <3>3. tr'.spec = tr.spec
      BY <3>1, <3>2 DEF TaskRun
    <3> QED BY <3>1, <3>3, NoLife DEF Exists
  <2> QED BY <2>1, <2>2, <2>3
<1> QED BY <1>1, <1>2, <1>3, <1>4 DEF Next

\* A reconcile of a life left alone goes on with the spec that is there.
LEMMA OwnNext ==
    ASSUME ObjInv, Next
    PROVE  Own'
PROOF
<1> SUFFICES ASSUME clean', Exists(tr)'
             PROVE  ghost' = NoTaskRun /\ (pc' # "idle" => copy'.spec = tr'.spec)
  BY DEF Own
<1>1. CASE Apply
  BY <1>1 DEF Apply, NothingLeft, caches, worker
<1>2. CASE ~Apply
  <2>1. /\ tr'.spec = tr.spec /\ ghost' = NoTaskRun /\ ghost = NoTaskRun
        /\ pc # "idle" => copy.spec = tr.spec
    BY <1>2, Steady DEF ObjInv, Own
  <2>2. CASE Fetches
    <3>1. copy' = tr /\ tr' = tr
      BY <2>1, <2>2 DEF Fetches, Cached, Exists, taskrun
    <3> QED BY <2>1, <3>1
  <2>3. CASE Goes
    BY <2>1, <2>3, CopyNext DEF Goes
  <2>4. CASE UNCHANGED <<pc, copy>> \/ pc' = "idle"
    BY <2>1, <2>4
  <2> QED BY <2>2, <2>3, <2>4, WorkerForms
<1> QED BY <1>1, <1>2

\* The CronJob keeps the policy, and starts no Job that the policy forbids.
LEMMA AloneNext ==
    ASSUME ObjInv, Next
    PROVE  Alone'
PROOF
<1> USE DEF taskrun, owned, caches, worker
<1> SUFFICES ASSUME clean', Exists(tr)', tr'.spec.policy # "Allow"
             PROVE  (cron' # NoCron => cron'.policy # "Allow") /\ AtMostOne(Scheduled')
  BY DEF Alone
<1>1. /\ Types /\ Uids /\ copy.life \in Nat /\ cron.uid \in Nat /\ made \in Nat
  BY Basics DEF ObjInv
<1>2. NoCron.uid = 0
  BY DEF NoCron
<1>3. CASE Apply
  <2>1. cron' = NoCron /\ jobs' = {}
    BY <1>3 DEF Apply, NothingLeft
  <2>2. Scheduled' = {}
    BY <2>1 DEF Scheduled
  <2> QED BY <2>1, <2>2 DEF AtMostOne
<1>4. CASE ~Apply
  <2>1. /\ tr'.spec = tr.spec
        /\ cron # NoCron => cron.policy # "Allow"
        /\ AtMostOne(Scheduled)
        /\ pc # "idle" => copy.spec = tr.spec
    BY <1>4, Steady DEF ObjInv, Alone, Own
  <2>2. ASSUME Scheduled' \subseteq Scheduled
        PROVE  AtMostOne(Scheduled')
    BY <2>1, <2>2 DEF AtMostOne
  <2>3. CASE cron' = cron
    <3>1. CASE jobs' \subseteq jobs
      BY <2>1, <2>2, <2>3, <3>1 DEF Scheduled
    <3>2. CASE Creates
      <4>1. jobs' = jobs \union {NewJob(made', <<"TaskRun", copy.life>>)}
        BY <1>1, <3>2, CreateTypes, OwnerKinds DEF Creates
      <4>2. NewJob(made', <<"TaskRun", copy.life>>).owner # <<"CronJob", cron.uid>>
        BY <1>1, OwnerKinds DEF NewJob
      <4>3. Scheduled' \subseteq Scheduled
        BY <2>3, <4>1, <4>2 DEF Scheduled
      <4> QED BY <2>1, <2>2, <2>3, <4>3
    <3>3. CASE RunPod
      <4>1. \A x \in jobs' : \E j \in jobs :
                x.owner = j.owner /\ (x.state = "active" => x = j)
        BY <1>1, <3>3, RunPodJobs
      <4>2. Scheduled' \subseteq Scheduled
        BY <2>3, <4>1 DEF Scheduled
      <4> QED BY <2>1, <2>2, <2>3, <4>2
    <3>4. CASE Fire
      <4>1. /\ cron # NoCron /\ cron.policy # "Allow"
            /\ cron.policy = "Forbid" => Scheduled = {}
            /\ Create(IF cron.policy = "Replace" THEN jobs \ Scheduled ELSE jobs,
                      <<"CronJob", cron.uid>>)
        BY <2>1, <3>4 DEF Fire
      <4>2. cron.policy \in {"Forbid", "Replace"}
        BY <1>1, <4>1 DEF Types, Crons, Policies
      <4>3. PICK js \in SUBSET jobs : /\ Create(js, <<"CronJob", cron.uid>>)
                                      /\ js \intersect Scheduled = {}
        BY <4>1, <4>2
      <4>4. jobs' = js \union {NewJob(made', <<"CronJob", cron.uid>>)}
        BY <1>1, <4>3, CreateTypes, OwnerKinds
      <4>5. Scheduled' \subseteq {NewJob(made', <<"CronJob", cron.uid>>)}
        BY <2>3, <4>3, <4>4 DEF Scheduled
      <4> QED BY <2>1, <2>3, <4>5 DEF AtMostOne
    <3> QED BY <3>1, <3>2, <3>3, <3>4, JobForms DEF reconcileCronJob
  <2>4. CASE cron' # cron
    <3>1. /\ jobs' = jobs
          /\ \/ cron' = NoCron
             \/ /\ pc # "idle" /\ made' = made + 1
                /\ cron' = [uid |-> made', owner |-> copy.life,
                            policy |-> mapConcurrencyPolicy(copy.spec.policy)]
      BY <2>4 DEF Next, Reconcile, Apply, Edit, Delete, RemoveJob, Fetch, Start,
         reconcileCronJob, JobNotFound, ensureParamsConfigMap, CreateJob, JobActive,
         JobSucceeded, JobFailed, MarkSucceeded, MarkFailed, Abort, SyncTaskRun, SyncJob,
         RunPod, Fire, CollectGarbage
    <3>2. cron'.uid \notin 1..made
      BY <1>1, <1>2, <3>1
    <3>3. \A j \in jobs' : j.owner # <<"CronJob", cron'.uid>>
      <4>1. \A u : <<"CronJob", u>>[1] = "CronJob" /\ <<"CronJob", u>>[2] = u
        OBVIOUS
      <4> QED BY <1>1, <3>1, <3>2, <4>1 DEF Uids
    <3>4. Scheduled' = {}
      BY <3>3 DEF Scheduled
    <3>5. cron' # NoCron => cron'.policy # "Allow"
      <4>1. ASSUME cron' # NoCron
            PROVE  cron'.policy = mapConcurrencyPolicy(tr.spec.policy)
        BY <2>1, <3>1, <4>1
      <4> QED BY <2>1, <4>1 DEF mapConcurrencyPolicy
    <3> QED BY <3>4, <3>5 DEF AtMostOne
  <2> QED BY <2>3, <2>4
<1> QED BY <1>3, <1>4

-----------------------------------------------------------------------------
(* The theorems.                                                           *)

\* A set of Jobs that are all the same has at most one element.
LEMMA AtMostOneCard ==
    ASSUME NEW S, AtMostOne(S)
    PROVE  Cardinality(S) <= 1
PROOF
<1>1. CASE S = {}
  BY <1>1, FS_EmptySet
<1>2. CASE S # {}
  <2>1. PICK x : S = {x}
    BY <1>2 DEF AtMostOne
  <2>2. Cardinality({x}) = 1
    BY FS_Singleton, Zenon
  <2> QED BY <2>1, <2>2
<1> QED BY <1>1, <1>2

\* Every step preserves the invariant.
LEMMA ObjNext ==
    ASSUME ObjInv, Next
    PROVE  ObjInv'
PROOF
<1> USE DEF taskrun, owned, caches, worker
<1>1. Types /\ Applied
  BY DEF ObjInv
<1>2. /\ ghost' \in TaskRun /\ (Exists(ghost) => ghost.life >= 1)'
  <2>1. ghost' \in {ghost, tr, NoTaskRun}
    BY DEF Next, Reconcile, Apply, Edit, Delete, RemoveJob, Fetch, Start, reconcileCronJob,
       JobNotFound, ensureParamsConfigMap, CreateJob, JobActive, JobSucceeded, JobFailed,
       MarkSucceeded, MarkFailed, Abort, SyncTaskRun, SyncJob, RunPod, Fire, CollectGarbage
  <2> QED BY <1>1, <2>1, Constants DEF Types, Applied, Exists
<1>3. lives' \in 0..MaxLives /\ meddling' \in 0..MaxMeddling
  <2>1. /\ lives' = lives \/ (lives < MaxLives /\ lives' = lives + 1)
        /\ meddling' = meddling \/ (meddling < MaxMeddling /\ meddling' = meddling + 1)
    BY DEF Next, Reconcile, Apply, Edit, Delete, RemoveJob, Fetch, Start, reconcileCronJob,
       JobNotFound, ensureParamsConfigMap, CreateJob, JobActive, JobSucceeded, JobFailed,
       MarkSucceeded, MarkFailed, Abort, SyncTaskRun, SyncJob, RunPod, Fire, CollectGarbage
  <2>2. lives \in 0..MaxLives /\ meddling \in 0..MaxMeddling
    BY <1>1 DEF Types
  <2> QED BY <2>1, <2>2, BoundsAssumption
<1>4. clean' \in BOOLEAN
  <2>1. clean' \in {clean, FALSE, NothingLeft} /\ NothingLeft \in BOOLEAN
    BY DEF Next, Reconcile, Apply, Edit, Delete, RemoveJob, Fetch, Start, reconcileCronJob,
       JobNotFound, ensureParamsConfigMap, CreateJob, JobActive, JobSucceeded, JobFailed,
       MarkSucceeded, MarkFailed, Abort, SyncTaskRun, SyncJob, RunPod, Fire, CollectGarbage,
       NothingLeft
  <2> QED BY <1>1, <2>1, Zenon DEF Types
<1>5. jobSeen' \in States
  <2>1. JobState \in States
    <3>1. \A j \in jobName : j.state \in States
      BY <1>1 DEF Types, jobName, Job, States
    <3> QED BY <3>1 DEF JobState, States
  <2>2. jobSeen' \in {jobSeen, JobState}
    BY DEF Next, Reconcile, Apply, Edit, Delete, RemoveJob, Fetch, Start, reconcileCronJob,
       JobNotFound, ensureParamsConfigMap, CreateJob, JobActive, JobSucceeded, JobFailed,
       MarkSucceeded, MarkFailed, Abort, SyncTaskRun, SyncJob, RunPod, Fire, CollectGarbage
  <2> QED BY <1>1, <2>1, <2>2 DEF Types
<1>6. cm' \in Maps
  <2>1. \/ cm' \in {cm, NoMap}
        \/ cm' = [there |-> TRUE, owner |-> IF cm.there THEN cm.owner ELSE ParamsOwner]
    BY DEF Next, Reconcile, Apply, Edit, Delete, RemoveJob, Fetch, Start, reconcileCronJob,
       JobNotFound, ensureParamsConfigMap, CreateJob, JobActive, JobSucceeded, JobFailed,
       MarkSucceeded, MarkFailed, Abort, SyncTaskRun, SyncJob, RunPod, Fire, CollectGarbage
  <2>2. cm.owner \in Nat /\ ParamsOwner \in Nat
    BY <1>1, Basics DEF Types, Maps, ParamsOwner
  <2>3. \A n \in Nat : [there |-> TRUE, owner |-> n] \in Maps
    BY DEF Maps
  <2>4. (IF cm.there THEN cm.owner ELSE ParamsOwner) \in Nat
    BY <2>2
  <2>5. cm \in Maps /\ NoMap \in Maps
    BY <1>1, Constants DEF Types
  <2> QED BY <2>1, <2>3, <2>4, <2>5, Zenon
<1>7. Types'
  BY <1>2, <1>3, <1>4, <1>5, <1>6, TrNext, CopyNext, JobTypes, UidsNext
     DEF Types, TaskRun, Job, Pod, Crons, Maps, States, Pcs
<1>8. Applied'
  BY <1>2, TrNext DEF Applied
<1> QED BY <1>7, <1>8, CopyNext, OneJobNext, UidsNext, OwnNext, AloneNext DEF ObjInv

\* The invariant holds throughout.
LEMMA ObjInductive == Spec => []ObjInv
PROOF
<1>1. Init => ObjInv
  <2> SUFFICES ASSUME Init PROVE ObjInv
    OBVIOUS
  <2>1. Types
    <3>1. clean \in BOOLEAN
      BY Zenon DEF Init
    <3>2. /\ tr \in TaskRun /\ ghost \in TaskRun /\ copy \in TaskRun /\ cron \in Crons
          /\ cm \in Maps
      BY Constants, Zenon DEF Init
    <3>3. /\ lives \in 0..MaxLives /\ made \in 0..MaxMade /\ meddling \in 0..MaxMeddling
          /\ jobs = {} /\ pods = {} /\ jobSeen \in States /\ pc \in Pcs
      BY BoundsAssumption DEF Init, States, Pcs
    <3> QED BY <3>1, <3>2, <3>3, Zenon DEF Types
  <2>2. OneJob /\ Applied /\ CopyOpen /\ Uids /\ Own /\ Alone
    BY DEF Init, OneJob, AtMostOne, jobName, Applied, Exists, CopyOpen, Uids, Own, Alone,
       Scheduled
  <2> QED BY <2>1, <2>2 DEF ObjInv
<1>2. ObjInv /\ [Next]_vars => ObjInv'
  <2>1. ObjInv /\ UNCHANGED vars => ObjInv'
    <3> SUFFICES ASSUME ObjInv, UNCHANGED vars PROVE ObjInv'
      OBVIOUS
    <3> USE DEF vars, taskrun, owned, caches, worker
    <3>1. Applied' /\ CopyOpen' /\ Uids'
      BY DEF ObjInv, Applied, Exists, CopyOpen, Uids
    <3>4. /\ tr' = tr /\ ghost' = ghost /\ copy' = copy /\ lives' = lives /\ jobs' = jobs
          /\ jobSeen' = jobSeen /\ cron' = cron /\ pods' = pods /\ made' = made
          /\ pc' = pc /\ meddling' = meddling
      OBVIOUS
    <3>5. clean' \in BOOLEAN /\ cm' \in Maps
      BY Zenon DEF ObjInv, Types
    <3>6. Types
      BY Zenon DEF ObjInv
    <3>3. Types'
      BY <3>4, <3>5, <3>6 DEF Types, Job, States, Pcs, TaskRun, Pod, Crons
    <3>2. OneJob' /\ Own' /\ Alone'
      BY DEF ObjInv, OneJob, AtMostOne, jobName, Own, Alone, Exists, Scheduled
    <3> QED BY <3>1, <3>2, <3>3 DEF ObjInv
  <2> QED BY <2>1, ObjNext
<1> QED BY <1>1, <1>2, PTL DEF Spec

\* Every variable keeps its type, and the server never holds two Jobs of the fixed
\* name, over any number of lives.
THEOREM Typing == Spec => []TypeOK
PROOF
<1>1. ObjInv => TypeOK
  <2> SUFFICES ASSUME ObjInv PROVE TypeOK
    OBVIOUS
  <2>1. Cardinality(jobName) <= 1
    BY AtMostOneCard DEF ObjInv, OneJob
  <2> QED BY <2>1 DEF ObjInv, Types, TypeOK, Crons, Maps, Pcs, States
<1> QED BY <1>1, ObjInductive, PTL

\* The result a life ends with is the one it keeps, and nothing is written to a
\* life but by a reconcile that read it with its present spec: one that read an
\* earlier life, an earlier spec or an earlier phase has its write refused.
THEOREM FinalLife == Spec => FinalPerLife
PROOF
<1> DEFINE Changed == tr'.phase # tr.phase \/ tr'.outputs # tr.outputs
<1> DEFINE Right == tr.phase \notin Terminal /\ copy.life = tr.life /\ copy.spec = tr.spec
<1>1. ObjInv /\ [Next]_vars => [Exists(tr) /\ tr'.life = tr.life /\ Changed => Right]_vars
  <2> SUFFICES ASSUME ObjInv, Next, Exists(tr), tr'.life = tr.life, Changed
               PROVE  Right
    OBVIOUS
  <2>1. tr \in TaskRun /\ tr.life >= 1
    BY DEF ObjInv, Types, Applied
  <2>2. CASE tr' = tr
    BY <2>2
  <2>3. ASSUME NEW s \in Specs, Edits(s) PROVE FALSE
    <3>1. tr' = [tr EXCEPT !.spec = s]
      BY <2>3 DEF Edits
    <3>2. tr'.phase = tr.phase /\ tr'.outputs = tr.outputs
      BY <2>1, <3>1 DEF TaskRun
    <3> QED BY <3>2
  <2>4. ASSUME NEW s, Applies(s) PROVE FALSE
    BY <2>4 DEF Applies, Exists
  <2>5. CASE tr' = NoTaskRun
    BY <2>1, <2>5, NoLife
  <2>6. ASSUME NEW ph, Writes(ph) PROVE Right
    BY <2>6, Addressed DEF Writes
  <2> QED BY <2>2, <2>3, <2>4, <2>5, <2>6, TrForms
<1> QED BY <1>1, ObjInductive, PTL DEF Spec, FinalPerLife

\* Unless its policy is Allow, a scheduled TaskRun that is left alone never has
\* two Jobs at once.
THEOREM Overlap == Spec => []NoOverlap
PROOF
<1>1. ObjInv => NoOverlap
  BY AtMostOneCard DEF ObjInv, Alone, NoOverlap
<1> QED BY <1>1, ObjInductive, PTL

=============================================================================
