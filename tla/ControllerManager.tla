-------------------------- MODULE ControllerManager --------------------------
(***************************************************************************)
(* The controller processes and the TaskRuns they serve: start-up with and *)
(* without leader election, the signal that stops a process, hand-over to  *)
(* another one, and the single worker that all TaskRuns share and a wait   *)
(* step occupies.                                                          *)
(*                                                                         *)
(* A stopped process is not interrupted: its context is cancelled, which a *)
(* sleeping wait notices and every write to the API server refuses, while  *)
(* the worker goes on, through the code for failed steps, too.             *)
(*                                                                         *)
(* Reads come from caches that lag, and any call may fail, before or after *)
(* it took effect, besides what a cancelled context or another process     *)
(* makes fail.  MaxTroubles bounds stops, deaths, lagging reads and failed *)
(* calls together, with and without leader election.                       *)
(*                                                                         *)
(* Simplifications (TaskRunController has the detail): every pipeline      *)
(* resolves unless a lookup fails, validates and is admissible, an         *)
(* API-native step that is not a wait is one step, one lag covers the      *)
(* caches of Job and ConfigMap.  Requeues after an error and after five    *)
(* seconds are immediate.                                                  *)
(***************************************************************************)
EXTENDS Integers, Sequences

CONSTANTS
    Replicas,   \* the controller processes
    TaskRuns,   \* the TaskRuns of the cluster
    Pipeline,   \* the steps of each of them
    None,       \* no replica, no TaskRun
    MaxTroubles \* processes that are stopped or die, reads from a lagging
                \* cache and calls that fail, for each value of elect

Kinds    == {"runner", "wait", "native"}
Terminal == {"Succeeded", "Failed"}

ASSUME PipelineAssumption ==
    /\ Pipeline \in [TaskRuns -> Seq(Kinds)]
    /\ \A t \in TaskRuns : Len(Pipeline[t]) > 0
ASSUME NoneAssumption  == None \notin Replicas /\ None \notin TaskRuns
ASSUME BoundsAssumption == MaxTroubles \in [BOOLEAN -> Nat]

VARIABLES
    elect,   \* the flag --leader-elect
    lease,   \* who holds the lease
    mode,    \* of each process
    queue,   \* the keys in the workqueue of each process
    work,    \* what the worker of each process is doing
    status,  \* the stored status of each TaskRun
    past,    \* its earlier versions, which a cache may still show
    params,  \* the TaskRuns whose params ConfigMap is there
    job,     \* the runner Job of each TaskRun
    failed,  \* history: the TaskRuns something of which failed, other than
             \* by the stop of a process: a step, the Job, the params
             \* ConfigMap, the lookup of a definition
    troubles \* stops, deaths, lagging reads and failed calls so far

stored    == <<status, past>>
cluster   == <<stored, params, job>>
processes == <<lease, mode>>
vars      == <<elect, processes, queue, work, cluster, failed, troubles>>

NoStatus  == [phase |-> "absent", started |-> FALSE]
NewStatus == [phase |-> "", started |-> FALSE]

Idle == [pc |-> "idle", t |-> None, copy |-> NoStatus, todo |-> {}, found |-> FALSE]

RunnerSteps(t) == {i \in 1..Len(Pipeline[t]) : Pipeline[t][i] = "runner"}
NativeSteps(t) == 1..Len(Pipeline[t]) \ RunnerSteps(t)

\* An event, or a requeue: nothing is added once the queue is shut down.
Queued(rs, t) ==
    [r \in Replicas |-> IF r \in rs /\ mode[r] = "active" THEN queue[r] \union {t}
                        ELSE queue[r]]

Goto(r, pc) == work' = [work EXCEPT ![r].pc = pc]

\* The worker's call of Reconcile is over; an error is requeued.
Return(r, requeue) ==
    /\ work' = [work EXCEPT ![r] = Idle]
    /\ queue' = IF requeue THEN Queued({r}, work[r].t) ELSE queue

\* Something that is bounded happens.
Trouble == troubles < MaxTroubles[elect] /\ troubles' = troubles + 1

-----------------------------------------------------------------------------
(* The processes.                                                          *)

LeaderElection == elect

\* The controller starts with the manager, or waits to be elected.  A starting
\* controller lists every TaskRun.
main(r) ==
    /\ mode[r] = "down"
    /\ \/ /\ LeaderElection
          /\ mode' = [mode EXCEPT ![r] = "standby"]
          /\ UNCHANGED queue
       \/ /\ ~LeaderElection
          /\ mode' = [mode EXCEPT ![r] = "active"]
          /\ queue' = [queue EXCEPT ![r] = {t \in TaskRuns : status[t] # NoStatus}]
    /\ UNCHANGED <<elect, lease, work, cluster, failed, troubles>>

Elected(r) ==
    /\ mode[r] = "standby" /\ lease = None
    /\ lease' = r
    /\ mode' = [mode EXCEPT ![r] = "active"]
    /\ queue' = [queue EXCEPT ![r] = {t \in TaskRuns : status[t] # NoStatus}]
    /\ UNCHANGED <<elect, work, cluster, failed, troubles>>

\* The lease is not released; it runs out once its holder has ended.
LeaseExpires ==
    /\ lease # None /\ mode[lease] \in {"down", "standby"}
    /\ lease' = None
    /\ UNCHANGED <<elect, mode, queue, work, cluster, failed, troubles>>

\* SIGTERM: the context is cancelled and the queue takes nothing more.
SetupSignalHandler(r) ==
    /\ mode[r] = "active" /\ Trouble
    /\ mode' = [mode EXCEPT ![r] = "stopping"]
    /\ UNCHANGED <<elect, lease, queue, work, cluster, failed>>

Down(r) ==
    /\ mode' = [mode EXCEPT ![r] = "down"]
    /\ queue' = [queue EXCEPT ![r] = {}]
    /\ work' = [work EXCEPT ![r] = Idle]

\* The manager returns from Start when its worker has come to rest.
Exit(r) ==
    /\ mode[r] = "stopping" /\ work[r] = Idle
    /\ Down(r)
    /\ UNCHANGED <<elect, lease, cluster, failed, troubles>>

\* Out of memory, a lost lease, a node that is gone.
Kill(r) ==
    /\ mode[r] \in {"standby", "active"} /\ Trouble
    /\ Down(r)
    /\ UNCHANGED <<elect, lease, cluster, failed>>

\* The manager does not wait for its worker for ever.
GracePeriodEnds(r) ==
    /\ mode[r] = "stopping"
    /\ Down(r)
    /\ UNCHANGED <<elect, lease, cluster, failed, troubles>>

-----------------------------------------------------------------------------
(* Reconcile.                                                              *)

\* Mutated form: status writes have a context of their own.
CancelledNever(r) == FALSE

\* Is the context of a status write cancelled?
Cancelled(r) == mode[r] = "stopping"

\* Mutated form: the version is not compared.
ConflictIgnored(r) == FALSE

Conflict(r) == work[r].copy # status[work[r].t]

Accepted(r) == ~Cancelled(r) /\ ~Conflict(r)

\* Every write is an event for the TaskRun it changes.
Store(r, new) ==
    /\ status' = [status EXCEPT ![work[r].t] = new]
    /\ past' = [past EXCEPT ![work[r].t] = @ \union {status[work[r].t]}]
    /\ queue' = Queued(Replicas, work[r].t)

UpdateOk(r, new) == Accepted(r) /\ Store(r, new) /\ UNCHANGED troubles

\* Refused or failed, perhaps after it took effect: the TaskRun is put back.
UpdateError(r, new) ==
    \/ ~Accepted(r) /\ Return(r, TRUE) /\ UNCHANGED <<stored, troubles>>
    \/ Accepted(r) /\ Trouble /\ Return(r, TRUE) /\ UNCHANGED stored
    \/ Accepted(r) /\ Trouble /\ Store(r, new) /\ work' = [work EXCEPT ![r] = Idle]

\* Something failed: for a cause of its own, unless the process is being stopped.
Blamed(r, t) == IF mode[r] = "active" THEN failed \union {t} ELSE failed

\* A queue that was shut down still hands out what is in it.  The TaskRun and
\* the definitions come from caches; a lookup that fails fails the TaskRun.
Fetch(r, t) ==
    /\ mode[r] \in {"active", "stopping"} /\ work[r] = Idle /\ t \in queue[r]
    /\ queue' = [queue EXCEPT ![r] = @ \ {t}]
    /\ \E st \in {status[t]} \union past[t] :
           LET read(pc) == work' = [work EXCEPT ![r] =
                   [pc |-> pc, t |-> t, copy |-> st, todo |-> NativeSteps(t), found |-> FALSE]]
           IN  \/ /\ st = status[t] /\ st.phase \in Terminal
                  /\ UNCHANGED <<work, failed, troubles>>
               \/ /\ st.phase \notin Terminal
                  /\ IF st = status[t] THEN UNCHANGED troubles ELSE Trouble
                  /\ read(IF st.phase = "" THEN "start" ELSE "route")
                  /\ UNCHANGED failed
               \/ /\ st = status[t] /\ st.phase \notin Terminal
                  /\ Trouble
                  /\ read("failing")
                  /\ failed' = Blamed(r, t)
    /\ UNCHANGED <<elect, processes, cluster>>

Start(r) ==
    /\ work[r].pc = "start"
    /\ LET new == [work[r].copy EXCEPT !.phase = "Running"]
       IN  \/ /\ UpdateOk(r, new)
              /\ work' = [work EXCEPT ![r].copy = new, ![r].pc = "route"]
           \/ UpdateError(r, new)
    /\ UNCHANGED <<elect, processes, params, job, failed>>

RouteNative(r) ==
    /\ work[r].pc = "route" /\ RunnerSteps(work[r].t) = {}
    /\ Goto(r, "native")
    /\ UNCHANGED <<elect, processes, queue, cluster, failed, troubles>>

\* What a lagging cache may show of a Job.
Earlier(state) ==
    CASE state = "none"   -> {}
      [] state = "active" -> {"none"}
      [] OTHER            -> {"none", "active"}

\* What the Job looks like in the cache decides; without one, is there a ConfigMap?
reconcileJob(r) ==
    /\ work[r].pc = "route" /\ RunnerSteps(work[r].t) # {}
    /\ LET t == work[r].t
       IN  \/ \E seen \in {job[t]} \union Earlier(job[t]), found \in BOOLEAN :
                  /\ found => t \in params
                  /\ IF seen = job[t] /\ found = (t \in params) THEN UNCHANGED troubles
                     ELSE Trouble
                  /\ \/ /\ seen = "none"
                        /\ work' = [work EXCEPT ![r].pc = "params", ![r].found = found]
                        /\ UNCHANGED queue
                     \/ seen = "active" /\ Return(r, TRUE)
                     \/ seen = "succeeded" /\ Goto(r, "native") /\ UNCHANGED queue
                     \/ seen = "failed" /\ Goto(r, "failing") /\ UNCHANGED queue
           \/ Trouble /\ Return(r, TRUE)
    /\ UNCHANGED <<elect, processes, cluster, failed>>

\* Create answers AlreadyExists when another process was faster or the cache
\* lags.  Any error fails the TaskRun.
ensureParamsConfigMap(r) ==
    /\ work[r].pc = "params"
    /\ LET t == work[r].t
           accepted == mode[r] = "active" /\ work[r].found = (t \in params)
       IN  \/ /\ accepted
              /\ params' = params \union {t}
              /\ Goto(r, "create")
              /\ UNCHANGED <<failed, troubles>>
           \/ /\ \/ ~accepted /\ UNCHANGED <<params, troubles>>
                 \/ accepted /\ Trouble /\ params' \in {params, params \union {t}}
              /\ Goto(r, "failing")
              /\ failed' = Blamed(r, t)
    /\ UNCHANGED <<elect, processes, queue, stored, job>>

CreateJob(r) ==
    /\ work[r].pc = "create"
    /\ LET t == work[r].t
           accepted == mode[r] = "active" /\ job[t] = "none"
           created == job' = [job EXCEPT ![t] = "active"] /\ queue' = Queued(Replicas, t)
       IN  \/ accepted /\ created /\ Goto(r, "mark") /\ UNCHANGED troubles
           \/ ~accepted /\ Return(r, TRUE) /\ UNCHANGED <<job, troubles>>
           \/ accepted /\ Trouble /\ Return(r, TRUE) /\ UNCHANGED job
           \/ accepted /\ Trouble /\ created /\ work' = [work EXCEPT ![r] = Idle]
    /\ UNCHANGED <<elect, processes, stored, params, failed>>

MarkRunnersRunning(r) ==
    /\ work[r].pc = "mark"
    /\ LET new == [work[r].copy EXCEPT !.started = TRUE]
       IN  \/ UpdateOk(r, new) /\ work' = [work EXCEPT ![r] = Idle]
           \/ UpdateError(r, new)
    /\ UNCHANGED <<elect, processes, params, job, failed>>

\* The first of the steps still to do is i, and of this kind.
AtStep(r, i, kind) ==
    /\ work[r].pc = "native" /\ i \in work[r].todo
    /\ \A j \in work[r].todo : i <= j
    /\ Pipeline[work[r].t][i] = kind

\* Also in a process that is being stopped: a cached read needs no call.
StepSucceeds(r) ==
    /\ \E i \in work[r].todo :
           AtStep(r, i, "native") /\ work' = [work EXCEPT ![r].todo = @ \ {i}]
    /\ UNCHANGED <<elect, processes, queue, cluster, failed, troubles>>

\* For a reason of its own, or because the context is cancelled.
StepErrs(r) ==
    /\ \E i \in work[r].todo : AtStep(r, i, "native")
    /\ Goto(r, "failing")
    /\ failed' = Blamed(r, work[r].t)
    /\ UNCHANGED <<elect, processes, queue, cluster, troubles>>

\* Mutated form: the wait is left to a requeue, and the next reconcile begins at
\* the first step again.
WaitElapsedRequeued(r) ==
    /\ \E i \in work[r].todo : AtStep(r, i, "wait")
    /\ Return(r, TRUE)
    /\ UNCHANGED <<elect, processes, cluster, failed, troubles>>

\* Both may be ready when the select statement looks: it takes either.
WaitElapsed(r) ==
    /\ \E i \in work[r].todo :
           AtStep(r, i, "wait") /\ work' = [work EXCEPT ![r].todo = @ \ {i}]
    /\ UNCHANGED <<elect, processes, queue, cluster, failed, troubles>>

\* Mutated form: the worker just sleeps.
WaitCancelledNever(r) == FALSE /\ UNCHANGED vars

WaitCancelled(r) ==
    /\ mode[r] = "stopping" /\ \E i \in work[r].todo : AtStep(r, i, "wait")
    /\ Goto(r, "failing")
    /\ UNCHANGED <<elect, processes, queue, cluster, failed, troubles>>

SetTerminal(r, phase) ==
    /\ LET new == [work[r].copy EXCEPT !.phase = phase]
       IN  \/ UpdateOk(r, new) /\ work' = [work EXCEPT ![r] = Idle]
           \/ UpdateError(r, new)
    /\ UNCHANGED <<elect, processes, params, job, failed>>

MarkSucceeded(r) ==
    /\ work[r].pc = "native" /\ work[r].todo = {}
    /\ SetTerminal(r, "Succeeded")

\* Mutated form: a TaskRun with a failed step is handed back as Pending.
MarkFailedPending(r) == work[r].pc = "failing" /\ SetTerminal(r, "Pending")

MarkFailed(r) == work[r].pc = "failing" /\ SetTerminal(r, "Failed")

-----------------------------------------------------------------------------
(* The cluster.                                                            *)

Apply(t) ==
    /\ status[t] = NoStatus
    /\ status' = [status EXCEPT ![t] = NewStatus]
    /\ queue' = Queued(Replicas, t)
    /\ UNCHANGED <<elect, processes, work, past, params, job, failed, troubles>>

RunJob(t) ==
    /\ job[t] = "active"
    /\ \/ job' = [job EXCEPT ![t] = "succeeded"] /\ UNCHANGED failed
       \/ job' = [job EXCEPT ![t] = "failed"] /\ failed' = failed \union {t}
    /\ queue' = Queued(Replicas, t)
    /\ UNCHANGED <<elect, processes, work, stored, params, troubles>>

-----------------------------------------------------------------------------

Init ==
    /\ elect \in BOOLEAN
    /\ lease = None
    /\ mode = [r \in Replicas |-> "down"]
    /\ queue = [r \in Replicas |-> {}]
    /\ work = [r \in Replicas |-> Idle]
    /\ status = [t \in TaskRuns |-> NoStatus] /\ past = [t \in TaskRuns |-> {}]
    /\ params = {} /\ failed = {} /\ troubles = 0
    /\ job = [t \in TaskRuns |-> "none"]

\* What the worker does without waiting for anything.
Step(r) ==
    \/ Start(r) \/ RouteNative(r) \/ reconcileJob(r)
    \/ ensureParamsConfigMap(r) \/ CreateJob(r) \/ MarkRunnersRunning(r)
    \/ StepSucceeds(r) \/ StepErrs(r) \/ WaitCancelled(r)
    \/ MarkSucceeded(r) \/ MarkFailed(r)

Next ==
    \/ \E r \in Replicas :
           \/ main(r) \/ Elected(r) \/ SetupSignalHandler(r) \/ Exit(r)
           \/ Kill(r) \/ GracePeriodEnds(r)
           \/ \E t \in TaskRuns : Fetch(r, t)
           \/ Step(r) \/ WaitElapsed(r)
    \/ LeaseExpires
    \/ \E t \in TaskRuns : Apply(t) \/ RunJob(t)

Spec == Init /\ [][Next]_vars

\* What a process does of itself.  A wait may outlast the grace period: that it
\* ends in time is assumed only of a process that is not being stopped.
Process(r) ==
    \/ main(r) \/ Exit(r) \/ Step(r)
    \/ \E t \in TaskRuns : Fetch(r, t)
    \/ mode[r] = "active" /\ WaitElapsed(r)

\* Processes are restarted and run, waits are finite, leases run out and are
\* taken, Jobs end.  Nothing is assumed of the order of the queue.
Fairness ==
    /\ \A r \in Replicas : WF_vars(Process(r))
    /\ WF_vars(LeaseExpires \/ \E r \in Replicas : Elected(r))
    /\ \A t \in TaskRuns : WF_vars(RunJob(t))

FairSpec == Spec /\ Fairness

-----------------------------------------------------------------------------
(* Properties.                                                             *)

Status == [phase : {"absent", "", "Running"} \union Terminal, started : BOOLEAN]

\* Every variable has its type, and a worker is busy only in a process that is
\* up and has a TaskRun at hand.
TypeOK ==
    /\ elect \in BOOLEAN /\ lease \in Replicas \union {None}
    /\ mode \in [Replicas -> {"down", "standby", "active", "stopping"}]
    /\ queue \in [Replicas -> SUBSET TaskRuns]
    /\ work \in [Replicas ->
           [pc : {"idle", "start", "route", "params", "create", "mark", "native", "failing"},
            t : TaskRuns \union {None}, copy : Status, todo : SUBSET Nat,
            found : BOOLEAN]]
    /\ \A r \in Replicas : work[r] # Idle =>
           mode[r] \in {"active", "stopping"} /\ work[r].t # None
    /\ status \in [TaskRuns -> Status] /\ past \in [TaskRuns -> SUBSET Status]
    /\ params \subseteq TaskRuns /\ failed \subseteq TaskRuns
    /\ job \in [TaskRuns -> {"none", "active", "succeeded", "failed"}]
    /\ troubles \in 0..MaxTroubles[elect]

\* Stopping a process fails no TaskRun, although its worker goes on through the
\* code for failed steps: a stored failure has a cause of its own, in a process
\* that was not being stopped: a step, the Job, the params ConfigMap or a lookup
\* failed.
FailsForCause ==
    \A t \in TaskRuns : status[t].phase = "Failed" => t \in failed

\* Whoever serves it, with or without leader election, a finished TaskRun keeps
\* its result.
FinalStatus ==
    [][\A t \in TaskRuns : status[t].phase \in Terminal => status'[t] = status[t]]_vars

\* Every TaskRun that is applied ends, although all share one worker, waits
\* occupy it and processes are stopped, die and take over from each other.
AllServed ==
    \A t \in TaskRuns : status[t] # NoStatus ~> status[t].phase \in Terminal

\* A process that is told to stop ends by itself: the select in wait frees the
\* worker, and nothing new occupies it.
StopsPromptly == \A r \in Replicas : mode[r] = "stopping" ~> mode[r] = "down"
=============================================================================
