----------------------- MODULE ControllerManagerProofs -----------------------
(***************************************************************************)
(* Machine-checked proofs about ControllerManager, for any number of       *)
(* processes, TaskRuns, stops, lagging reads and failing calls, and all    *)
(* pipelines.                                                              *)
(***************************************************************************)
EXTENDS ControllerManager, TLAPS

-----------------------------------------------------------------------------
(* Types.                                                                  *)

Pcs    == {"idle", "start", "route", "params", "create", "mark", "native", "failing"}
Work   == [pc : Pcs, t : TaskRuns \union {None}, copy : Status, todo : SUBSET Nat,
           found : BOOLEAN]
Queues == [Replicas -> SUBSET TaskRuns]
Pasts  == [TaskRuns -> SUBSET Status]
Up(r)  == mode[r] \in {"active", "stopping"}

\* There were as many troubles as are allowed for, or fewer.
Bounded == troubles \in 0..MaxTroubles[elect]

\* What is true of every variable by itself.
Types ==
    /\ elect \in BOOLEAN /\ lease \in Replicas \union {None}
    /\ mode \in [Replicas -> {"down", "standby", "active", "stopping"}]
    /\ queue \in Queues
    /\ work \in [Replicas -> Work]
    /\ status \in [TaskRuns -> Status] /\ past \in Pasts
    /\ params \subseteq TaskRuns /\ failed \subseteq TaskRuns
    /\ job \in [TaskRuns -> {"none", "active", "succeeded", "failed"}]
    /\ Bounded

\* A busy worker is in a process that is up, has a TaskRun at hand, and read it
\* when it was not terminal.
Busy(r) == work[r] # Idle => Up(r) /\ work[r].t # None /\ work[r].copy.phase \notin Terminal

TypeInv == Types /\ \A r \in Replicas : Busy(r)

\* One worker gets new locals, the others keep theirs.
LEMMA WorkSet ==
    ASSUME Types, NEW r \in Replicas, NEW w \in Work, work' = [work EXCEPT ![r] = w]
    PROVE  /\ work' \in [Replicas -> Work] /\ work'[r] = w
           /\ \A q \in Replicas \ {r} : work'[q] = work[q]
PROOF BY DEF Types

\* The values a worker and a TaskRun begin with have their types.
LEMMA IdleType == Idle \in Work /\ NoStatus \in Status /\ NewStatus \in Status
PROOF BY DEF Idle, Work, Pcs, NoStatus, NewStatus, Status

\* Queueing a TaskRun keeps the queues well-formed.
LEMMA QueuedType ==
    ASSUME Types, NEW rs, NEW t \in TaskRuns
    PROVE  Queued(rs, t) \in Queues
PROOF BY DEF Types, Queues, Queued

\* One more trouble is still within the bound, and so is none.
LEMMA TroubleType ==
    ASSUME Types, Trouble \/ UNCHANGED troubles, UNCHANGED elect
    PROVE  Bounded'
PROOF
<1>1. PICK m : m = MaxTroubles[elect]
  OBVIOUS
<1>2. m \in Nat
  <2>1. elect \in BOOLEAN
    BY DEF Types
  <2> QED BY <1>1, <2>1, BoundsAssumption, Zenon
<1>3. MaxTroubles[elect'] = m
  BY <1>1
<1>4. troubles \in 0..m /\ (troubles' = troubles \/ (troubles < m /\ troubles' = troubles + 1))
  BY <1>1 DEF Types, Bounded, Trouble
<1>5. troubles' \in 0..m
  BY <1>2, <1>4
<1> QED BY <1>3, <1>5 DEF Bounded

\* A worker that has left "idle" has a TaskRun.
LEMMA AtWork ==
    ASSUME TypeInv, NEW r \in Replicas, work[r].pc # "idle"
    PROVE  /\ work[r] # Idle /\ Up(r) /\ work[r] \in Work /\ work[r].t \in TaskRuns
           /\ work[r].copy \in Status /\ work[r].copy.phase \notin Terminal
PROOF
<1>1. work[r] \in Work
  BY DEF TypeInv, Types
<1>2. work[r] # Idle
  BY DEF Idle
<1> QED BY <1>1, <1>2 DEF TypeInv, Busy, Work

\* Going on with a reconcile changes only where its process is.
LEMMA GotoWork ==
    ASSUME TypeInv, NEW r \in Replicas, work[r].pc # "idle", NEW x \in Pcs \ {"idle"}, Goto(r, x)
    PROVE  /\ work' \in [Replicas -> Work]
           /\ work'[r] = [work[r] EXCEPT !.pc = x]
           /\ work'[r].pc = x /\ work'[r].t = work[r].t /\ work'[r].copy = work[r].copy
           /\ work'[r].found = work[r].found
           /\ \A q \in Replicas \ {r} : work'[q] = work[q]
PROOF
<1> DEFINE w == [work[r] EXCEPT !.pc = x]
<1>1. work[r] \in Work
  BY DEF TypeInv, Types
<1>2. w \in Work /\ w.pc = x /\ w.t = work[r].t /\ w.copy = work[r].copy /\ w.found = work[r].found
  BY <1>1 DEF Work
<1>3. work' = [work EXCEPT ![r] = w]
  BY DEF Goto
<1> HIDE DEF w
<1> QED BY <1>2, <1>3, WorkSet DEF TypeInv, w

\* Returning from a reconcile leaves the process idle and no other changed.
LEMMA ReturnWork ==
    ASSUME TypeInv, NEW r \in Replicas, work[r].pc # "idle", NEW b \in BOOLEAN, Return(r, b)
    PROVE  /\ work' \in [Replicas -> Work] /\ work'[r] = Idle /\ queue' \in Queues
           /\ \A q \in Replicas \ {r} : work'[q] = work[q]
PROOF
<1>1. queue' \in Queues
  BY AtWork, QueuedType DEF TypeInv, Types, Return
<1>2. work' = [work EXCEPT ![r] = Idle]
  BY DEF Return
<1> QED BY <1>1, <1>2, WorkSet, IdleType DEF TypeInv

\* What an accepted write stores has its type.
LEMMA StoreTypes ==
    ASSUME TypeInv, NEW r \in Replicas, work[r].pc # "idle", NEW new \in Status, Store(r, new)
    PROVE  status' \in [TaskRuns -> Status] /\ past' \in Pasts /\ queue' \in Queues
PROOF
<1>1. work[r].t \in TaskRuns /\ status \in [TaskRuns -> Status] /\ past \in Pasts
  BY AtWork DEF TypeInv, Types
<1>2. queue' \in Queues
  BY <1>1, QueuedType DEF TypeInv, Store
<1>3. status' \in [TaskRuns -> Status] /\ past' \in Pasts
  BY <1>1 DEF Store, Pasts
<1> QED BY <1>2, <1>3

\* An accepted write came from an active process and replaced a status that was
\* not final.
LEMMA Stored ==
    ASSUME TypeInv, NEW r \in Replicas, work[r].pc # "idle", NEW new \in Status,
           Accepted(r), Store(r, new)
    PROVE  /\ status'[work[r].t] = new /\ status[work[r].t].phase \notin Terminal
           /\ \A t \in TaskRuns \ {work[r].t} : status'[t] = status[t]
           /\ mode[r] = "active"
PROOF
<1>1. work[r].t \in TaskRuns /\ work[r].copy.phase \notin Terminal /\ Up(r)
  BY AtWork
<1>2. status \in [TaskRuns -> Status]
  BY DEF TypeInv, Types
<1> QED BY <1>1, <1>2 DEF Store, Accepted, Conflict, Cancelled, Up

\* A step of one worker, which keeps its TaskRun or comes to rest.
LEMMA WorkerStep ==
    ASSUME TypeInv, NEW r \in Replicas, work[r].pc # "idle",
           UNCHANGED <<elect, processes>>, Trouble \/ UNCHANGED troubles,
           work' \in [Replicas -> Work], queue' \in Queues,
           status' \in [TaskRuns -> Status], past' \in Pasts, params' \subseteq TaskRuns,
           failed' \subseteq TaskRuns,
           job' \in [TaskRuns -> {"none", "active", "succeeded", "failed"}],
           \A q \in Replicas \ {r} : work'[q] = work[q],
           \/ work'[r] = Idle
           \/ work'[r].t = work[r].t /\ work'[r].copy.phase \notin Terminal
    PROVE  TypeInv'
PROOF
<1>1. Types'
  <2>1. Bounded'
    BY TroubleType DEF TypeInv
  <2>2. elect' \in BOOLEAN
    BY DEF TypeInv, Types
  <2> QED BY <2>1, <2>2 DEF TypeInv, Types, processes, Queues, Pasts, Work, Pcs, Status
<1>2. ASSUME NEW q \in Replicas PROVE Busy(q)'
  <2>1. CASE q = r
    BY <2>1, AtWork, NoneAssumption DEF Busy, Up, processes
  <2>2. CASE q # r
    BY <2>2 DEF TypeInv, Busy, Up, processes
  <2> QED BY <2>1, <2>2
<1> QED BY <1>1, <1>2 DEF TypeInv

\* The worker takes fewer steps with it.
LEMMA TodoWork ==
    ASSUME TypeInv, NEW r \in Replicas, work[r].pc # "idle", NEW i,
           work' = [work EXCEPT ![r].todo = @ \ {i}]
    PROVE  /\ work' \in [Replicas -> Work]
           /\ work'[r].pc = work[r].pc /\ work'[r].t = work[r].t
           /\ work'[r].copy = work[r].copy /\ work'[r].found = work[r].found
           /\ \A q \in Replicas \ {r} : work'[q] = work[q]
PROOF
<1> DEFINE w == [work[r] EXCEPT !.todo = @ \ {i}]
<1>1. work[r] \in Work
  BY DEF TypeInv, Types
<1>2. /\ w \in Work /\ w.pc = work[r].pc /\ w.t = work[r].t /\ w.copy = work[r].copy
      /\ w.found = work[r].found
  BY <1>1 DEF Work
<1>3. work' = [work EXCEPT ![r] = w]
  OBVIOUS
<1> HIDE DEF w
<1> QED BY <1>2, <1>3, WorkSet DEF TypeInv

\* A process that ends, starts or is elected leaves an idle worker behind.
LEMMA ModeStep ==
    ASSUME TypeInv, NEW r \in Replicas,
           NEW m \in {"down", "standby", "active", "stopping"}, mode' = [mode EXCEPT ![r] = m],
           UNCHANGED <<elect, cluster, failed>>, Trouble \/ UNCHANGED troubles,
           lease' \in Replicas \union {None}, queue' \in Queues,
           \/ work' = work /\ (Up(r) => m = "stopping")
           \/ work' = [work EXCEPT ![r] = Idle]
    PROVE  TypeInv'
PROOF
<1>1. /\ mode' \in [Replicas -> {"down", "standby", "active", "stopping"}]
      /\ mode'[r] = m /\ \A q \in Replicas \ {r} : mode'[q] = mode[q]
  BY DEF TypeInv, Types
<1>2. /\ work' \in [Replicas -> Work] /\ \A q \in Replicas \ {r} : work'[q] = work[q]
      /\ work'[r] = Idle \/ (work' = work /\ (Up(r) => m = "stopping"))
  BY WorkSet, IdleType DEF TypeInv, Types
<1>3. Types'
  <2>1. Bounded'
    BY TroubleType DEF TypeInv
  <2>2. elect' \in BOOLEAN
    BY DEF TypeInv, Types
  <2> QED BY <1>1, <1>2, <2>1, <2>2
          DEF TypeInv, Types, cluster, stored, Queues, Pasts, Work, Pcs, Status
<1>4. ASSUME NEW q \in Replicas PROVE Busy(q)'
  <2>1. CASE q = r
    BY <1>1, <1>2, <2>1 DEF TypeInv, Busy, Up
  <2>2. CASE q # r
    BY <1>1, <1>2, <2>2 DEF TypeInv, Busy, Up
  <2> QED BY <2>1, <2>2
<1> QED BY <1>3, <1>4 DEF TypeInv

\* The worker's write after which it rests, whatever becomes of it.
LEMMA WriteTypes ==
    ASSUME TypeInv, NEW r \in Replicas, work[r].pc # "idle", NEW new \in Status,
           \/ UpdateOk(r, new) /\ work' = [work EXCEPT ![r] = Idle]
           \/ UpdateError(r, new),
           UNCHANGED <<elect, processes, params, job, failed>>
    PROVE  TypeInv' /\ work'[r] = Idle /\ \A q \in Replicas \ {r} : work'[q] = work[q]
PROOF
<1>1. /\ \/ Store(r, new) /\ work' = [work EXCEPT ![r] = Idle]
         \/ Return(r, TRUE) /\ UNCHANGED <<status, past>>
      /\ Trouble \/ UNCHANGED troubles
  BY DEF UpdateOk, UpdateError, stored
<1>2. /\ work' \in [Replicas -> Work] /\ work'[r] = Idle
      /\ \A q \in Replicas \ {r} : work'[q] = work[q]
  BY <1>1, ReturnWork, WorkSet, IdleType DEF TypeInv
<1>3. status' \in [TaskRuns -> Status] /\ past' \in Pasts /\ queue' \in Queues
  BY <1>1, StoreTypes, ReturnWork DEF TypeInv, Types
<1>4. /\ params' \subseteq TaskRuns /\ failed' \subseteq TaskRuns
      /\ job' \in [TaskRuns -> {"none", "active", "succeeded", "failed"}]
  BY DEF TypeInv, Types
<1> QED BY <1>1, <1>2, <1>3, <1>4, WorkerStep

\* A copy with another phase or mark is a status.
LEMMA NewTypes ==
    ASSUME NEW st \in Status
    PROVE  /\ \A ph \in {"Running", "Succeeded", "Failed"} :
                  [st EXCEPT !.phase = ph] \in Status /\ [st EXCEPT !.phase = ph].phase = ph
           /\ [st EXCEPT !.started = TRUE] \in Status
           /\ [st EXCEPT !.started = TRUE].phase = st.phase
PROOF BY DEF Status, Terminal

\* Every step of every process preserves the types.
LEMMA TypeNext ==
    ASSUME TypeInv, Next
    PROVE  TypeInv'
PROOF
<1> USE DEF cluster, stored, processes
<1>1. /\ Types /\ queue \in Queues /\ work \in [Replicas -> Work]
      /\ status \in [TaskRuns -> Status] /\ past \in Pasts
      /\ lease \in Replicas \union {None}
      /\ params \subseteq TaskRuns /\ failed \subseteq TaskRuns
      /\ job \in [TaskRuns -> {"none", "active", "succeeded", "failed"}]
      /\ mode \in [Replicas -> {"down", "standby", "active", "stopping"}]
  BY DEF TypeInv, Types
<1>2. ASSUME NEW r \in Replicas,
             main(r) \/ Elected(r) \/ SetupSignalHandler(r)
      PROVE  TypeInv'
  <2>1. PICK m \in {"standby", "active", "stopping"} : mode' = [mode EXCEPT ![r] = m]
    BY <1>2 DEF main, Elected, SetupSignalHandler
  <2>2. /\ UNCHANGED <<elect, cluster, failed>> /\ work' = work
        /\ lease' \in Replicas \union {None} /\ (Trouble \/ UNCHANGED troubles)
    BY <1>1, <1>2 DEF main, Elected, SetupSignalHandler
  <2>3. queue' \in Queues
    BY <1>1, <1>2 DEF main, Elected, SetupSignalHandler, Queues
  <2>4. Up(r) => m = "stopping"
    BY <1>1, <1>2, <2>1 DEF main, Elected, SetupSignalHandler, Up
  <2> QED BY <2>1, <2>2, <2>3, <2>4, ModeStep
<1>3. ASSUME NEW r \in Replicas, Exit(r) \/ Kill(r) \/ GracePeriodEnds(r)
      PROVE  TypeInv'
  <2>1. /\ mode' = [mode EXCEPT ![r] = "down"] /\ work' = [work EXCEPT ![r] = Idle]
        /\ UNCHANGED <<elect, cluster, failed, lease>> /\ (Trouble \/ UNCHANGED troubles)
    BY <1>1, <1>3 DEF Exit, Kill, GracePeriodEnds, Down
  <2>2. queue' \in Queues
    BY <1>1, <1>3 DEF Exit, Kill, GracePeriodEnds, Down, Queues
  <2> QED BY <1>1, <2>1, <2>2, ModeStep
<1>4. ASSUME NEW r \in Replicas, NEW t \in TaskRuns, Fetch(r, t)
      PROVE  TypeInv'
  <2>1. /\ UNCHANGED <<elect, lease, mode, status, past, params, job>>
        /\ Trouble \/ UNCHANGED troubles
        /\ queue' = [queue EXCEPT ![r] = @ \ {t}] /\ Up(r)
        /\ failed' \subseteq failed \union {t}
    BY <1>4 DEF Fetch, Up, Blamed
  <2>2. elect' \in BOOLEAN /\ queue' \in Queues /\ failed' \subseteq TaskRuns /\ Bounded'
    <3>1. elect \in BOOLEAN /\ Bounded'
      BY <1>1, <2>1, TroubleType DEF Types
    <3>2. queue' \in Queues /\ failed' \subseteq TaskRuns
      BY <1>1, <2>1 DEF Queues
    <3> QED BY <2>1, <3>1, <3>2
  <2>3. CASE UNCHANGED work
    BY <1>1, <2>1, <2>2, <2>3 DEF TypeInv, Types, Busy, Up
  <2>4. CASE ~UNCHANGED work
    <3>1. PICK st \in {status[t]} \union past[t], x \in {"start", "route", "failing"} :
              /\ st.phase \notin Terminal
              /\ work' = [work EXCEPT ![r] = [pc |-> x, t |-> t, copy |-> st,
                                              todo |-> NativeSteps(t), found |-> FALSE]]
      BY <1>4, <2>4 DEF Fetch
    <3> DEFINE w == [pc |-> x, t |-> t, copy |-> st, todo |-> NativeSteps(t), found |-> FALSE]
    <3>2. NativeSteps(t) \in SUBSET Nat /\ st \in Status
      BY <1>1, <3>1, PipelineAssumption DEF NativeSteps, RunnerSteps, Pasts
    <3>3. w \in Work /\ w.t = t /\ w.copy = st
      BY <1>1, <3>2 DEF Work, Pcs
    <3>4. work' = [work EXCEPT ![r] = w]
      BY <3>1
    <3> HIDE DEF w
    <3>5. /\ work' \in [Replicas -> Work] /\ work'[r] = w
          /\ \A q \in Replicas \ {r} : work'[q] = work[q]
      BY <1>1, <3>3, <3>4, WorkSet
    <3>6. Types'
      BY <1>1, <2>1, <2>2, <3>5 DEF Types, Queues, Pasts, Work, Pcs, Status
    <3>7. ASSUME NEW q \in Replicas PROVE Busy(q)'
      BY <2>1, <3>1, <3>3, <3>5, NoneAssumption DEF TypeInv, Busy, Up
    <3> QED BY <3>6, <3>7 DEF TypeInv
  <2> QED BY <2>3, <2>4
<1>5. ASSUME NEW r \in Replicas, Start(r)
      PROVE  TypeInv'
  <2>1. PICK new : new = [work[r].copy EXCEPT !.phase = "Running"]
    OBVIOUS
  <2>2. /\ work[r].pc # "idle" /\ UNCHANGED <<elect, processes, params, job, failed>>
        /\ \/ UpdateOk(r, new) /\ work' = [work EXCEPT ![r].copy = new, ![r].pc = "route"]
           \/ UpdateError(r, new)
    BY <1>5, <2>1 DEF Start
  <2>3. new \in Status /\ new.phase = "Running" /\ work[r] \in Work
    BY <2>1, <2>2, AtWork, NewTypes
  <2>4. CASE UpdateError(r, new)
    BY <2>2, <2>3, <2>4, WriteTypes
  <2>5. CASE UpdateOk(r, new) /\ work' = [work EXCEPT ![r].copy = new, ![r].pc = "route"]
    <3> DEFINE w == [work[r] EXCEPT !.copy = new, !.pc = "route"]
    <3>1. w \in Work /\ w.t = work[r].t /\ w.copy = new
      BY <2>3 DEF Work, Pcs
    <3>2. work' = [work EXCEPT ![r] = w]
      BY <1>1, <2>5
    <3> HIDE DEF w
    <3>3. /\ work' \in [Replicas -> Work] /\ work'[r] = w
          /\ \A q \in Replicas \ {r} : work'[q] = work[q]
      BY <1>1, <3>1, <3>2, WorkSet
    <3>4. /\ status' \in [TaskRuns -> Status] /\ past' \in Pasts /\ queue' \in Queues
          /\ UNCHANGED troubles
      BY <2>2, <2>3, <2>5, StoreTypes DEF UpdateOk
    <3>5. work'[r].t = work[r].t /\ work'[r].copy.phase \notin Terminal
      BY <2>3, <3>1, <3>3 DEF Terminal
    <3> QED BY <1>1, <2>2, <3>3, <3>4, <3>5, WorkerStep
  <2> QED BY <2>2, <2>4, <2>5
<1>6. ASSUME NEW r \in Replicas, work[r].pc # "idle", NEW x \in Pcs \ {"idle"}, Goto(r, x),
             UNCHANGED <<elect, processes, stored>>, Trouble \/ UNCHANGED troubles,
             queue' \in Queues,
             params' \subseteq TaskRuns, failed' \subseteq TaskRuns,
             job' \in [TaskRuns -> {"none", "active", "succeeded", "failed"}]
      PROVE  TypeInv'
  <2>1. /\ work' \in [Replicas -> Work] /\ work'[r].t = work[r].t
        /\ work'[r].copy = work[r].copy
        /\ \A q \in Replicas \ {r} : work'[q] = work[q]
    BY <1>6, GotoWork
  <2>2. /\ work'[r].copy.phase \notin Terminal
        /\ status' \in [TaskRuns -> Status] /\ past' \in Pasts
    BY <1>1, <1>6, <2>1, AtWork
  <2> QED BY <1>6, <2>1, <2>2, WorkerStep
<1>7. ASSUME NEW r \in Replicas, RouteNative(r) \/ StepErrs(r) \/ WaitCancelled(r)
      PROVE  TypeInv'
  <2>1. /\ work[r].pc # "idle" /\ (Goto(r, "native") \/ Goto(r, "failing"))
        /\ UNCHANGED <<elect, processes, queue, cluster, troubles>>
        /\ failed' \subseteq failed \union {work[r].t}
    BY <1>7 DEF RouteNative, StepErrs, WaitCancelled, AtStep, Blamed
  <2>2. work[r].t \in TaskRuns
    BY <2>1, AtWork
  <2> QED BY <1>1, <1>6, <2>1, <2>2 DEF Pcs
<1>8. ASSUME NEW r \in Replicas, work[r].pc # "idle", Return(r, TRUE),
             UNCHANGED <<elect, processes, cluster, failed>>, Trouble \/ UNCHANGED troubles
      PROVE  TypeInv'
  <2>1. /\ work' \in [Replicas -> Work] /\ work'[r] = Idle /\ queue' \in Queues
        /\ \A q \in Replicas \ {r} : work'[q] = work[q]
    BY <1>8, ReturnWork
  <2> QED BY <1>1, <1>8, <2>1, WorkerStep
<1>9. ASSUME NEW r \in Replicas, reconcileJob(r)
      PROVE  TypeInv'
  <2>1. /\ work[r].pc # "idle" /\ UNCHANGED <<elect, processes, cluster, failed>>
        /\ Trouble \/ UNCHANGED troubles
    BY <1>9 DEF reconcileJob
  <2>2. CASE \/ Goto(r, "native") /\ UNCHANGED queue
             \/ Goto(r, "failing") /\ UNCHANGED queue
    BY <1>1, <1>6, <2>1, <2>2 DEF Pcs
  <2>3. CASE Return(r, TRUE)
    BY <1>8, <2>1, <2>3
  <2>4. CASE \E b \in BOOLEAN : /\ work' = [work EXCEPT ![r].pc = "params", ![r].found = b]
                                /\ UNCHANGED queue
    <3>1. PICK b \in BOOLEAN : /\ work' = [work EXCEPT ![r].pc = "params", ![r].found = b]
                               /\ UNCHANGED queue
      BY <2>4
    <3> DEFINE w == [work[r] EXCEPT !.pc = "params", !.found = b]
    <3>2. work[r] \in Work /\ work[r].copy.phase \notin Terminal
      BY <2>1, AtWork
    <3>3. w \in Work /\ w.t = work[r].t /\ w.copy = work[r].copy
      BY <3>2 DEF Work, Pcs
    <3>4. work' = [work EXCEPT ![r] = w]
      BY <1>1, <3>1
    <3> HIDE DEF w
    <3>5. /\ work' \in [Replicas -> Work] /\ work'[r] = w
          /\ \A q \in Replicas \ {r} : work'[q] = work[q]
      BY <1>1, <3>3, <3>4, WorkSet
    <3> QED BY <1>1, <2>1, <3>1, <3>2, <3>3, <3>5, WorkerStep
  <2>5. \/ \E b \in BOOLEAN : /\ work' = [work EXCEPT ![r].pc = "params", ![r].found = b]
                              /\ UNCHANGED queue
        \/ Return(r, TRUE)
        \/ Goto(r, "native") /\ UNCHANGED queue
        \/ Goto(r, "failing") /\ UNCHANGED queue
    BY <1>9, Zenon DEF reconcileJob
  <2> QED BY <2>2, <2>3, <2>4, <2>5
<1>10. ASSUME NEW r \in Replicas, ensureParamsConfigMap(r)
       PROVE  TypeInv'
  <2>1. /\ work[r].pc # "idle" /\ (Goto(r, "create") \/ Goto(r, "failing"))
        /\ UNCHANGED <<elect, processes, queue, stored, job>> /\ (Trouble \/ UNCHANGED troubles)
        /\ params' \subseteq params \union {work[r].t}
        /\ failed' \subseteq failed \union {work[r].t}
    BY <1>10 DEF ensureParamsConfigMap, Blamed
  <2>2. work[r].t \in TaskRuns
    BY <2>1, AtWork
  <2> QED BY <1>1, <1>6, <2>1, <2>2 DEF Pcs
<1>11. ASSUME NEW r \in Replicas, CreateJob(r)
       PROVE  TypeInv'
  <2>1. /\ work[r].pc # "idle" /\ UNCHANGED <<elect, processes, stored, params, failed>>
        /\ Trouble \/ UNCHANGED troubles
    BY <1>11 DEF CreateJob
  <2>2. work[r].t \in TaskRuns
    BY <2>1, AtWork
  <2>3. CASE Return(r, TRUE) /\ UNCHANGED job
    BY <1>8, <2>1, <2>3
  <2>4. CASE /\ job' = [job EXCEPT ![work[r].t] = "active"]
             /\ queue' = Queued(Replicas, work[r].t)
             /\ Goto(r, "mark") \/ work' = [work EXCEPT ![r] = Idle]
    <3>1. /\ job' \in [TaskRuns -> {"none", "active", "succeeded", "failed"}]
          /\ queue' \in Queues
      BY <1>1, <2>2, <2>4, QueuedType
    <3>2. CASE Goto(r, "mark")
      BY <1>1, <1>6, <2>1, <3>1, <3>2 DEF Pcs
    <3>3. CASE work' = [work EXCEPT ![r] = Idle]
      <4>1. /\ work' \in [Replicas -> Work] /\ work'[r] = Idle
            /\ \A q \in Replicas \ {r} : work'[q] = work[q]
        BY <1>1, <3>3, WorkSet, IdleType
      <4> QED BY <1>1, <2>1, <3>1, <4>1, WorkerStep
    <3> QED BY <2>4, <3>2, <3>3
  <2> QED BY <1>11, <2>3, <2>4 DEF CreateJob
<1>12. ASSUME NEW r \in Replicas, MarkRunnersRunning(r) \/ MarkSucceeded(r) \/ MarkFailed(r)
       PROVE  TypeInv'
  <2>1. /\ work[r].pc # "idle" /\ UNCHANGED <<elect, processes, params, job, failed>>
    BY <1>12 DEF MarkRunnersRunning, MarkSucceeded, MarkFailed, SetTerminal
  <2>2. PICK new \in {[work[r].copy EXCEPT !.started = TRUE],
                      [work[r].copy EXCEPT !.phase = "Succeeded"],
                      [work[r].copy EXCEPT !.phase = "Failed"]} :
            \/ UpdateOk(r, new) /\ work' = [work EXCEPT ![r] = Idle]
            \/ UpdateError(r, new)
    BY <1>12 DEF MarkRunnersRunning, MarkSucceeded, MarkFailed, SetTerminal
  <2>3. new \in Status
    <3>1. work[r].copy \in Status
      BY <2>1, AtWork
    <3>2. /\ [work[r].copy EXCEPT !.started = TRUE] \in Status
          /\ [work[r].copy EXCEPT !.phase = "Succeeded"] \in Status
          /\ [work[r].copy EXCEPT !.phase = "Failed"] \in Status
      BY <3>1 DEF Status, Terminal
    <3> QED BY <2>2, <3>2, Zenon
  <2> QED BY <2>1, <2>2, <2>3, WriteTypes
<1>13. ASSUME NEW r \in Replicas, StepSucceeds(r) \/ WaitElapsed(r)
       PROVE  TypeInv'
  <2>1. PICK i : work' = [work EXCEPT ![r].todo = @ \ {i}]
    BY <1>13 DEF StepSucceeds, WaitElapsed
  <2>2. work[r].pc # "idle" /\ UNCHANGED <<elect, processes, queue, cluster, failed, troubles>>
    BY <1>13 DEF StepSucceeds, WaitElapsed, AtStep
  <2>3. /\ work' \in [Replicas -> Work] /\ work'[r].t = work[r].t
        /\ work'[r].copy = work[r].copy
        /\ \A q \in Replicas \ {r} : work'[q] = work[q]
    BY <2>1, <2>2, TodoWork
  <2> QED BY <1>1, <2>2, <2>3, AtWork, WorkerStep
<1>14. CASE LeaseExpires
  <2>1. UNCHANGED <<elect, mode, queue, work, cluster, failed, troubles>> /\ lease' = None
    BY <1>14 DEF LeaseExpires
  <2>2. elect' \in BOOLEAN /\ Bounded'
    BY <1>1, <2>1, TroubleType DEF Types
  <2> QED BY <1>1, <2>1, <2>2 DEF TypeInv, Types, Busy, Up
<1>15. ASSUME NEW t \in TaskRuns, Apply(t) \/ RunJob(t)
       PROVE  TypeInv'
  <2>1. queue' \in Queues
    BY <1>1, <1>15, QueuedType DEF Apply, RunJob
  <2>2. /\ status' \in [TaskRuns -> Status] /\ failed' \subseteq TaskRuns
        /\ job' \in [TaskRuns -> {"none", "active", "succeeded", "failed"}]
        /\ UNCHANGED <<elect, lease, mode, work, past, params, troubles>>
    BY <1>1, <1>15, IdleType DEF Apply, RunJob
  <2>3. elect' \in BOOLEAN /\ Bounded'
    BY <1>1, <2>2, TroubleType DEF Types
  <2> QED BY <1>1, <2>1, <2>2, <2>3 DEF TypeInv, Types, Busy, Up
<1> QED
  BY <1>2, <1>3, <1>4, <1>5, <1>7, <1>9, <1>10, <1>11, <1>12, <1>13, <1>14, <1>15 DEF Next, Step

\* The types hold throughout.
LEMMA TypeInductive == Spec => []TypeInv
PROOF
<1>1. Init => TypeInv
  <2>1. ASSUME Init PROVE Bounded
    <3>1. PICK m : m = MaxTroubles[elect]
      OBVIOUS
    <3>2. elect \in BOOLEAN /\ troubles = 0
      BY <2>1 DEF Init
    <3>3. m \in Nat
      BY <3>1, <3>2, BoundsAssumption, Zenon
    <3> QED BY <3>1, <3>2, <3>3 DEF Bounded
  <2> QED BY <2>1, IdleType, NoneAssumption DEF Init, TypeInv, Types, Busy, Queues, Pasts
<1>2. TypeInv /\ [Next]_vars => TypeInv'
  <2>1. ASSUME TypeInv, UNCHANGED vars PROVE TypeInv'
    <3>1. /\ UNCHANGED <<elect, lease, mode, queue, work, status, past>>
          /\ UNCHANGED <<params, job, failed, troubles>>
      BY <2>1 DEF vars, processes, cluster, stored
    <3>2. elect' \in BOOLEAN /\ Bounded'
      BY <2>1, <3>1, TroubleType DEF TypeInv, Types
    <3> QED BY <2>1, <3>1, <3>2 DEF TypeInv, Types, Busy, Up, Queues, Pasts, Work, Pcs, Status
  <2> QED BY <2>1, TypeNext
<1> QED BY <1>1, <1>2, PTL DEF Spec

\* Every variable keeps its type, and only the worker of a process that is up is
\* busy, however processes start, stop, die and take over from each other.
THEOREM Typing == Spec => []TypeOK
PROOF
<1>1. TypeInv => TypeOK
  BY DEF TypeInv, Types, Bounded, Busy, Up, TypeOK, Queues, Pasts, Work, Pcs
<1> QED BY <1>1, TypeInductive, PTL

-----------------------------------------------------------------------------
(* What a step does to the stored statuses.                                *)

\* Every step but an accepted write of a worker, and the arrival of a TaskRun,
\* leaves the statuses alone.
LEMMA StatusSteps ==
    ASSUME TypeInv, Next, NEW t \in TaskRuns, status'[t] # status[t]
    PROVE  /\ status[t].phase \notin Terminal
           /\ status'[t].phase = "Failed" =>
                  \E r \in Replicas : /\ work[r].pc = "failing" /\ mode[r] = "active"
                                      /\ work[r].t = t
PROOF
<1> USE DEF cluster, stored, processes
<1>1. ASSUME NEW r \in Replicas, work[r].pc # "idle", NEW new \in Status,
             Accepted(r), Store(r, new),
             new.phase = "Failed" => work[r].pc = "failing"
      PROVE  /\ status[t].phase \notin Terminal
             /\ status'[t].phase = "Failed" =>
                    work[r].pc = "failing" /\ mode[r] = "active" /\ work[r].t = t
  BY <1>1, Stored
<1>2. ASSUME NEW r \in Replicas, work[r].pc # "idle"
      PROVE  /\ [work[r].copy EXCEPT !.phase = "Running"] \in Status
             /\ [work[r].copy EXCEPT !.phase = "Running"].phase # "Failed"
             /\ [work[r].copy EXCEPT !.started = TRUE] \in Status
             /\ [work[r].copy EXCEPT !.started = TRUE].phase # "Failed"
             /\ [work[r].copy EXCEPT !.phase = "Succeeded"] \in Status
             /\ [work[r].copy EXCEPT !.phase = "Succeeded"].phase # "Failed"
             /\ [work[r].copy EXCEPT !.phase = "Failed"] \in Status
  <2>1. work[r].copy \in Status /\ work[r].copy.phase \notin Terminal
    BY <1>2, AtWork
  <2> QED BY <2>1, NewTypes DEF Terminal
<1>3. ASSUME NEW r \in Replicas,
             Start(r) \/ MarkRunnersRunning(r) \/ MarkSucceeded(r) \/ MarkFailed(r)
      PROVE  \E new \in Status : /\ Accepted(r) /\ Store(r, new) /\ work[r].pc # "idle"
                                 /\ new.phase = "Failed" => work[r].pc = "failing"
  <2>1. ASSUME NEW new, UpdateOk(r, new) \/ UpdateError(r, new)
        PROVE  Accepted(r) /\ Store(r, new)
    BY <2>1 DEF UpdateOk, UpdateError
  <2> QED BY <1>2, <1>3, <2>1 DEF Start, MarkRunnersRunning, MarkSucceeded, MarkFailed, SetTerminal
<1>4. ASSUME NEW u \in TaskRuns, Apply(u)
      PROVE  status[t].phase \notin Terminal /\ status'[t].phase # "Failed"
  <2>1. t = u /\ status[t] = NoStatus /\ status'[t] = NewStatus
    BY <1>4 DEF Apply, TypeInv, Types
  <2>2. NoStatus.phase = "absent" /\ NewStatus.phase = ""
    BY DEF NoStatus, NewStatus
  <2> QED BY <2>1, <2>2 DEF Terminal
<1>5. \/ \E r \in Replicas : \/ Start(r) \/ MarkRunnersRunning(r) \/ MarkSucceeded(r)
                             \/ MarkFailed(r)
      \/ \E u \in TaskRuns : Apply(u)
  BY DEF Next, Step, main, Elected, SetupSignalHandler, Exit, Kill, GracePeriodEnds, Fetch,
     RouteNative, reconcileJob, ensureParamsConfigMap, CreateJob, StepSucceeds, StepErrs,
     WaitElapsed, WaitCancelled, LeaseExpires, RunJob
<1> QED BY <1>1, <1>3, <1>4, <1>5

\* A finished TaskRun keeps its result, whoever serves it, with or without
\* leader election: a write by a process that read an older status is refused.
THEOREM Final == Spec => FinalStatus
PROOF
<1>1. TypeInv /\ [Next]_vars
        => [\A t \in TaskRuns : status[t].phase \in Terminal => status'[t] = status[t]]_vars
  BY StatusSteps
<1> QED BY <1>1, TypeInductive, PTL DEF Spec, FinalStatus

-----------------------------------------------------------------------------
(* A stored failure has a cause of its own.                                *)

\* A worker whose process is not being stopped is on its way to MarkFailed
\* because something failed.
Blame == \A r \in Replicas :
    work[r].pc = "failing" /\ mode[r] = "active" => work[r].t \in failed

\* A failed Job is one of the causes.
JobBlame == \A t \in TaskRuns : job[t] = "failed" => t \in failed

\* A stored failure has a cause.
Failures == \A t \in TaskRuns : status[t].phase = "Failed" => t \in failed

CauseInv == Blame /\ JobBlame /\ Failures

\* The history of failures only grows.
LEMMA FailedGrows ==
    ASSUME Next
    PROVE  failed \subseteq failed'
PROOF
<1>1. ASSUME NEW r \in Replicas, NEW t \in TaskRuns, Fetch(r, t)
      PROVE  failed \subseteq failed'
  BY <1>1 DEF Fetch, Blamed
<1>2. ASSUME NEW r \in Replicas, ensureParamsConfigMap(r) \/ StepErrs(r)
      PROVE  failed \subseteq failed'
  BY <1>2 DEF ensureParamsConfigMap, StepErrs, Blamed
<1>3. ASSUME NEW t \in TaskRuns, RunJob(t)
      PROVE  failed \subseteq failed'
  BY <1>3 DEF RunJob
<1>4. \/ failed' = failed
      \/ \E r \in Replicas : \/ \E t \in TaskRuns : Fetch(r, t)
                             \/ ensureParamsConfigMap(r) \/ StepErrs(r)
      \/ \E t \in TaskRuns : RunJob(t)
  BY DEF Next, Step, main, Elected, SetupSignalHandler, Exit, Kill, GracePeriodEnds, Start,
     RouteNative, reconcileJob, CreateJob, MarkRunnersRunning, StepSucceeds, WaitElapsed,
     WaitCancelled, MarkSucceeded, MarkFailed, SetTerminal, LeaseExpires, Apply
<1> QED BY <1>1, <1>2, <1>3, <1>4

\* The steps after which a worker is about to fail its TaskRun.
LEMMA Moves ==
    ASSUME TypeInv, Next, NEW r \in Replicas, work'[r] # work[r],
           work'[r].pc = "failing"
    PROVE  \/ \E t \in TaskRuns : Fetch(r, t)
           \/ reconcileJob(r) \/ ensureParamsConfigMap(r) \/ StepErrs(r) \/ WaitCancelled(r)
PROOF
<1> USE DEF cluster, stored, processes
<1>1. work \in [Replicas -> Work] /\ work[r] \in Work /\ Idle.pc = "idle"
  BY DEF TypeInv, Types, Idle
<1>2. ASSUME NEW q \in Replicas, NEW w, work' = [work EXCEPT ![q] = w]
      PROVE  q = r /\ w = work'[r]
  BY <1>1, <1>2
<1>3. ASSUME NEW q \in Replicas, NEW w, work' = [work EXCEPT ![q] = w],
             w.pc # "failing"
      PROVE  FALSE
  BY <1>2, <1>3
<1>4. ASSUME NEW q \in Replicas, NEW x \in Pcs, Goto(q, x)
      PROVE  q = r /\ x = "failing"
  <2>1. work' = [work EXCEPT ![q] = [work[q] EXCEPT !.pc = x]]
    BY <1>4 DEF Goto
  <2>2. [work[q] EXCEPT !.pc = x].pc = x
    BY <1>1 DEF Work
  <2> QED BY <1>2, <2>1, <2>2
<1>5. ASSUME NEW q \in Replicas, NEW b, Return(q, b)
      PROVE  FALSE
  BY <1>1, <1>3, <1>5 DEF Return
<1>6. CASE UNCHANGED work
  BY <1>6
<1>7. ASSUME NEW q \in Replicas, Exit(q) \/ Kill(q) \/ GracePeriodEnds(q)
      PROVE  FALSE
  BY <1>1, <1>3, <1>7 DEF Exit, Kill, GracePeriodEnds, Down
<1>8. ASSUME NEW q \in Replicas, NEW t \in TaskRuns, Fetch(q, t)
      PROVE  q = r
  <2>1. PICK w : work' = [work EXCEPT ![q] = w]
    BY <1>6, <1>8 DEF Fetch
  <2> QED BY <1>2, <2>1
<1>9. ASSUME NEW q \in Replicas, Start(q)
      PROVE  FALSE
  <2>1. PICK new : new = [work[q].copy EXCEPT !.phase = "Running"]
    OBVIOUS
  <2>2. \/ work' = [work EXCEPT ![q].copy = new, ![q].pc = "route"]
        \/ UpdateError(q, new)
    BY <1>9, <2>1 DEF Start
  <2>3. ASSUME work' = [work EXCEPT ![q].copy = new, ![q].pc = "route"]
        PROVE  FALSE
    <3>1. work' = [work EXCEPT ![q] = [work[q] EXCEPT !.copy = new, !.pc = "route"]]
      BY <1>1, <2>3
    <3>2. [work[q] EXCEPT !.copy = new, !.pc = "route"].pc = "route"
      BY <1>1 DEF Work
    <3> QED BY <1>3, <3>1, <3>2
  <2>4. ~UpdateError(q, new)
    BY <1>1, <1>3, <1>5 DEF UpdateError
  <2> QED BY <2>2, <2>3, <2>4
<1>10. ASSUME NEW q \in Replicas, MarkRunnersRunning(q) \/ MarkSucceeded(q) \/ MarkFailed(q)
       PROVE  FALSE
  <2>1. PICK new : \/ work' = [work EXCEPT ![q] = Idle]
                   \/ UpdateError(q, new)
    BY <1>10 DEF MarkRunnersRunning, MarkSucceeded, MarkFailed, SetTerminal
  <2> QED BY <1>1, <1>3, <1>5, <2>1 DEF UpdateError
<1>11. ASSUME NEW q \in Replicas, RouteNative(q) \/ CreateJob(q)
       PROVE  FALSE
  BY <1>1, <1>3, <1>4, <1>5, <1>11 DEF RouteNative, CreateJob, Pcs
<1>12. ASSUME NEW q \in Replicas, StepSucceeds(q) \/ WaitElapsed(q)
       PROVE  FALSE
  <2>1. PICK i : work' = [work EXCEPT ![q].todo = @ \ {i}]
    BY <1>12 DEF StepSucceeds, WaitElapsed
  <2>2. work[q].pc = "native"
    BY <1>12 DEF StepSucceeds, WaitElapsed, AtStep
  <2>3. work'[q].pc = "native" /\ (q # r => work'[r] = work[r])
    BY <2>1, <2>2, TodoWork
  <2> QED BY <2>3
<1>13. ASSUME NEW q \in Replicas, reconcileJob(q)
       PROVE  q = r
  <2>1. \/ \E b : work' = [work EXCEPT ![q].pc = "params", ![q].found = b]
        \/ Return(q, TRUE) \/ Goto(q, "native") \/ Goto(q, "failing")
    BY <1>13, Zenon DEF reconcileJob
  <2>2. ASSUME NEW b, work' = [work EXCEPT ![q].pc = "params", ![q].found = b]
        PROVE  FALSE
    <3>1. work' = [work EXCEPT ![q] = [work[q] EXCEPT !.pc = "params", !.found = b]]
      BY <1>1, <2>2
    <3>2. [work[q] EXCEPT !.pc = "params", !.found = b].pc = "params"
      BY <1>1 DEF Work
    <3> QED BY <1>3, <3>1, <3>2
  <2> QED BY <1>4, <1>5, <2>1, <2>2 DEF Pcs
<1>14. ASSUME NEW q \in Replicas, ensureParamsConfigMap(q) \/ StepErrs(q) \/ WaitCancelled(q)
       PROVE  q = r
  BY <1>4, <1>14 DEF ensureParamsConfigMap, StepErrs, WaitCancelled, Pcs
<1>15. CASE \/ \E q \in Replicas : main(q) \/ Elected(q) \/ SetupSignalHandler(q)
            \/ LeaseExpires \/ \E t \in TaskRuns : Apply(t) \/ RunJob(t)
  BY <1>6, <1>15 DEF main, Elected, SetupSignalHandler, LeaseExpires, Apply, RunJob
<1> QED
  BY <1>7, <1>8, <1>9, <1>10, <1>11, <1>12, <1>13, <1>14, <1>15 DEF Next, Step

\* Where the two ways to move on leave a worker.
LEMMA Left ==
    ASSUME TypeInv, NEW r \in Replicas, work[r].pc # "idle"
    PROVE  /\ Goto(r, "native") => work'[r].pc = "native"
           /\ Goto(r, "create") => work'[r].pc = "create"
           /\ Goto(r, "failing") => work'[r].pc = "failing" /\ work'[r].t = work[r].t
           /\ Return(r, TRUE) => work'[r].pc = "idle"
PROOF
<1>1. \A x \in Pcs \ {"idle"} : Goto(r, x) => work'[r].pc = x /\ work'[r].t = work[r].t
  BY GotoWork
<1>2. Idle.pc = "idle"
  BY DEF Idle
<1>3. Return(r, TRUE) => work'[r] = Idle
  <2>1. TRUE \in BOOLEAN
    OBVIOUS
  <2> QED BY <2>1, ReturnWork, Zenon
<1>4. {"native", "create", "failing"} \subseteq Pcs \ {"idle"}
  BY DEF Pcs
<1> QED BY <1>1, <1>2, <1>3, <1>4

\* A reconcile only comes to fail a TaskRun for a cause.
LEMMA BlameNext ==
    ASSUME TypeInv, Blame, JobBlame, Next
    PROVE  Blame'
PROOF
<1> USE DEF cluster, stored, processes
<1> SUFFICES ASSUME NEW r \in Replicas, work'[r].pc = "failing", mode'[r] = "active"
             PROVE  work'[r].t \in failed'
  BY DEF Blame
<1>1. CASE work'[r] = work[r]
  <2>1. failed \subseteq failed'
    BY FailedGrows
  <2>2. Up(r)
    BY <1>1, AtWork
  <2>3. mode[r] = "active"
    <3>1. mode \in [Replicas -> {"down", "standby", "active", "stopping"}]
      BY DEF TypeInv, Types
    <3> QED
      BY <2>2, <3>1 DEF Up, Next, Step, main, Elected, SetupSignalHandler, Exit, Kill,
         GracePeriodEnds, Down, Fetch, Start, RouteNative, reconcileJob, ensureParamsConfigMap,
         CreateJob, MarkRunnersRunning, StepSucceeds, StepErrs, WaitElapsed, WaitCancelled,
         MarkSucceeded, MarkFailed, SetTerminal, LeaseExpires, Apply, RunJob
  <2> QED BY <1>1, <2>1, <2>3 DEF Blame
<1>2. CASE work'[r] # work[r]
  <2>1. CASE \E t \in TaskRuns : Fetch(r, t)
    <3>1. PICK t \in TaskRuns : Fetch(r, t)
      BY <2>1
    <3>2. PICK st, x : work' = [work EXCEPT ![r] =
              [pc |-> x, t |-> t, copy |-> st, todo |-> NativeSteps(t), found |-> FALSE]]
      BY <1>2, <3>1 DEF Fetch
    <3> DEFINE w == [pc |-> x, t |-> t, copy |-> st, todo |-> NativeSteps(t), found |-> FALSE]
    <3>3. work'[r] = w
      BY <3>2 DEF TypeInv, Types
    <3>4. w.t = t /\ w.pc = x
      OBVIOUS
    <3>5. work'[r].t = t
      BY <3>3, <3>4
    <3>6. failed' = Blamed(r, t)
      <4> DEFINE v(z, c) == [pc |-> z, t |-> t, copy |-> c, todo |-> NativeSteps(t),
                             found |-> FALSE]
      <4>1. ASSUME NEW c, NEW z \in {"start", "route"}, work' = [work EXCEPT ![r] = v(z, c)]
            PROVE  FALSE
        <5>1. work'[r] = v(z, c)
          BY <4>1 DEF TypeInv, Types
        <5>2. v(z, c).pc = z
          OBVIOUS
        <5> QED BY <5>1, <5>2
      <4>2. \/ failed' = Blamed(r, t)
            \/ \E c : \E z \in {"start", "route"} : work' = [work EXCEPT ![r] = v(z, c)]
        BY <1>2, <3>1 DEF Fetch
      <4> QED BY <4>1, <4>2
    <3>7. mode[r] = "active"
      BY <3>1 DEF Fetch
    <3> QED BY <3>5, <3>6, <3>7 DEF Blamed
  <2>2. CASE reconcileJob(r) \/ ensureParamsConfigMap(r) \/ StepErrs(r) \/ WaitCancelled(r)
    <3>1. work[r].pc # "idle" /\ mode[r] = "active"
      BY <2>2 DEF reconcileJob, ensureParamsConfigMap, StepErrs, WaitCancelled, AtStep
    <3>2. Goto(r, "failing") => work'[r].t = work[r].t
      BY <3>1, Left
    <3>3. ASSUME Goto(r, "native") \/ Goto(r, "create") PROVE FALSE
      BY <3>1, <3>3, Left
    <3>4. ASSUME Return(r, TRUE) PROVE FALSE
      BY <3>1, <3>4, Left
    <3>5. CASE reconcileJob(r)
      <4>1. ASSUME NEW b, work' = [work EXCEPT ![r].pc = "params", ![r].found = b] PROVE FALSE
        BY <4>1 DEF TypeInv, Types, Work
      <4>2. PICK seen \in {job[work[r].t]} \union Earlier(job[work[r].t]) :
                Goto(r, "failing") /\ seen = "failed" /\ failed' = failed
        BY <3>3, <3>4, <3>5, <4>1, Zenon DEF reconcileJob
      <4>3. work[r].t \in TaskRuns /\ job[work[r].t] = "failed"
        <5>1. job[work[r].t] = "none" \/ job[work[r].t] = "active"
              \/ job[work[r].t] = "succeeded" \/ job[work[r].t] = "failed"
          BY <3>1, AtWork DEF TypeInv, Types
        <5>2. "failed" \notin Earlier(job[work[r].t])
          BY <5>1 DEF Earlier
        <5> QED BY <3>1, <4>2, <5>2, AtWork
      <4> QED BY <3>2, <4>2, <4>3 DEF JobBlame
    <3>6. CASE ensureParamsConfigMap(r)
      <4>1. Goto(r, "failing") /\ failed' = Blamed(r, work[r].t)
        BY <3>3, <3>6, Zenon DEF ensureParamsConfigMap
      <4> QED BY <3>1, <3>2, <4>1 DEF Blamed
    <3>7. CASE StepErrs(r)
      BY <3>1, <3>2, <3>7 DEF StepErrs, Blamed
    <3>8. CASE WaitCancelled(r)
      BY <3>1, <3>8 DEF WaitCancelled
    <3> QED BY <2>2, <3>5, <3>6, <3>7, <3>8
  <2> QED BY <1>2, <2>1, <2>2, Moves
<1> QED BY <1>1, <1>2

\* A Job only fails for a cause.
LEMMA JobBlameNext ==
    ASSUME TypeInv, JobBlame, Next
    PROVE  JobBlame'
PROOF
<1> USE DEF cluster, stored, processes
<1>1. job \in [TaskRuns -> {"none", "active", "succeeded", "failed"}]
  BY DEF TypeInv, Types
<1>2. failed \subseteq failed'
  BY FailedGrows
<1>3. ASSUME NEW r \in Replicas, CreateJob(r)
      PROVE  JobBlame'
  BY <1>1, <1>2, <1>3 DEF CreateJob, JobBlame
<1>4. ASSUME NEW t \in TaskRuns, RunJob(t)
      PROVE  JobBlame'
  BY <1>1, <1>2, <1>4 DEF RunJob, JobBlame
<1>5. \/ job' = job
      \/ \E r \in Replicas : CreateJob(r)
      \/ \E t \in TaskRuns : RunJob(t)
  BY DEF Next, Step, main, Elected, SetupSignalHandler, Exit, Kill, GracePeriodEnds, Fetch,
     Start, RouteNative, reconcileJob, ensureParamsConfigMap, MarkRunnersRunning,
     StepSucceeds, StepErrs, WaitElapsed, WaitCancelled, MarkSucceeded, MarkFailed,
     SetTerminal, LeaseExpires, Apply
<1> QED BY <1>2, <1>3, <1>4, <1>5 DEF JobBlame

\* A stored failure has a cause, which does not go away.
LEMMA FailuresNext ==
    ASSUME TypeInv, Blame, Failures, Next
    PROVE  Failures'
PROOF
<1>1. failed \subseteq failed'
  BY FailedGrows
<1>2. SUFFICES ASSUME NEW t \in TaskRuns, status'[t].phase = "Failed"
               PROVE  t \in failed
  BY <1>1 DEF Failures
<1>3. CASE status'[t] = status[t]
  BY <1>2, <1>3 DEF Failures
<1>4. CASE status'[t] # status[t]
  BY <1>2, <1>4, StatusSteps DEF Blame
<1> QED BY <1>3, <1>4

\* No TaskRun fails because a process was stopped, in the middle of a wait, of a
\* call or of a write, or was replaced: whatever is stored as failed was failed by a
\* process that was not being stopped, after a step, the Job, the params ConfigMap
\* or a lookup had failed; with caches that lag and calls that fail at any time, and
\* with or without leader election.
THEOREM Cause == Spec => []FailsForCause
PROOF
<1>1. Init => CauseInv
  BY DEF Init, CauseInv, Blame, JobBlame, Failures, Idle, NoStatus
<1>2. TypeInv /\ CauseInv /\ [Next]_vars => CauseInv'
  <2>1. CauseInv /\ UNCHANGED vars => CauseInv'
    BY DEF CauseInv, Blame, JobBlame, Failures, vars, processes, cluster, stored
  <2> QED BY <2>1, BlameNext, JobBlameNext, FailuresNext DEF CauseInv
<1>3. CauseInv => FailsForCause
  BY DEF CauseInv, Failures, FailsForCause
<1> QED BY <1>1, <1>2, <1>3, TypeInductive, PTL DEF Spec

=============================================================================
