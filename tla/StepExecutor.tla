---------------------------- MODULE StepExecutor ----------------------------
(***************************************************************************)
(* The API-native steps of one TaskRun, executed in the controller         *)
(* (internal/controller/executor.go).  TaskRunController treats a step as  *)
(* something that succeeds or fails; here it is the calls it makes: a Get  *)
(* answered from a lagging cache, then a Create or an Update that the API  *)
(* server accepts only if it is based on the latest version.               *)
(*                                                                         *)
(* Other writers change the same objects at any time.  The controller may  *)
(* run the whole list again at any time, because it crashed or because its *)
(* status write was refused: what was done stays done.                     *)
(*                                                                         *)
(* Simplifications: an object is a function from keys to values; a rollout *)
(* restart writes the key of the restart annotation, in whole seconds; an  *)
(* object's name includes the namespace resolveNamespace returns; a wait   *)
(* takes an arbitrary finite time; of the outputs only those of secret-read*)
(* are kept ("updated" and "restarted" have fixed texts).                  *)
(***************************************************************************)
EXTENDS Integers, Sequences

CONSTANTS
    Plans,       \* lists of steps
    Objects,     \* names of Secrets, ConfigMaps and workloads
    Existing,    \* the objects that exist at the start
    Keys,        \* keys of an object's data
    Values,      \* what a key may hold
    Absent,      \* the value of a key that is not there
    Blank,       \* the empty string, a value a key may hold
    InitialValue,\* what every key of an existing object holds at the start
    MaxEdits,    \* writes by others
    MaxReruns,   \* times the list is run again
    MaxFaults,   \* calls that fail
    MaxClock     \* where the clock, in seconds, stops

Updates == {"secret-update", "configmap-update"}
Known   == Updates \union {"secret-read", "rollout-restart", "wait", "assert"}

ASSUME ValuesAssumption ==
    /\ Absent \notin Values
    /\ Blank \in Values /\ InitialValue \in Values /\ 0..MaxClock \subseteq Values
ASSUME ExistingAssumption == Existing \subseteq Objects
ASSUME PlansAssumption ==
    Plans \subseteq Seq([action : STRING, object : Objects, key : Keys, value : Values,
                         valueFrom : Nat, valid : BOOLEAN])
ASSUME ReferencesAssumption ==
    \A p \in Plans : \A i \in 1..Len(p) : p[i].valueFrom # 0 =>
        p[i].valueFrom \in 1..(i - 1) /\ p[p[i].valueFrom].action = "secret-read"
ASSUME BoundsAssumption ==
    MaxEdits \in Nat /\ MaxReruns \in Nat /\ MaxFaults \in Nat /\ MaxClock \in Nat

VARIABLES
    plan,     \* the TaskRun's API-native steps
    log,      \* every stored version of each object, oldest first
    seen,     \* the version of each object in the cache, 0 when it holds none
    pc,       \* "next", "write", "sleep", "done" or "failed"
    at,       \* the step being executed
    copy,     \* the object the step read: version and data
    outputs,  \* the value each secret-read produced
    clock,    \* the time, in seconds
    began,    \* when this execution of the list began
    foreign,  \* the objects somebody else has written
    edits, reruns, faults

store  == <<log, seen, foreign>>
bounds == <<edits, reruns, faults>>
time   == <<clock, began>>
vars == <<plan, store, pc, at, copy, outputs, time, bounds>>

Data      == [Keys -> Values \union {Absent}]
Empty     == [k \in Keys |-> Absent]
Latest(o) == log[o][Len(log[o])]
Op        == plan[at]
Cached(o) == IF seen[o] = 0 THEN Empty ELSE log[o][seen[o]]

\* Mutated form: the template is written as it stands.
ValueUnresolved(op) == IF op.valueFrom # 0 THEN op.valueFrom ELSE op.value

\* valueFrom, already resolved by the template engine, goes before value unless
\* it is empty.
Value(op) ==
    IF op.valueFrom # 0 /\ outputs[op.valueFrom] # Blank
    THEN outputs[op.valueFrom] ELSE op.value

Produced(v) ==
    /\ outputs' = [outputs EXCEPT ![at] = v]
    /\ at' = at + 1
    /\ pc' = "next"

Failed == pc' = "failed" /\ UNCHANGED <<at, outputs>>

AtStep(actions) == pc = "next" /\ at <= Len(plan) /\ Op.action \in actions

-----------------------------------------------------------------------------
(* The steps.                                                              *)

\* secretUpdate and configmapUpdate read the object, or find there is none.
GetForUpdate ==
    /\ AtStep(Updates)
    /\ copy' = [rv |-> seen[Op.object],
                data |-> [Cached(Op.object) EXCEPT ![Op.key] = Value(Op)]]
    /\ pc' = "write"
    /\ UNCHANGED <<plan, store, at, outputs, time, bounds>>

\* rolloutRestart knows three kinds and does not create what it does not find.
GetForRestart ==
    /\ AtStep({"rollout-restart"})
    /\ IF ~Op.valid \/ seen[Op.object] = 0
       THEN Failed /\ UNCHANGED copy
       ELSE /\ copy' = [rv |-> seen[Op.object],
                        data |-> [Cached(Op.object) EXCEPT ![Op.key] = clock]]
            /\ pc' = "write"
            /\ UNCHANGED <<at, outputs>>
    /\ UNCHANGED <<plan, store, time, bounds>>

\* Mutated form: the write replaces whatever version is there.
WriteAcceptedAlways == TRUE

\* Create if the Get found nothing, else Update of the version it returned.
WriteAccepted == copy.rv = Len(log[Op.object])

\* Mutated form: a conflict is not an error.
WriteRefusedIgnored == Produced(Absent)

WriteRefused == Failed

Write ==
    LET stored ==
            log' = IF copy.rv > 0 /\ copy.data = Latest(Op.object) THEN log
                   ELSE [log EXCEPT ![Op.object] = Append(@, copy.data)]
    IN  /\ pc = "write"
        /\ \/ /\ WriteAccepted /\ stored
              /\ Produced(Absent)
              /\ UNCHANGED faults
           \/ /\ ~WriteAccepted
              /\ WriteRefused /\ UNCHANGED <<log, faults>>
           \/ /\ WriteAccepted /\ faults < MaxFaults /\ faults' = faults + 1
              /\ Failed /\ (UNCHANGED log \/ stored)
        /\ UNCHANGED <<plan, seen, foreign, copy, time, edits, reruns>>

\* Mutated form: a missing key is read as a value.
KeyPresentAlways == TRUE

KeyPresent == Cached(Op.object)[Op.key] # Absent

secretRead ==
    /\ AtStep({"secret-read"})
    /\ IF KeyPresent THEN Produced(Cached(Op.object)[Op.key]) ELSE Failed
    /\ UNCHANGED <<plan, store, copy, time, bounds>>

\* The worker sleeps, unless the duration or the timeout cannot be parsed.
wait ==
    /\ AtStep({"wait"})
    /\ IF Op.valid THEN pc' = "sleep" /\ UNCHANGED <<at, outputs>> ELSE Failed
    /\ UNCHANGED <<plan, store, copy, time, bounds>>

WakeUp ==
    /\ pc = "sleep"
    /\ Produced(Absent)
    /\ UNCHANGED <<plan, store, copy, time, bounds>>

\* assert is not implemented, and an unknown action is an error too.
assert ==
    /\ pc = "next" /\ at <= Len(plan)
    /\ Op.action = "assert" \/ Op.action \notin Known
    /\ Failed
    /\ UNCHANGED <<plan, store, copy, time, bounds>>

\* A Get that fails fails its step.
GetError ==
    /\ AtStep(Updates \union {"secret-read", "rollout-restart"})
    /\ faults < MaxFaults /\ faults' = faults + 1
    /\ Failed
    /\ UNCHANGED <<plan, store, copy, time, edits, reruns>>

Finish ==
    /\ pc = "next" /\ at > Len(plan)
    /\ pc' = "done"
    /\ UNCHANGED <<plan, store, at, copy, outputs, time, bounds>>

\* The process is asked to stop while the worker sleeps.
WaitCancelled ==
    /\ pc = "sleep"
    /\ faults < MaxFaults /\ faults' = faults + 1
    /\ Failed
    /\ UNCHANGED <<plan, store, copy, time, edits, reruns>>

-----------------------------------------------------------------------------
(* The rest of the system.                                                 *)

NotRead     == [rv |-> 0, data |-> Empty]
NoOutputs   == [i \in 1..Len(plan) |-> Absent]

\* Another reconcile executes the list from its start; after a crash, with
\* caches that may have been filled with old versions.
Rerun ==
    /\ reruns < MaxReruns /\ reruns' = reruns + 1
    /\ pc' = "next" /\ at' = 1 /\ copy' = NotRead /\ outputs' = NoOutputs
    /\ seen' \in {f \in [Objects -> UNION {0..Len(log[o]) : o \in Objects}] :
                    \A o \in Objects : f[o] <= Len(log[o])}
    /\ began' = clock
    /\ UNCHANGED <<plan, log, foreign, clock, edits, faults>>

Sync(o) ==
    /\ seen[o] < Len(log[o])
    /\ seen' = [seen EXCEPT ![o] = @ + 1]
    /\ UNCHANGED <<plan, log, foreign, pc, at, copy, outputs, time, bounds>>

\* Somebody else sets one key, creating the object if need be.
OtherWrites(o, k, v) ==
    /\ edits < MaxEdits /\ edits' = edits + 1
    /\ log' = [log EXCEPT ![o] =
                  Append(@, [(IF @ = <<>> THEN Empty ELSE Latest(o)) EXCEPT ![k] = v])]
    /\ foreign' = foreign \union {o}
    /\ UNCHANGED <<plan, seen, pc, at, copy, outputs, time, reruns, faults>>

Tick ==
    /\ clock < MaxClock /\ clock' = clock + 1
    /\ UNCHANGED <<plan, store, pc, at, copy, outputs, began, bounds>>

Init ==
    /\ plan \in Plans
    /\ log = [o \in Objects |->
                 IF o \in Existing THEN <<[k \in Keys |-> InitialValue]>> ELSE <<>>]
    /\ seen = [o \in Objects |-> Len(log[o])]
    /\ pc = "next" /\ at = 1 /\ copy = NotRead
    /\ outputs = NoOutputs
    /\ clock = 0 /\ began = 0 /\ foreign = {} /\ edits = 0 /\ reruns = 0 /\ faults = 0

Execute ==
    \/ GetForUpdate \/ GetForRestart \/ Write \/ secretRead
    \/ wait \/ WakeUp \/ WaitCancelled \/ assert \/ GetError \/ Finish

Next ==
    \/ Execute \/ Rerun \/ Tick
    \/ \E o \in Objects : Sync(o)
    \/ \E o \in Objects, k \in Keys, v \in Values : OtherWrites(o, k, v)

Spec == Init /\ [][Next]_vars

-----------------------------------------------------------------------------
(* Properties.                                                             *)

\* Every variable has its type; what is stored, read and produced are values,
\* never a reference to one.
TypeOK ==
    /\ plan \in Plans
    /\ log \in [Objects -> Seq(Data)]
    /\ seen \in [Objects -> Nat] /\ \A o \in Objects : seen[o] <= Len(log[o])
    /\ pc \in {"next", "write", "sleep", "done", "failed"}
    /\ at \in 1..(Len(plan) + 1)
    /\ copy \in [rv : Nat, data : Data]
    /\ outputs \in [1..Len(plan) -> Values \union {Absent}]
    /\ clock \in 0..MaxClock /\ began \in 0..clock
    /\ foreign \subseteq Objects
    /\ edits \in 0..MaxEdits /\ reruns \in 0..MaxReruns /\ faults \in 0..MaxFaults

\* No lost update: a write changes one key of the latest version and keeps the
\* others, although the step read the object before and from a stale cache.
OthersKept ==
    [][\A o \in Objects : log'[o] # log[o] =>
           LET old == IF log[o] = <<>> THEN Empty ELSE Latest(o)
               new == log'[o][Len(log'[o])]
           IN  \E k \in Keys : \A j \in Keys \ {k} : new[j] = old[j]]_vars

Overtaken(i) ==
    \E j \in (i + 1)..Len(plan) :
        /\ plan[j].action \in Updates \union {"rollout-restart"}
        /\ plan[j].object = plan[i].object /\ plan[j].key = plan[i].key

\* When the list is done what its steps report holds on the server: each key
\* has the value of the last step that sets it, each restarted workload an
\* annotation from this execution; objects somebody else writes excepted.
ReportedIsStored ==
    pc = "done" => \A i \in 1..Len(plan) :
        LET held == Latest(plan[i].object)[plan[i].key]
        IN  plan[i].object \notin foreign /\ ~Overtaken(i) =>
                /\ plan[i].action \in Updates => held = Value(plan[i])
                /\ plan[i].action = "rollout-restart" => held \in began..clock

\* The output of a secret-read is a value its key really held at some time.
ReadIsReal ==
    \A i \in 1..(at - 1) : plan[i].action = "secret-read" =>
        /\ outputs[i] # Absent
        /\ \E n \in 1..Len(log[plan[i].object]) :
               log[plan[i].object][n][plan[i].key] = outputs[i]
=============================================================================
