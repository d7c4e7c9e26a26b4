------------------------- MODULE StepExecutorProofs -------------------------
(***************************************************************************)
(* Proofs about StepExecutor for every list of steps and all bounds.  No   *)
(* update is lost because a write carries the version it was based on and  *)
(* the data it carries is that version with one key set (WriteBased).      *)
(***************************************************************************)
EXTENDS StepExecutor, TLAPS

\* Version n of an object; no version is an object without keys.
Version(o, n) == IF n = 0 THEN Empty ELSE log[o][n]

DiffersInOne(new, old) == \E k \in Keys : \A j \in Keys \ {k} : new[j] = old[j]

\* What is about to be written is the version read with one key set.
WriteBased ==
    pc = "write" =>
        /\ at \in 1..Len(plan)
        /\ copy.rv <= Len(log[Op.object])
        /\ DiffersInOne(copy.data, Version(Op.object, copy.rv))

\* A step in progress is a step of the list.
InPlan == pc = "sleep" => at \in 1..Len(plan)

IndInv == TypeOK /\ WriteBased /\ InPlan

-----------------------------------------------------------------------------

\* The step being executed is a well-formed step.
LEMMA OpType ==
    ASSUME plan \in Plans, at \in 1..Len(plan)
    PROVE  /\ Op.action \in STRING /\ Op.object \in Objects /\ Op.key \in Keys
           /\ Op.value \in Values /\ Op.valueFrom \in Nat /\ Op.valid \in BOOLEAN
           /\ Op.valueFrom # 0 => Op.valueFrom \in 1..Len(plan)
  <1> DEFINE Type == [action : STRING, object : Objects, key : Keys, value : Values,
                      valueFrom : Nat, valid : BOOLEAN]
  <1>0. plan \in Seq(Type)
    BY PlansAssumption
  <1>1. Len(plan) \in Nat /\ Op \in Type
    <2> HIDE DEF Type
    <2> QED
      BY <1>0 DEF Op
  <1>2. Op.valueFrom # 0 => Op.valueFrom \in 1..(at - 1)
    BY ReferencesAssumption DEF Op
  <1>3. Op.valueFrom # 0 => Op.valueFrom \in 1..Len(plan)
    BY <1>1, <1>2
  <1> QED
    BY <1>1, <1>3

\* What a step writes is a value or, never in a real list, nothing.
LEMMA ValueType ==
    ASSUME TypeOK, at \in 1..Len(plan)
    PROVE  Value(Op) \in Values \union {Absent}
  BY OpType DEF TypeOK, Value

\* The object an update reads from the cache, if any, has data.
LEMMA CachedType ==
    ASSUME TypeOK, NEW o \in Objects
    PROVE  Cached(o) \in Data /\ Cached(o) = Version(o, seen[o])
  <1>1. Empty \in Data
    BY DEF Empty, Data
  <1>2. seen[o] # 0 => log[o][seen[o]] \in Data
    BY DEF TypeOK
  <1> QED
    BY <1>1, <1>2 DEF Cached, Version

\* Setting one key of some data gives data that differs in that key alone.
LEMMA SetOne ==
    ASSUME NEW d \in Data, NEW k \in Keys, NEW v \in Values \union {Absent}
    PROVE  [d EXCEPT ![k] = v] \in Data /\ DiffersInOne([d EXCEPT ![k] = v], d)
  BY DEF Data, DiffersInOne

\* Ending a step, well or badly, keeps the cursor in the list.
LEMMA EndsType ==
    ASSUME TypeOK, at \in 1..Len(plan),
           \/ Failed
           \/ \E v \in Values \union {Absent} : Produced(v)
    PROVE  /\ pc' \in {"next", "failed"}
           /\ at' \in 1..(Len(plan) + 1)
           /\ outputs' \in [1..Len(plan) -> Values \union {Absent}]
  <1>0. Len(plan) \in Nat
    BY PlansAssumption DEF TypeOK
  <1> QED
    BY <1>0 DEF TypeOK, Failed, Produced

\* The initial state satisfies the invariant.
LEMMA IndInvInit == Init => IndInv
  <1> SUFFICES ASSUME Init PROVE IndInv
    OBVIOUS
  <1>1. plan \in Plans /\ Len(plan) \in Nat
    BY PlansAssumption DEF Init
  <1>2. Empty \in Data /\ [k \in Keys |-> InitialValue] \in Data
    BY ValuesAssumption DEF Empty, Data
  <1>3. log \in [Objects -> Seq(Data)] /\ seen \in [Objects -> Nat]
    BY <1>2 DEF Init
  <1>4. \A o \in Objects : seen[o] <= Len(log[o])
    BY <1>3 DEF Init
  <1>5. copy \in [rv : Nat, data : Data]
    BY <1>2 DEF Init, NotRead
  <1>6. outputs \in [1..Len(plan) -> Values \union {Absent}]
    BY DEF Init, NoOutputs
  <1> QED
    BY <1>1, <1>3, <1>4, <1>5, <1>6, BoundsAssumption DEF Init, IndInv, TypeOK, WriteBased, InPlan

\* Every step of the executor and of the rest of the system preserves it.
LEMMA IndInvNext == IndInv /\ [Next]_vars => IndInv'
  <1> SUFFICES ASSUME IndInv, [Next]_vars PROVE IndInv'
    OBVIOUS
  <1> USE DEF store, time, bounds
  <1>0. /\ TypeOK /\ WriteBased /\ InPlan
        /\ Len(plan) \in Nat
        /\ \A o \in Objects : log[o] \in Seq(Data) /\ Len(log[o]) \in Nat
    BY PlansAssumption DEF IndInv, TypeOK
  <1>1. CASE GetForUpdate
    <2>1. at \in 1..Len(plan) /\ plan' = plan /\ at' = at
      BY <1>0, <1>1 DEF GetForUpdate, AtStep, TypeOK
    <2>2. Op.object \in Objects /\ Op.key \in Keys
      BY <1>0, <2>1, OpType DEF TypeOK
    <2>3. /\ copy'.rv = seen[Op.object]
          /\ copy'.data \in Data
          /\ DiffersInOne(copy'.data, Version(Op.object, seen[Op.object]))
          /\ copy' \in [rv : Nat, data : Data]
      BY <1>0, <1>1, <2>1, <2>2, ValueType, CachedType, SetOne DEF GetForUpdate, TypeOK
    <2>4. TypeOK'
      BY <1>0, <1>1, <2>3 DEF GetForUpdate, TypeOK, Latest
    <2>5. WriteBased'
      BY <1>0, <1>1, <2>1, <2>2, <2>3 DEF GetForUpdate, WriteBased, TypeOK, Op, Version
    <2> QED
      BY <1>1, <2>4, <2>5 DEF IndInv, InPlan, GetForUpdate
  <1>2. CASE GetForRestart
    <2>1. at \in 1..Len(plan) /\ plan' = plan /\ log' = log
      BY <1>0, <1>2 DEF GetForRestart, AtStep, TypeOK
    <2>2. Op.object \in Objects /\ Op.key \in Keys
      BY <1>0, <2>1, OpType DEF TypeOK
    <2>3. CASE pc' = "write"
      <3>1. /\ at' = at /\ outputs' = outputs
            /\ copy'.rv = seen[Op.object]
            /\ copy'.data = [Cached(Op.object) EXCEPT ![Op.key] = clock]
            /\ copy' = [rv |-> seen[Op.object], data |-> copy'.data]
        BY <1>2, <2>3 DEF GetForRestart, Failed
      <3>2. clock \in Values
        BY <1>0, ValuesAssumption DEF TypeOK
      <3>3. /\ copy'.data \in Data
            /\ DiffersInOne(copy'.data, Version(Op.object, seen[Op.object]))
        BY <1>0, <2>2, <3>1, <3>2, CachedType, SetOne
      <3>4. TypeOK'
        BY <1>0, <1>2, <2>2, <2>3, <3>1, <3>3 DEF GetForRestart, TypeOK
      <3>5. WriteBased'
        BY <1>0, <2>1, <2>2, <3>1, <3>3 DEF WriteBased, TypeOK, Op, Version
      <3> QED
        BY <2>3, <3>4, <3>5 DEF IndInv, InPlan
    <2>4. CASE pc' # "write"
      <3>1. Failed /\ copy' = copy
        BY <1>2, <2>4 DEF GetForRestart
      <3> QED
        BY <1>0, <1>2, <2>1, <3>1
        DEF GetForRestart, Failed, IndInv, TypeOK, WriteBased, InPlan
    <2> QED
      BY <2>3, <2>4
  <1>3. CASE Write
    <2>1. at \in 1..Len(plan) /\ copy.data \in Data /\ Op.object \in Objects
      BY <1>0, <1>3, OpType DEF Write, WriteBased, TypeOK
    <2>2. Failed \/ Produced(Absent)
      BY <1>3 DEF Write, WriteRefused
    <2>3. log' = log \/ log' = [log EXCEPT ![Op.object] = Append(@, copy.data)]
      BY <1>3 DEF Write
    <2>4. /\ log' \in [Objects -> Seq(Data)]
          /\ \A o \in Objects : Len(log[o]) <= Len(log'[o])
      <3>1. /\ Append(log[Op.object], copy.data) \in Seq(Data)
            /\ Len(Append(log[Op.object], copy.data)) = Len(log[Op.object]) + 1
        BY <1>0, <2>1
      <3>2. CASE log' = log
        BY <1>0, <3>2 DEF TypeOK
      <3>3. CASE log' = [log EXCEPT ![Op.object] = Append(@, copy.data)]
        <4> DEFINE more == Append(log[Op.object], copy.data)
        <4>1. log' = [log EXCEPT ![Op.object] = more]
          BY <2>1, <3>3
        <4> HIDE DEF more
        <4>2. more \in Seq(Data) /\ Len(more) = Len(log[Op.object]) + 1
          BY <3>1 DEF more
        <4> QED
          BY <1>0, <2>1, <4>1, <4>2 DEF TypeOK
      <3> QED
        BY <2>3, <3>2, <3>3
    <2>5. /\ pc' \in {"next", "failed"} /\ at' \in 1..(Len(plan) + 1)
          /\ outputs' \in [1..Len(plan) -> Values \union {Absent}]
      BY <1>0, <2>1, <2>2, EndsType
    <2>6. faults' \in 0..MaxFaults
      BY <1>0, <1>3, BoundsAssumption DEF Write, TypeOK
    <2>7. TypeOK'
      <3>1. seen' = seen /\ \A o \in Objects : seen[o] <= Len(log'[o])
        <4>1. \A o \in Objects : Len(log'[o]) \in Nat
          BY <2>4
        <4> QED
          BY <1>0, <1>3, <2>4, <4>1 DEF Write, TypeOK
      <3>2. /\ plan' = plan /\ copy' = copy /\ clock' = clock /\ began' = began
            /\ foreign' = foreign /\ edits' = edits /\ reruns' = reruns
        BY <1>3 DEF Write
      <3> QED
        BY <1>0, <2>4, <2>5, <2>6, <3>1, <3>2 DEF TypeOK
    <2> QED
      BY <2>5, <2>7 DEF IndInv, WriteBased, InPlan
  <1>4. CASE secretRead
    <2>1. at \in 1..Len(plan) /\ Op.object \in Objects /\ Op.key \in Keys
      BY <1>0, <1>4, OpType DEF secretRead, AtStep, TypeOK
    <2>2. Cached(Op.object)[Op.key] \in Values \union {Absent}
      BY <1>0, <2>1, CachedType DEF Data
    <2>3. /\ pc' \in {"next", "failed"} /\ at' \in 1..(Len(plan) + 1)
          /\ outputs' \in [1..Len(plan) -> Values \union {Absent}]
      BY <1>0, <1>4, <2>1, <2>2, EndsType DEF secretRead
    <2> QED
      BY <1>0, <1>4, <2>3 DEF secretRead, IndInv, TypeOK, WriteBased, InPlan
  <1>5. CASE wait
    BY <1>0, <1>5 DEF wait, AtStep, Failed, IndInv, TypeOK, WriteBased, InPlan
  <1>6. CASE WakeUp
    <2>1. /\ pc' \in {"next", "failed"} /\ at' \in 1..(Len(plan) + 1)
          /\ outputs' \in [1..Len(plan) -> Values \union {Absent}]
      BY <1>0, <1>6, EndsType DEF WakeUp, InPlan
    <2> QED
      BY <1>0, <1>6, <2>1 DEF WakeUp, IndInv, TypeOK, WriteBased, InPlan
  <1>7. CASE assert \/ GetError \/ WaitCancelled
    <2>1. /\ Failed
          /\ plan' = plan /\ log' = log /\ seen' = seen /\ foreign' = foreign
          /\ copy' = copy /\ clock' = clock /\ began' = began
          /\ edits' = edits /\ reruns' = reruns
      BY <1>7 DEF assert, GetError, WaitCancelled
    <2>2. faults' \in 0..MaxFaults
      BY <1>0, <1>7, BoundsAssumption DEF assert, GetError, WaitCancelled, TypeOK
    <2> QED
      BY <1>0, <2>1, <2>2 DEF Failed, IndInv, TypeOK, WriteBased, InPlan
  <1>8. CASE Finish
    BY <1>0, <1>8 DEF Finish, IndInv, TypeOK, WriteBased, InPlan
  <1>9. CASE Rerun
    <2>1. seen' \in [Objects -> Nat] /\ \A o \in Objects : seen'[o] <= Len(log[o])
      BY <1>0, <1>9 DEF Rerun
    <2>2. copy' \in [rv : Nat, data : Data]
      BY <1>9 DEF Rerun, NotRead, Empty, Data
    <2>3. outputs' \in [1..Len(plan) -> Values \union {Absent}] /\ at' \in 1..(Len(plan) + 1)
      BY <1>0, <1>9 DEF Rerun, NoOutputs
    <2>4. reruns' \in 0..MaxReruns /\ began' \in 0..clock
      BY <1>0, <1>9, BoundsAssumption DEF Rerun, TypeOK
    <2> QED
      BY <1>0, <1>9, <2>1, <2>2, <2>3, <2>4 DEF Rerun, IndInv, TypeOK, WriteBased, InPlan
  <1>10. ASSUME NEW o \in Objects, Sync(o) PROVE IndInv'
    <2>1. seen' \in [Objects -> Nat] /\ \A q \in Objects : seen'[q] <= Len(log[q])
      BY <1>0, <1>10 DEF Sync, TypeOK
    <2> QED
      BY <1>0, <1>10, <2>1 DEF Sync, IndInv, TypeOK, WriteBased, InPlan, Op, Version
  <1>11. ASSUME NEW o \in Objects, NEW k \in Keys, NEW v \in Values, OtherWrites(o, k, v)
         PROVE  IndInv'
    <2> DEFINE d == [(IF log[o] = <<>> THEN Empty ELSE Latest(o)) EXCEPT ![k] = v]
    <2>1. d \in Data
      <3>1. Empty \in Data
        BY DEF Empty, Data
      <3>2. log[o] # <<>> => Latest(o) \in Data
        BY <1>0 DEF Latest
      <3> QED
        BY <3>1, <3>2, SetOne
    <2>2. log' = [log EXCEPT ![o] = Append(log[o], d)]
      BY <1>0, <1>11 DEF OtherWrites, TypeOK
    <2> HIDE DEF d
    <2>3. /\ log' \in [Objects -> Seq(Data)]
          /\ \A q \in Objects : /\ Len(log[q]) <= Len(log'[q])
                                /\ \A n \in 1..Len(log[q]) : log'[q][n] = log[q][n]
      BY <1>0, <2>1, <2>2 DEF TypeOK
    <2>4. TypeOK'
      <3>1. edits' \in 0..MaxEdits
        BY <1>0, <1>11, BoundsAssumption DEF OtherWrites, TypeOK
      <3>2. seen' = seen /\ \A q \in Objects : seen[q] <= Len(log'[q])
        BY <1>0, <1>11, <2>3 DEF OtherWrites, TypeOK
      <3> QED
        BY <1>0, <1>11, <2>3, <3>1, <3>2 DEF OtherWrites, TypeOK
    <2>5. WriteBased'
      <3> SUFFICES ASSUME pc = "write" PROVE WriteBased'
        BY <1>11 DEF OtherWrites, WriteBased
      <3>1. at \in 1..Len(plan) /\ Op.object \in Objects /\ copy.rv \in 0..Len(log[Op.object])
        BY <1>0, OpType DEF WriteBased, TypeOK
      <3>2. Version(Op.object, copy.rv)' = Version(Op.object, copy.rv)
        BY <1>11, <2>3, <3>1 DEF OtherWrites, Version, Op
      <3> QED
        BY <1>0, <1>11, <2>3, <3>1, <3>2 DEF OtherWrites, WriteBased, Op, DiffersInOne
    <2> QED
      BY <1>0, <1>11, <2>4, <2>5 DEF OtherWrites, IndInv, InPlan
  <1>12. CASE Tick
    BY <1>0, <1>12, BoundsAssumption DEF Tick, IndInv, TypeOK, WriteBased, InPlan, Op, Version
  <1>13. CASE UNCHANGED vars
    BY <1>0, <1>13 DEF vars, IndInv, TypeOK, WriteBased, InPlan, Op, Version
  <1> QED
    BY <1>1, <1>2, <1>3, <1>4, <1>5, <1>6, <1>7, <1>8, <1>9, <1>10, <1>11, <1>12, <1>13
    DEF Next, Execute

\* The invariant holds throughout.
LEMMA Inductive == Spec => []IndInv
  BY IndInvInit, IndInvNext, PTL DEF Spec

\* The executor's variables keep their types: in particular what is stored
\* and what a secret-read produces are values.
THEOREM ExecutorTypeCorrect == Spec => []TypeOK
  <1>1. IndInv => TypeOK
    BY DEF IndInv
  <1> QED
    BY <1>1, Inductive, PTL

\* No update is lost: a write by a step changes one key of the latest version,
\* however stale the version it read.
THEOREM NoLostUpdate == Spec => OthersKept
  <1> DEFINE Kept == \A o \in Objects : log'[o] # log[o] =>
                        DiffersInOne(log'[o][Len(log'[o])],
                                     IF log[o] = <<>> THEN Empty ELSE Latest(o))
  <1>1. ASSUME IndInv, Next PROVE Kept
    <2>0. /\ TypeOK /\ WriteBased
          /\ \A o \in Objects : log[o] \in Seq(Data) /\ Len(log[o]) \in Nat
      BY <1>1 DEF IndInv, TypeOK
    <2>1. CASE Write
      <3>1. /\ pc = "write"
            /\ log' = log \/ /\ WriteAccepted
                             /\ log' = [log EXCEPT ![Op.object] = Append(@, copy.data)]
        BY <2>1 DEF Write
      <3>2. at \in 1..Len(plan) /\ Op.object \in Objects /\ copy.data \in Data
        BY <2>0, <3>1, OpType DEF WriteBased, TypeOK
      <3>3. CASE log' = log
        BY <3>3
      <3>4. CASE WriteAccepted /\ log' = [log EXCEPT ![Op.object] = Append(@, copy.data)]
        <4> DEFINE o == Op.object
        <4>1. log'[o][Len(log'[o])] = copy.data
          BY <2>0, <3>2, <3>4 DEF TypeOK
        <4>2. Version(o, copy.rv) = IF log[o] = <<>> THEN Empty ELSE Latest(o)
          BY <2>0, <3>2, <3>4 DEF WriteAccepted, Version, Latest
        <4>3. DiffersInOne(copy.data, Version(o, copy.rv))
          BY <2>0, <3>1 DEF WriteBased
        <4>4. \A q \in Objects : log'[q] # log[q] => q = o
          BY <2>0, <3>2, <3>4 DEF TypeOK
        <4> QED
          BY <4>1, <4>2, <4>3, <4>4
      <3> QED
        BY <3>1, <3>3, <3>4
    <2>2. ASSUME NEW q \in Objects, NEW k \in Keys, NEW v \in Values, OtherWrites(q, k, v)
          PROVE  Kept
      <3> DEFINE b == IF log[q] = <<>> THEN Empty ELSE Latest(q)
      <3>1. b \in Data
        BY <2>0 DEF Empty, Data, Latest
      <3>2. log' = [log EXCEPT ![q] = Append(log[q], [b EXCEPT ![k] = v])]
        BY <2>0, <2>2 DEF OtherWrites, TypeOK
      <3>3. DiffersInOne([b EXCEPT ![k] = v], b) /\ [b EXCEPT ![k] = v] \in Data
        BY <3>1, SetOne
      <3> HIDE DEF b
      <3>4. log'[q][Len(log'[q])] = [b EXCEPT ![k] = v]
        BY <2>0, <3>2, <3>3 DEF TypeOK
      <3>5. \A o \in Objects : log'[o] # log[o] => o = q
        BY <2>0, <3>2 DEF TypeOK
      <3> QED
        BY <3>3, <3>4, <3>5 DEF b
    <2>3. CASE ~Write /\ ~\E q \in Objects, k \in Keys, v \in Values : OtherWrites(q, k, v)
      <3>1. log' = log
        BY <1>1, <2>3 DEF Next, Execute, GetForUpdate, GetForRestart, secretRead, wait,
              WakeUp, WaitCancelled, assert, GetError, Finish, Rerun, Tick, Sync, store
      <3> QED
        BY <3>1
    <2> QED
      BY <2>1, <2>2, <2>3
  <1>2. IndInv /\ [Next]_vars => [Kept]_vars
    BY <1>1
  <1>3. [Kept]_vars <=> [\A o \in Objects : log'[o] # log[o] =>
           LET old == IF log[o] = <<>> THEN Empty ELSE Latest(o)
               new == log'[o][Len(log'[o])]
           IN  \E k \in Keys : \A j \in Keys \ {k} : new[j] = old[j]]_vars
    BY DEF DiffersInOne
  <1> HIDE DEF Kept
  <1> QED
    BY <1>2, <1>3, Inductive, PTL DEF Spec, OthersKept

-----------------------------------------------------------------------------

\* The step whose write or whose sleep is under way is not a secret-read.
NotReading ==
    pc \in {"write", "sleep"} => at \in 1..Len(plan) /\ Op.action # "secret-read"

\* Every version stored stays stored.
LEMMA LogGrows ==
    ASSUME IndInv, Next
    PROVE  \A o \in Objects : /\ log'[o] \in Seq(Data)
                              /\ Len(log[o]) <= Len(log'[o])
                              /\ \A n \in 1..Len(log[o]) : log'[o][n] = log[o][n]
  <1>0. /\ TypeOK /\ WriteBased
        /\ \A o \in Objects : log[o] \in Seq(Data) /\ Len(log[o]) \in Nat
    BY DEF IndInv, TypeOK
  <1>1. ASSUME NEW q \in Objects, NEW d \in Data,
               log' = [log EXCEPT ![q] = Append(log[q], d)]
        PROVE  \A o \in Objects : /\ log'[o] \in Seq(Data)
                                  /\ Len(log[o]) <= Len(log'[o])
                                  /\ \A n \in 1..Len(log[o]) : log'[o][n] = log[o][n]
    BY <1>0, <1>1 DEF TypeOK
  <1>2. CASE log' = log
    BY <1>0, <1>2
  <1>3. CASE Write /\ log' # log
    <2>1. /\ pc = "write"
          /\ log' = [log EXCEPT ![Op.object] = Append(@, copy.data)]
      BY <1>3 DEF Write
    <2>2. Op.object \in Objects /\ copy.data \in Data
      BY <1>0, <2>1, OpType DEF WriteBased, TypeOK
    <2>3. log' = [log EXCEPT ![Op.object] = Append(log[Op.object], copy.data)]
      BY <2>1, <2>2
    <2> QED
      BY <1>1, <2>2, <2>3
  <1>4. CASE \E o \in Objects, k \in Keys, v \in Values : OtherWrites(o, k, v)
    <2>1. PICK o \in Objects, k \in Keys, v \in Values : OtherWrites(o, k, v)
      BY <1>4
    <2> DEFINE b == IF log[o] = <<>> THEN Empty ELSE Latest(o)
    <2>2. b \in Data
      BY <1>0 DEF Empty, Data, Latest
    <2>3. [b EXCEPT ![k] = v] \in Data
      BY <2>2, SetOne
    <2>4. log' = [log EXCEPT ![o] = Append(log[o], [b EXCEPT ![k] = v])]
      BY <1>0, <2>1 DEF OtherWrites, TypeOK
    <2> HIDE DEF b
    <2> QED
      BY <1>1, <2>3, <2>4
  <1>5. CASE /\ ~Write
             /\ ~\E o \in Objects, k \in Keys, v \in Values : OtherWrites(o, k, v)
    <2>1. log' = log
      BY <1>5 DEF Next, Execute, GetForUpdate, GetForRestart, secretRead, wait,
            WakeUp, WaitCancelled, assert, GetError, Finish, Rerun, Tick, Sync, store
    <2> QED
      BY <1>2, <2>1
  <1> QED
    BY <1>2, <1>3, <1>4, <1>5

\* Reads stay real, and a step in progress stays the step it is.
LEMMA ReadNext ==
    ASSUME IndInv, ReadIsReal, NotReading, [Next]_vars
    PROVE  ReadIsReal' /\ NotReading'
  <1> USE DEF store, time, bounds
  <1>0. /\ TypeOK /\ Len(plan) \in Nat /\ plan' = plan
        /\ \A i \in 1..Len(plan) : plan[i].object \in Objects
    <2>1. TypeOK
      BY DEF IndInv
    <2>2. Len(plan) \in Nat
      BY <2>1, PlansAssumption DEF TypeOK
    <2>3. plan' = plan
      BY DEF Next, Execute, GetForUpdate, GetForRestart, Write, secretRead, wait, WakeUp,
             WaitCancelled, assert, GetError, Finish, Rerun, Tick, Sync, OtherWrites, vars
    <2>4. \A i \in 1..Len(plan) : plan[i].object \in Objects
      <3> DEFINE Type == [action : STRING, object : Objects, key : Keys, value : Values,
                          valueFrom : Nat, valid : BOOLEAN]
      <3>1. plan \in Seq(Type)
        BY <2>1, PlansAssumption DEF TypeOK
      <3>2. \A i \in 1..Len(plan) : plan[i] \in Type
        <4> HIDE DEF Type
        <4> QED
          BY <3>1
      <3> QED
        BY <3>2
    <2> QED
      BY <2>1, <2>2, <2>3, <2>4
  <1>1. \A o \in Objects : /\ Len(log[o]) \in Nat /\ Len(log'[o]) \in Nat
                           /\ Len(log[o]) <= Len(log'[o])
                           /\ \A n \in 1..Len(log[o]) : log'[o][n] = log[o][n]
    <2>1. \A o \in Objects : log[o] \in Seq(Data)
      BY <1>0 DEF TypeOK
    <2>2. CASE UNCHANGED vars
      BY <2>1, <2>2 DEF vars
    <2>3. CASE Next
      BY <2>1, <2>3, LogGrows
    <2> QED
      BY <2>2, <2>3
  \* What has been read stays read while the cursor and the outputs stay.
  <1>2. ASSUME NEW i \in 1..(at - 1), plan[i].action = "secret-read",
               outputs'[i] = outputs[i]
        PROVE  /\ outputs'[i] # Absent
               /\ \E n \in 1..Len(log'[plan[i].object]) :
                      log'[plan[i].object][n][plan[i].key] = outputs'[i]
    <2>1. i \in 1..Len(plan)
      BY <1>0 DEF TypeOK
    <2>2. PICK n \in 1..Len(log[plan[i].object]) :
              log[plan[i].object][n][plan[i].key] = outputs[i]
      BY <1>2 DEF ReadIsReal
    <2>3. outputs[i] # Absent
      BY <1>2 DEF ReadIsReal
    <2>4. /\ n \in 1..Len(log'[plan[i].object])
          /\ log'[plan[i].object][n] = log[plan[i].object][n]
      <3>1. plan[i].object \in Objects
        BY <1>0, <2>1
      <3> QED
        BY <1>1, <3>1
    <2> QED
      BY <1>2, <2>2, <2>3, <2>4
  <1>3. CASE at' = at /\ outputs' = outputs
    <2>1. ReadIsReal'
      BY <1>0, <1>2, <1>3 DEF ReadIsReal
    <2>2. NotReading'
      <3>1. CASE pc' \in {"write", "sleep"} /\ pc' # pc
        <4>1. GetForUpdate \/ GetForRestart \/ wait
          BY <3>1 DEF Next, Execute, Write, WriteRefused, secretRead, WakeUp, WaitCancelled,
               assert, GetError, Finish, Rerun, Tick, Sync, OtherWrites, vars, Produced, Failed
        <4>2. /\ at <= Len(plan)
              /\ Op.action \in Updates \union {"rollout-restart", "wait"}
          BY <4>1 DEF GetForUpdate, GetForRestart, wait, AtStep
        <4>3. at \in 1..Len(plan) /\ Op.action # "secret-read"
          BY <1>0, <4>2 DEF Updates, TypeOK
        <4> QED
          BY <1>0, <1>3, <4>3 DEF NotReading, Op
      <3>2. CASE pc' = pc
        BY <1>0, <1>3, <3>2 DEF NotReading, Op
      <3> QED
        BY <3>1, <3>2 DEF NotReading
    <2> QED
      BY <2>1, <2>2
  <1>4. ASSUME NEW v, Produced(v), at \in 1..Len(plan),
               plan[at].action = "secret-read" =>
                   /\ v # Absent
                   /\ \E n \in 1..Len(log'[plan[at].object]) :
                          log'[plan[at].object][n][plan[at].key] = v
        PROVE  ReadIsReal' /\ NotReading'
    <2>1. /\ at' = at + 1 /\ pc' = "next"
          /\ outputs'[at] = v /\ \A i \in 1..(at - 1) : outputs'[i] = outputs[i]
      BY <1>0, <1>4 DEF Produced, TypeOK
    <2>2. \A i \in 1..(at' - 1) : i = at \/ i \in 1..(at - 1)
      BY <1>0, <2>1 DEF TypeOK
    <2>3. ReadIsReal'
      BY <1>0, <1>2, <1>4, <2>1, <2>2 DEF ReadIsReal
    <2> QED
      BY <2>1, <2>3 DEF NotReading
  <1>5. CASE Write \/ WakeUp
    <2>1. at \in 1..Len(plan) /\ plan[at].action # "secret-read"
      BY <1>5 DEF Write, WakeUp, NotReading, Op
    <2>2. Produced(Absent) \/ Failed
      BY <1>5 DEF Write, WakeUp, WriteRefused
    <2> QED
      BY <1>3, <1>4, <2>1, <2>2 DEF Failed
  <1>6. CASE secretRead
    <2>1. at \in 1..Len(plan) /\ Op.object \in Objects /\ log' = log
      BY <1>0, <1>6, OpType DEF secretRead, AtStep, TypeOK
    <2> DEFINE v == Cached(Op.object)[Op.key]
    <2>2. CASE KeyPresent
      <3>1. Produced(v) /\ v # Absent
        BY <1>6, <2>2 DEF secretRead, KeyPresent
      <3>2. seen[Op.object] # 0
        <4>1. Op.key \in Keys
          BY <1>0, <2>1, OpType DEF TypeOK
        <4> QED
          BY <3>1, <4>1 DEF Cached, Empty
      <3>3. v = log[Op.object][seen[Op.object]][Op.key]
        BY <3>2 DEF Cached
      <3>4. seen[Op.object] \in 1..Len(log[Op.object])
        BY <1>0, <1>1, <2>1, <3>2 DEF TypeOK
      <3> HIDE DEF v
      <3> QED
        BY <1>4, <2>1, <3>1, <3>3, <3>4 DEF Op
    <2>3. CASE ~KeyPresent
      BY <1>3, <1>6, <2>3 DEF secretRead, Failed
    <2> QED
      BY <2>2, <2>3
  <1>7. CASE Rerun
    BY <1>7 DEF Rerun, ReadIsReal, NotReading
  <1>8. CASE ~(Write \/ WakeUp \/ secretRead \/ Rerun)
    <2>1. at' = at /\ outputs' = outputs
      BY <1>8 DEF Next, Execute, GetForUpdate, GetForRestart, wait, WaitCancelled, assert,
             GetError, Finish, Tick, Sync, OtherWrites, vars, Failed
    <2> QED
      BY <1>3, <2>1
  <1> QED
    BY <1>5, <1>6, <1>7, <1>8

\* The output of every secret-read is a value that its key held: a missing
\* Secret or key is never taken for one.
THEOREM ReadsAreReal == Spec => []ReadIsReal
  <1>1. Init => ReadIsReal /\ NotReading
    BY DEF Init, ReadIsReal, NotReading
  <1>2. IndInv /\ (ReadIsReal /\ NotReading) /\ [Next]_vars => (ReadIsReal /\ NotReading)'
    BY ReadNext
  <1> QED
    BY <1>1, <1>2, Inductive, PTL DEF Spec

-----------------------------------------------------------------------------
(* What the steps report is what the server holds.  A step that succeeded  *)
(* put its value there (Ready), a later step of the list only puts another *)
(* one there if it sets the same key of the same object (Stored), and a    *)
(* list that failed reports nothing.                                       *)

\* Step i writes a key, and a step after it up to the n-th writes it again.
Sets(i) == plan[i].action \in Updates \union {"rollout-restart"}
SameKey(i, j) == plan[j].object = plan[i].object /\ plan[j].key = plan[i].key
SetAgain(i, n) == \E j \in (i + 1)..n : Sets(j) /\ SameKey(i, j)

\* What step i is to leave in its key.
Right(i, v) ==
    /\ plan[i].action \in Updates => v = Value(plan[i])
    /\ plan[i].action = "rollout-restart" => v \in began..clock

\* The steps done so far hold, as far as nothing else has set their keys.
Holds(i) == /\ Len(log[plan[i].object]) > 0
            /\ Right(i, Latest(plan[i].object)[plan[i].key])
Stored ==
    pc # "failed" => \A i \in 1..(at - 1) :
        Sets(i) /\ plan[i].object \notin foreign /\ ~SetAgain(i, at - 1) => Holds(i)

\* What is about to be written has the step's value in its key and is the
\* version read in the others.
Ready ==
    pc = "write" =>
        /\ at \in 1..Len(plan) /\ Sets(at)
        /\ Right(at, copy.data[Op.key])
        /\ \A k \in Keys \ {Op.key} : copy.data[k] = Version(Op.object, copy.rv)[k]

\* A wait writes nothing, and the list is done when all its steps are.
Passing == /\ pc = "sleep" => at \in 1..Len(plan) /\ ~Sets(at)
           /\ pc = "done" => at = Len(plan) + 1

ReportInv == Stored /\ Ready /\ Passing

\* The steps of the list are well-formed, and refer to steps before them.
LEMMA PlanTypes ==
    ASSUME plan \in Plans
    PROVE  /\ Len(plan) \in Nat
           /\ \A i \in 1..Len(plan) :
                /\ plan[i].object \in Objects /\ plan[i].key \in Keys
                /\ plan[i].valueFrom # 0 => plan[i].valueFrom \in 1..(i - 1)
  <1> DEFINE Type == [action : STRING, object : Objects, key : Keys, value : Values,
                      valueFrom : Nat, valid : BOOLEAN]
  <1>1. plan \in Seq(Type)
    BY PlansAssumption
  <1>2. Len(plan) \in Nat /\ \A i \in 1..Len(plan) : plan[i] \in Type
    <2> HIDE DEF Type
    <2> QED
      BY <1>1
  <1>3. \A i \in 1..Len(plan) : plan[i].valueFrom # 0 => plan[i].valueFrom \in 1..(i - 1)
    BY ReferencesAssumption
  <1> QED
    BY <1>2, <1>3

\* What a step is to leave does not change while the steps before it keep
\* their outputs and time only passes.
LEMMA RightKept ==
    ASSUME TypeOK, plan' = plan, began' = began, clock' \in Int, clock <= clock',
           NEW i \in 1..Len(plan), NEW v, Right(i, v),
           \A n \in 1..(i - 1) : outputs'[n] = outputs[n]
    PROVE  Right(i, v)'
  <1>1. plan[i].valueFrom # 0 => outputs'[plan[i].valueFrom] = outputs[plan[i].valueFrom]
    BY PlanTypes DEF TypeOK
  <1>2. Value(plan[i])' = Value(plan[i])
    BY <1>1 DEF Value
  <1>3. v \in began..clock => v \in began'..clock'
    BY DEF TypeOK
  <1> QED
    BY <1>2, <1>3 DEF Right

\* A step of the system that ends no step of the list, and writes to objects
\* only as somebody else, keeps what is stored.
LEMMA StoredQuiet ==
    ASSUME TypeOK, Stored, plan' = plan, began' = began, clock' \in Int, clock <= clock',
           at' = at, outputs' = outputs, foreign \subseteq foreign',
           \A o \in Objects : o \notin foreign' => log'[o] = log[o],
           pc' # "failed" => pc # "failed"
    PROVE  Stored'
  <1> SUFFICES ASSUME pc' # "failed", NEW i \in 1..(at - 1),
                      Sets(i), plan[i].object \notin foreign', ~SetAgain(i, at - 1)
               PROVE  Holds(i)'
    BY DEF Stored, Sets, SetAgain, SameKey
  <1>1. i \in 1..Len(plan) /\ plan[i].object \in Objects
    BY PlanTypes DEF TypeOK
  <1>2. Holds(i)
    BY DEF Stored
  <1>3. log'[plan[i].object] = log[plan[i].object]
    BY <1>1
  <1>4. Right(i, Latest(plan[i].object)[plan[i].key])'
    <2>1. PICK v : v = Latest(plan[i].object)[plan[i].key]
      OBVIOUS
    <2>2. Right(i, v)'
      BY <1>1, <1>2, <2>1, RightKept DEF Holds
    <2>3. Latest(plan[i].object)[plan[i].key]' = v
      BY <1>3, <2>1 DEF Latest
    <2> QED
      BY <2>2, <2>3
  <1> QED
    BY <1>2, <1>3, <1>4 DEF Holds

\* A step of the list ends well: it holds if it sets a key, and every key it
\* does not set is as it was.
LEMMA StoredAdvance ==
    ASSUME TypeOK, Stored, pc # "failed", at \in 1..Len(plan), NEW v, Produced(v),
           plan' = plan, began' = began, clock' = clock, foreign' = foreign,
           \A i \in 1..Len(plan) : i = at /\ Sets(i) => Holds(i)',
           \A i \in 1..(at - 1) : Sets(i) /\ Holds(i) /\ ~(Sets(at) /\ SameKey(i, at)) =>
               /\ Len(log'[plan[i].object]) > 0
               /\ Latest(plan[i].object)'[plan[i].key] = Latest(plan[i].object)[plan[i].key]
    PROVE  Stored'
  <1>1. /\ at' = at + 1 /\ pc' = "next"
        /\ \A n \in 1..(at - 1) : outputs'[n] = outputs[n]
    BY DEF Produced, TypeOK
  <1>2. Len(plan) \in Nat /\ at \in Nat
    BY PlanTypes DEF TypeOK
  <1> SUFFICES ASSUME NEW i \in 1..at, Sets(i), plan[i].object \notin foreign,
                      ~SetAgain(i, at)
               PROVE  Holds(i)'
    BY <1>1, <1>2 DEF Stored, Sets, SetAgain, SameKey
  <1>3. CASE i = at
    BY <1>2, <1>3
  <1>4. CASE i # at
    <2>1. i \in 1..(at - 1) /\ i \in 1..Len(plan)
      BY <1>2, <1>4
    <2>2. ~SetAgain(i, at - 1) /\ ~(Sets(at) /\ SameKey(i, at))
      BY <1>2, <2>1 DEF SetAgain
    <2>3. Holds(i)
      BY <2>1, <2>2 DEF Stored
    <2>4. /\ Len(log'[plan[i].object]) > 0
          /\ Latest(plan[i].object)'[plan[i].key] = Latest(plan[i].object)[plan[i].key]
      BY <2>1, <2>2, <2>3
    <2>5. PICK w : w = Latest(plan[i].object)[plan[i].key]
      OBVIOUS
    <2>6. \A n \in 1..(i - 1) : outputs'[n] = outputs[n]
      BY <1>1, <1>2, <2>1
    <2>7. clock' \in Int /\ clock <= clock'
      BY DEF TypeOK
    <2>8. Right(i, w)
      BY <2>3, <2>5 DEF Holds
    <2>9. Right(i, w)'
      BY <2>1, <2>6, <2>7, <2>8, RightKept
    <2> QED
      BY <2>4, <2>5, <2>9 DEF Holds
  <1> QED
    BY <1>3, <1>4

\* A write that succeeds leaves the step's value, and the other keys alone.
LEMMA StoredWrite ==
    ASSUME IndInv, Stored, Ready, Write, Produced(Absent)
    PROVE  Stored'
  <1>0. /\ TypeOK /\ pc = "write" /\ at \in 1..Len(plan) /\ Sets(at)
        /\ Len(plan) \in Nat /\ Op.object \in Objects /\ Op.key \in Keys
        /\ copy.data \in Data /\ copy.rv \in Nat
        /\ \A o \in Objects : log[o] \in Seq(Data) /\ Len(log[o]) \in Nat
    BY PlanTypes DEF IndInv, Write, Ready, TypeOK, Op
  <1>1. /\ plan' = plan /\ began' = began /\ clock' = clock /\ foreign' = foreign
        /\ at' = at + 1
        /\ \A n \in 1..(at - 1) : outputs'[n] = outputs[n]
    BY <1>0 DEF Write, time, Produced, TypeOK
  <1>2. WriteAccepted
    BY <1>0, <1>1 DEF Write, Produced, Failed, WriteRefused, TypeOK
  <1>3. /\ log' = IF copy.rv > 0 /\ copy.data = Latest(Op.object) THEN log
                  ELSE [log EXCEPT ![Op.object] = Append(@, copy.data)]
    BY <1>0, <1>1, <1>2 DEF Write, Failed, Produced, TypeOK
  \* Either way what was to be written is now the latest version.
  <1>4. /\ Len(log'[Op.object]) > 0
        /\ log'[Op.object][Len(log'[Op.object])] = copy.data
        /\ \A o \in Objects \ {Op.object} : log'[o] = log[o]
    <2>1. CASE copy.rv > 0 /\ copy.data = Latest(Op.object)
      BY <1>0, <1>2, <1>3, <2>1 DEF WriteAccepted, Latest
    <2>2. CASE ~(copy.rv > 0 /\ copy.data = Latest(Op.object))
      <3> DEFINE more == Append(log[Op.object], copy.data)
      <3>1. log' = [log EXCEPT ![Op.object] = more]
        BY <1>0, <1>3, <2>2
      <3>2. Len(more) = Len(log[Op.object]) + 1 /\ more[Len(more)] = copy.data
        BY <1>0
      <3> HIDE DEF more
      <3>3. log'[Op.object] = more /\ \A o \in Objects \ {Op.object} : log'[o] = log[o]
        BY <1>0, <3>1 DEF TypeOK
      <3> QED
        BY <1>0, <3>2, <3>3
    <2> QED
      BY <2>1, <2>2
  <1>5. ASSUME NEW i \in 1..Len(plan), i = at PROVE Holds(i)'
    <2>1. PICK v : v = copy.data[Op.key]
      OBVIOUS
    <2>2. Right(at, v)
      BY <1>0, <2>1 DEF Ready
    <2>4. clock' \in Int /\ clock <= clock'
      BY <1>0, <1>1 DEF TypeOK
    <2>5. Right(i, v)'
      BY <1>0, <1>1, <1>5, <2>2, <2>4, RightKept
    <2>6. Latest(plan[i].object)'[plan[i].key] = v /\ Len(log'[plan[i].object]) > 0
      BY <1>1, <1>4, <1>5, <2>1 DEF Latest, Op
    <2> QED
      BY <1>1, <2>5, <2>6 DEF Holds
  <1>6. ASSUME NEW i \in 1..(at - 1), Holds(i), ~SameKey(i, at)
        PROVE  /\ Len(log'[plan[i].object]) > 0
               /\ Latest(plan[i].object)'[plan[i].key] = Latest(plan[i].object)[plan[i].key]
    <2>1. plan[i].object \in Objects /\ plan[i].key \in Keys /\ Len(log[plan[i].object]) > 0
      BY <1>0, <1>6, PlanTypes DEF TypeOK, Holds
    <2>2. CASE plan[i].object # Op.object
      BY <1>1, <1>4, <2>1, <2>2 DEF Latest
    <2>3. CASE plan[i].object = Op.object
      <3>1. plan[i].key \in Keys \ {Op.key}
        BY <1>6, <2>1, <2>3 DEF SameKey, Op
      <3>2. copy.data[plan[i].key] = Version(Op.object, copy.rv)[plan[i].key]
        BY <1>0, <3>1 DEF Ready
      <3>3. Version(Op.object, copy.rv) = Latest(Op.object)
        BY <1>0, <1>2, <2>1, <2>3 DEF WriteAccepted, Version, Latest
      <3> QED
        BY <1>1, <1>4, <2>3, <3>2, <3>3 DEF Latest
    <2> QED
      BY <2>2, <2>3
  <1> QED
    BY <1>0, <1>1, <1>5, <1>6, StoredAdvance

\* Every step preserves it.
LEMMA ReportNext ==
    ASSUME IndInv, ReportInv, [Next]_vars
    PROVE  ReportInv'
  <1> USE DEF store, time, bounds
  <1>0. /\ TypeOK /\ Stored /\ Ready /\ Passing /\ Len(plan) \in Nat
        /\ \A o \in Objects : log[o] \in Seq(Data) /\ Len(log[o]) \in Nat
    BY PlanTypes DEF IndInv, ReportInv, TypeOK
  <1>1. CASE GetForUpdate
    <2>1. /\ at \in 1..Len(plan) /\ plan' = plan /\ at' = at /\ log' = log
          /\ outputs' = outputs /\ foreign' = foreign /\ began' = began /\ clock' = clock
          /\ pc = "next" /\ pc' = "write" /\ Op.action \in Updates
      BY <1>0, <1>1 DEF GetForUpdate, AtStep, TypeOK
    <2>2. Op.object \in Objects /\ Op.key \in Keys
      BY <1>0, <2>1, OpType DEF TypeOK
    <2>3. Stored'
      BY <1>0, <2>1, StoredQuiet DEF TypeOK
    <2>4. Cached(Op.object) \in Data /\ Cached(Op.object) = Version(Op.object, seen[Op.object])
      BY <1>0, <2>2, CachedType
    <2>5. /\ copy'.rv = seen[Op.object]
          /\ copy'.data[Op.key] = Value(Op)
          /\ \A k \in Keys \ {Op.key} : copy'.data[k] = Version(Op.object, seen[Op.object])[k]
      BY <1>1, <2>2, <2>4 DEF GetForUpdate, Data
    <2>6. Right(at, copy'.data[Op.key])
      BY <2>1, <2>5 DEF Right, Op, Updates
    <2>7. Ready'
      BY <2>1, <2>5, <2>6 DEF Ready, Right, Sets, Value, Op, Version
    <2> QED
      BY <2>1, <2>3, <2>7 DEF ReportInv, Passing
  <1>2. CASE GetForRestart
    <2>1. /\ at \in 1..Len(plan) /\ plan' = plan /\ at' = at /\ log' = log
          /\ outputs' = outputs /\ foreign' = foreign /\ began' = began /\ clock' = clock
          /\ pc = "next" /\ pc' \in {"failed", "write"} /\ Op.action = "rollout-restart"
      BY <1>0, <1>2 DEF GetForRestart, AtStep, TypeOK, Failed
    <2>2. Op.object \in Objects /\ Op.key \in Keys
      BY <1>0, <2>1, OpType DEF TypeOK
    <2>3. Stored'
      BY <1>0, <2>1, StoredQuiet DEF TypeOK
    <2>4. Cached(Op.object) \in Data /\ Cached(Op.object) = Version(Op.object, seen[Op.object])
      BY <1>0, <2>2, CachedType
    <2>5. ASSUME pc' = "write"
          PROVE  /\ copy'.rv = seen[Op.object]
                 /\ copy'.data[Op.key] = clock
                 /\ \A k \in Keys \ {Op.key} :
                        copy'.data[k] = Version(Op.object, seen[Op.object])[k]
      BY <1>2, <2>2, <2>4, <2>5 DEF GetForRestart, Failed, Data
    <2>6. ASSUME pc' = "write" PROVE Right(at, copy'.data[Op.key])
      BY <1>0, <2>1, <2>5, <2>6 DEF Right, Op, Updates, TypeOK
    <2>7. Ready'
      BY <2>1, <2>5, <2>6 DEF Ready, Right, Sets, Value, Op, Version
    <2> QED
      BY <2>1, <2>3, <2>7 DEF ReportInv, Passing
  <1>3. CASE Write
    <2>1. CASE Produced(Absent)
      <3>1. Stored' /\ pc' = "next"
        BY <1>0, <1>3, <2>1, StoredWrite DEF Produced
      <3> QED
        BY <3>1 DEF ReportInv, Ready, Passing
    <2>2. CASE Failed
      BY <2>2 DEF Failed, ReportInv, Stored, Ready, Passing
    <2> QED
      BY <1>3, <2>1, <2>2 DEF Write, WriteRefused
  <1>4. CASE secretRead \/ WakeUp
    <2>1. /\ plan' = plan /\ log' = log /\ foreign' = foreign /\ began' = began
          /\ clock' = clock /\ pc # "failed"
      BY <1>4 DEF secretRead, WakeUp, AtStep
    <2>2. at \in 1..Len(plan) /\ ~Sets(at)
      <3>1. CASE secretRead
        BY <1>0, <3>1 DEF secretRead, AtStep, Op, Sets, Updates, TypeOK
      <3>2. CASE WakeUp
        BY <1>0, <3>2 DEF WakeUp, Passing
      <3> QED
        BY <1>4, <3>1, <3>2
    <2>3. Failed \/ \E v : Produced(v)
      BY <1>4 DEF secretRead, WakeUp
    <2>4. CASE Failed
      BY <2>4 DEF Failed, ReportInv, Stored, Ready, Passing
    <2>5. ASSUME NEW v, Produced(v) PROVE ReportInv'
      <3>1. \A i \in 1..(at - 1) : Holds(i) =>
               /\ Len(log'[plan[i].object]) > 0
               /\ Latest(plan[i].object)'[plan[i].key] = Latest(plan[i].object)[plan[i].key]
        BY <2>1 DEF Holds, Latest
      <3>2. Stored' /\ pc' = "next"
        BY <1>0, <2>1, <2>2, <2>5, <3>1, StoredAdvance DEF Produced
      <3> QED
        BY <3>2 DEF ReportInv, Ready, Passing
    <2> QED
      BY <2>3, <2>4, <2>5
  <1>5. CASE assert \/ GetError \/ WaitCancelled
    BY <1>5 DEF assert, GetError, WaitCancelled, Failed, ReportInv, Stored, Ready, Passing
  <1>6. CASE wait \/ Finish
    <2>1. /\ plan' = plan /\ at' = at /\ log' = log /\ outputs' = outputs
          /\ foreign' = foreign /\ began' = began /\ clock' = clock
          /\ pc = "next" /\ pc' \in {"failed", "sleep", "done"}
      BY <1>6 DEF wait, Finish, AtStep, Failed
    <2>2. Stored'
      BY <1>0, <2>1, StoredQuiet DEF TypeOK
    <2>3. Passing'
      <3>1. CASE wait
        BY <1>0, <2>1, <3>1 DEF wait, AtStep, Failed, Passing, Sets, Op, Updates, TypeOK
      <3>2. CASE Finish
        BY <1>0, <2>1, <3>2 DEF Finish, Passing, TypeOK
      <3> QED
        BY <1>6, <3>1, <3>2
    <2> QED
      BY <2>1, <2>2, <2>3 DEF ReportInv, Ready
  <1>7. CASE Rerun
    BY <1>7 DEF Rerun, ReportInv, Stored, Ready, Passing
  <1>8. CASE \/ Tick \/ UNCHANGED vars
             \/ \E o \in Objects : Sync(o)
             \/ \E o \in Objects, k \in Keys, v \in Values : OtherWrites(o, k, v)
    <2>1. /\ plan' = plan /\ at' = at /\ outputs' = outputs /\ began' = began
          /\ pc' = pc /\ copy' = copy /\ foreign \subseteq foreign'
      BY <1>8 DEF Tick, vars, Sync, OtherWrites
    <2>2. clock' \in Int /\ clock <= clock'
      <3>1. clock' = clock \/ clock' = clock + 1
        BY <1>8 DEF Tick, vars, Sync, OtherWrites
      <3>2. clock \in Int
        BY <1>0 DEF TypeOK
      <3> QED
        BY <3>1, <3>2
    <2>3. \A o \in Objects : o \notin foreign' => log'[o] = log[o]
      BY <1>0, <1>8 DEF Tick, vars, Sync, OtherWrites, TypeOK
    <2>4. Stored'
      BY <1>0, <2>1, <2>2, <2>3, StoredQuiet
    <2>5. Ready'
      <3> SUFFICES ASSUME pc = "write" PROVE Ready'
        BY <2>1 DEF Ready
      <3>1. /\ at \in 1..Len(plan) /\ Op.object \in Objects
            /\ copy.rv \in 0..Len(log[Op.object])
        BY <1>0, OpType DEF IndInv, WriteBased, TypeOK
      <3>2. \A n \in 1..Len(log[Op.object]) : log'[Op.object][n] = log[Op.object][n]
        BY <1>8, <3>1, LogGrows DEF vars, Next
      <3>3. Version(Op.object, copy.rv)' = Version(Op.object, copy.rv)
        BY <2>1, <3>1, <3>2 DEF Version, Op
      <3>4. PICK v : v = copy.data[Op.key]
        OBVIOUS
      <3>5. PICK i \in 1..Len(plan) : i = at
        BY <3>1
      <3>6. Right(i, v)'
        <4>1. Right(i, v)
          BY <1>0, <3>4, <3>5 DEF Ready
        <4> QED
          BY <1>0, <2>1, <2>2, <4>1, RightKept
      <3> QED
        BY <1>0, <2>1, <3>1, <3>3, <3>4, <3>5, <3>6 DEF Ready, Sets, Op
    <2> QED
      BY <1>0, <2>1, <2>4, <2>5 DEF ReportInv, Passing, Sets
  <1> QED
    BY <1>1, <1>2, <1>3, <1>4, <1>5, <1>6, <1>7, <1>8 DEF Next, Execute

\* When the list is done, each key its steps set holds on the server the value
\* of the last step that sets it, unless somebody else has written the object.
THEOREM ReportsAreStored == Spec => []ReportedIsStored
  <1>1. Init => ReportInv
    BY DEF Init, ReportInv, Stored, Ready, Passing
  <1>2. IndInv /\ ReportInv /\ [Next]_vars => ReportInv'
    BY ReportNext
  <1>3. IndInv /\ ReportInv => ReportedIsStored
    <2> SUFFICES ASSUME IndInv, ReportInv, pc = "done", NEW i \in 1..Len(plan),
                        plan[i].object \notin foreign, ~Overtaken(i)
                 PROVE  LET held == Latest(plan[i].object)[plan[i].key]
                        IN  /\ plan[i].action \in Updates => held = Value(plan[i])
                            /\ plan[i].action = "rollout-restart" => held \in began..clock
      BY DEF ReportedIsStored
    <2>1. at = Len(plan) + 1 /\ Len(plan) \in Nat
      BY PlanTypes DEF IndInv, TypeOK, ReportInv, Passing
    <2>2. i \in 1..(at - 1) /\ ~SetAgain(i, at - 1)
      BY <2>1 DEF SetAgain, Sets, SameKey, Overtaken
    <2>3. Sets(i) => Holds(i)
      BY <2>2 DEF ReportInv, Stored
    <2> QED
      BY <2>3 DEF Sets, Holds, Right
  <1> QED
    BY <1>1, <1>2, <1>3, Inductive, PTL DEF Spec
=============================================================================
