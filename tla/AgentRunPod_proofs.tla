------------------------- MODULE AgentRunPod_proofs -------------------------
(* Proofs about AgentRunPod, for every value of its constants.              *)
EXTENDS AgentRunPod, TLAPS

USE DEF NoTime, NoLimit, BadLimit, NoOutput, Stranger, Nobody, Canonical, Legacy

----------------------------------------------------------------------------
(* Types of the operators a reconcile is built from.                        *)

(* A transition of a well-formed status gives a well-formed status. *)
LEMMA TransitionRunType ==
    ASSUME clock \in 0..MaxTime,
           NEW s \in StatusType, NEW ph \in Phases, NEW m \in Messages
    PROVE  TransitionRun(s, ph, m) \in StatusType
BY BoundsAssumption DEF BoundsAssumption, TransitionRun, StatusType, Times

(* The first call of a reconcile on a Pod is a well-formed worker state. *)
LEMMA AtType ==
    ASSUME NEW pc \in ReconcilePcs, NEW base \in LiveRunType, NEW name \in PodNames
    PROVE  At(pc, base, name) \in BusyType
BY BoundsAssumption DEF BoundsAssumption, At, Idle, BusyType, EmptyStatus, StatusType, Phases, PodNames, Times, Messages

(* A worker about to patch a well-formed status is well formed. *)
LEMMA PatchWithType ==
    ASSUME NEW base \in LiveRunType, NEW name \in PodNames, NEW next \in StatusType
    PROVE  PatchWith(base, name, next) \in BusyType
BY AtType DEF PatchWith, ReconcilePcs, BusyType

(* What ObservePod says of a Pod of some incarnation is well formed. *)
LEMMA ObservePodType ==
    ASSUME NEW pod \in PodType, pod.owner \in Uids
    PROVE  /\ ObservePod(pod).phase \in Phases \ {"unset"}
           /\ ObservePod(pod).output \in {NoOutput} \cup Uids
           /\ ObservePod(pod).started \in Times
<1> DEFINE Fine(o) == /\ o.phase \in Phases \ {"unset"}
                      /\ o.output \in {NoOutput} \cup Uids
                      /\ o.started \in Times
<1>1. ASSUME NEW ph \in Phases \ {"unset"}, NEW out \in {NoOutput} \cup Uids, NEW t \in Times
      PROVE  Fine(Observation(ph, out, t))
  BY <1>1 DEF Observation
<1>2. OutputOf(pod) \in {NoOutput} \cup Uids
  BY DEF OutputOf
<1>3. NoTime \in Times /\ pod.started \in Times
  BY DEF Times, PodType
<1>4. Fine(ObserveResultEnvelope(pod))
  BY <1>1, <1>2, <1>3 DEF ObserveResultEnvelope, Phases, TerminalPhases
<1>5. Fine(ObservationFromTermination(pod))
  BY <1>1, <1>2, <1>3, <1>4 DEF ObservationFromTermination, Phases, TerminalPhases
<1>6. PhaseOfPod(pod.phase) \in Phases \ {"unset"}
  BY DEF PhaseOfPod, PodType, Phases, TerminalPhases
<1>7. pod.container \in {"None", "Waiting", "Running", "Terminated"}
  BY DEF PodType
<1>8. \A ph \in {"Pending", "Running"} : ph \in Phases \ {"unset"}
  BY DEF Phases
<1> HIDE DEF Fine
<1>9. Fine(ObservePod(pod))
  <2>1. CASE pod.phase = "Pending"
    BY <2>1, <1>1, <1>3, <1>8 DEF ObservePod
  <2>2. CASE pod.phase # "Pending" /\ pod.container = "Running"
    BY <2>2, <1>1, <1>3, <1>8 DEF ObservePod
  <2>3. CASE pod.phase # "Pending" /\ pod.container = "Terminated"
    BY <2>3, <1>5 DEF ObservePod
  <2>4. CASE pod.phase # "Pending" /\ pod.container = "Waiting"
    BY <2>4, <1>1, <1>3, <1>8 DEF ObservePod
  <2>5. CASE pod.phase # "Pending" /\ pod.container = "None"
    BY <2>5, <1>1, <1>3, <1>6 DEF ObservePod
  <2> QED BY <2>1, <2>2, <2>3, <2>4, <2>5, <1>7
<1> QED BY <1>9 DEF Fine

(* A reconcile that goes on from a decision is well formed. *)
LEMMA DecideType ==
    ASSUME clock \in 0..MaxTime, NEW base \in LiveRunType,
           NEW pod \in PodType, NEW name \in PodNames
    PROVE  /\ BuildPod(base, name) \in BusyType
           /\ FailInvalidWallclock(base, name, TRUE) \in BusyType
           /\ Decide(base, pod, name) \in BusyType
<1> DEFINE s == base.status
<1>1. s \in StatusType /\ base.uid \in Uids /\ base.spec \in RunSpecType
  BY DEF LiveRunType
<1>2. \A m \in {"lost", "collision", "invalid", "exceeded"} : m \in Messages
  BY DEF Messages
<1>3. "Failed" \in Phases /\ "BudgetExceeded" \in Phases
  BY DEF Phases, TerminalPhases
<1>4. FailPodNameCollision(base, name) \in BusyType
  <2>1. [s EXCEPT !.podName = name, !.output = NoOutput, !.start = NoTime] \in StatusType
    BY <1>1 DEF StatusType, Times
  <2> QED BY <2>1, <1>2, <1>3, TransitionRunType, PatchWithType DEF FailPodNameCollision
<1>5. ASSUME NEW b \in BOOLEAN PROVE FailInvalidWallclock(base, name, b) \in BusyType
  <2>1. [s EXCEPT !.podName = IF b THEN name ELSE @] \in StatusType
    BY <1>1, <1>5 DEF StatusType
  <2> QED BY <2>1, <1>2, <1>3, TransitionRunType, PatchWithType DEF FailInvalidWallclock
<1>6. BuildPod(base, name) \in BusyType
  BY <1>1, <1>2, <1>3, TransitionRunType, PatchWithType, AtType DEF BuildPod, ReconcilePcs
<1>7. ReconcileMissingPod(base, name) \in BusyType
  <2>1. [s EXCEPT !.podName = name] \in StatusType
    BY <1>1 DEF StatusType
  <2> QED BY <2>1, <1>2, <1>3, <1>6, TransitionRunType, PatchWithType, AtType
          DEF ReconcileMissingPod, ReconcilePcs
<1>8. ASSUME IsControlledBy(pod, base)
      PROVE  /\ WallclockStart(base, pod) \in Times
             /\ EnforceWallclock(base, pod, name) \in BusyType
             /\ SyncPodObservation(base, pod, name) \in BusyType
  <2>1. /\ ObservePod(pod).phase \in Phases \ {"unset"}
        /\ ObservePod(pod).output \in {NoOutput} \cup Uids
        /\ ObservePod(pod).started \in Times
    BY <1>1, <1>8, ObservePodType DEF IsControlledBy
  <2>2. WallclockStart(base, pod) \in Times
    BY <2>1, <1>1 DEF WallclockStart, StatusType
  <2>3. EnforceWallclock(base, pod, name) \in BusyType
    <3> DEFINE stamped == [s EXCEPT !.podName = name, !.start = WallclockStart(base, pod)]
               plan == PatchWith(base, name, TransitionRun(stamped, "BudgetExceeded", "exceeded"))
    <3>1. stamped \in StatusType
      BY <1>1, <2>2 DEF StatusType
    <3>2. plan \in BusyType
      BY <3>1, <1>2, <1>3, TransitionRunType, PatchWithType
    <3>3. [plan EXCEPT !.thenDelete = TRUE] \in BusyType
      BY <3>2 DEF BusyType
    <3> QED BY <3>3 DEF EnforceWallclock
  <2>4. SyncPodObservation(base, pod, name) \in BusyType
    <3> DEFINE seen == ObservePod(pod)
               status ==
                 [s EXCEPT
                    !.phase = seen.phase,
                    !.podName = name,
                    !.message = "observed",
                    !.output = IF seen.output # NoOutput THEN seen.output ELSE @,
                    !.start = IF @ # NoTime \/ seen.phase # "Running" THEN @
                              ELSE IF seen.started # NoTime THEN seen.started ELSE clock,
                    !.completion = IF IsTerminal(seen.phase) /\ @ = NoTime THEN clock ELSE @,
                    !.conditions = seen.phase]
               requeueAt == IF WallclockRuns(base, pod)
                            THEN WallclockStart(base, pod) + base.spec.wallclock + 1
                            ELSE NoTime
    <3>1. clock \in Times
      BY DEF Times
    <3>2. status \in StatusType
      <4> HIDE DEF seen
      <4> QED BY <2>1, <1>1, <3>1 DEF seen, StatusType, Messages
    <3>3. requeueAt \in {NoTime} \cup Nat
      BY <2>2, <1>1, BoundsAssumption DEF WallclockRuns, RunSpecType, Times, BoundsAssumption
    <3>4. PatchWith(base, name, status) \in BusyType
      BY <3>2, PatchWithType
    <3> HIDE DEF status, requeueAt
    <3>5. [PatchWith(base, name, status) EXCEPT !.requeueAt = requeueAt] \in BusyType
      BY <3>3, <3>4 DEF BusyType
    <3> QED BY <3>5 DEF SyncPodObservation, status, requeueAt
  <2> QED BY <2>2, <2>3, <2>4
<1>9. Decide(base, pod, name) \in BusyType
  BY <1>4, <1>5, <1>7, <1>8, AtType DEF Decide, ReconcilePcs, Exists
<1> QED BY <1>5, <1>6, <1>9

----------------------------------------------------------------------------
(* Type correctness.                                                        *)

(* The well-formed constants used for initial and missing values. *)
LEMMA ConstantTypes ==
    /\ EmptyStatus \in StatusType
    /\ NoPod \in PodType /\ NewPod(Stranger) \in PodType
    /\ \A u \in Uids : NewPod(u) \in PodType
    /\ Idle \in WorkerType /\ NoRun \in RunType
BY BoundsAssumption
   DEF BoundsAssumption, EmptyStatus, StatusType, Phases, PodNames, Times, Messages, NoPod,
       NewPod, PodType, NoTermination, TerminationType, WorkerType, RunType

(* Whatever the kubelet reports of a Pod is a Pod, of the same owner. *)
LEMMA KubeletSyncType ==
    ASSUME TypeOK, NEW name \in PodNames, KubeletSync(name)
    PROVE  \E new \in PodType : PodAction(name, new) /\ new.owner = pods[name].owner
<1> DEFINE pod == pods[name]
<1>1. clock \in Times /\ pod \in PodType
  BY DEF Times, TypeOK
<1>2. Terminations \subseteq TerminationType
  BY InputsAssumption DEF InputsAssumption
<1> DEFINE Phs == {"Running", "Succeeded", "Failed", "Unknown"}
           Cons == {"Waiting", "Running", "Terminated"}
<1>3. \/ \E ph \in Phs : PodAction(name, [pod EXCEPT !.phase = ph])
      \/ \E ph \in Phs, c \in Cons :
            PodAction(name, [pod EXCEPT !.phase = ph, !.container = c])
      \/ \E ph \in Phs, c \in Cons :
            PodAction(name, [pod EXCEPT !.phase = ph, !.container = c, !.started = clock])
      \/ \E ph \in Phs, c \in Cons, t \in Terminations :
            PodAction(name, [pod EXCEPT !.phase = ph, !.container = c, !.term = t])
  BY Zenon DEF KubeletSync
<1> DEFINE Report(new) == new \in PodType /\ new.owner = pod.owner
<1>4. ASSUME NEW ph \in Phs PROVE Report([pod EXCEPT !.phase = ph])
  BY <1>1 DEF PodType
<1>5. ASSUME NEW ph \in Phs, NEW c \in Cons
      PROVE  /\ Report([pod EXCEPT !.phase = ph, !.container = c])
             /\ Report([pod EXCEPT !.phase = ph, !.container = c, !.started = clock])
  BY <1>1 DEF PodType
<1>6. ASSUME NEW ph \in Phs, NEW c \in Cons, NEW t \in Terminations
      PROVE  Report([pod EXCEPT !.phase = ph, !.container = c, !.term = t])
  BY <1>1, <1>2 DEF PodType
<1>7. \E new : PodAction(name, new) /\ Report(new)
  <2> HIDE DEF Report
  <2> QED BY <1>3, <1>4, <1>5, <1>6, Zenon
<1> QED BY <1>7, Zenon

(* Writing a well-formed run or Pod keeps the server and the watch streams typed. *)
LEMMA SetRunType ==
    ASSUME TypeOK, NEW new \in RunType, SetRun(new)
    PROVE  run' \in RunType /\ runEvents' \in Seq(RunType)
BY DEF TypeOK, SetRun

(* Writing a well-formed Pod keeps the Pods and their watch streams typed. *)
LEMMA SetPodType ==
    ASSUME TypeOK, NEW new \in PodType, NEW name \in PodNames, SetPod(name, new)
    PROVE  pods' \in [PodNames -> PodType] /\ podEvents' \in Seq([PodNames -> PodType])
<1> DEFINE PodMaps == [PodNames -> PodType]
<1>1. pods' \in PodMaps
  BY DEF TypeOK, SetPod
<1>2. podEvents \in Seq(PodMaps)
  BY DEF TypeOK
<1>3. podEvents' = podEvents \/ podEvents' = Append(podEvents, pods')
  BY DEF SetPod
<1> HIDE DEF PodMaps
<1>4. podEvents' \in Seq(PodMaps)
  BY <1>1, <1>2, <1>3
<1> QED BY <1>1, <1>4 DEF PodMaps

(* A Pod being deleted gracefully is still a Pod, of the same owner. *)
LEMMA TerminatingType ==
    ASSUME NEW pod \in PodType
    PROVE  Terminating(pod) \in PodType /\ Terminating(pod).owner = pod.owner
BY DEF Terminating, PodType

(* The cluster changes one Pod at a time, and makes none for an incarnation. *)
LEMMA PodStepIs ==
    ASSUME TypeOK, NEW name \in PodNames, PodStep(name)
    PROVE  \E new \in PodType :
              /\ PodAction(name, new) /\ (Meddle \/ UNCHANGED meddling)
              /\ new.owner = pods[name].owner \/ new.owner \notin Uids
<1>1. pods[name] \in PodType
  BY DEF TypeOK
<1>2. NoPod.owner \notin Uids
  BY DEF NoPod, NewPod, Uids
<1>3. CASE KubeletSync(name)
  BY <1>3, KubeletSyncType DEF KubeletSync
<1>4. CASE PodStopped(name)
  BY <1>4, <1>2, ConstantTypes DEF PodStopped
<1>5. CASE CollectPod(name)
  BY <1>5, <1>1, TerminatingType DEF CollectPod
<1>6. CASE UserDeletesPod(name)
  BY <1>6, <1>1, TerminatingType DEF UserDeletesPod
<1>7. CASE StrangerCreatesPod(name)
  <2> DEFINE new == [NewPod(Stranger) EXCEPT !.phase = "Running"]
  <2>1. new \in PodType
    BY ConstantTypes DEF PodType
  <2>2. new.owner \notin Uids
    BY DEF NewPod, Uids
  <2>3. PodAction(name, new) /\ Meddle
    BY <1>7 DEF StrangerCreatesPod
  <2> HIDE DEF new
  <2> QED BY <2>1, <2>2, <2>3
<1> QED BY <1>3, <1>4, <1>5, <1>6, <1>7 DEF PodStep

(* A created run is well formed. *)
LEMMA UserCreatesRunType ==
    ASSUME TypeOK, UserCreatesRun
    PROVE  /\ lastUid + 1 \in Uids
           /\ \E new \in RunType :
                SetRun(new) /\ new.uid = lastUid + 1 /\ new.status = EmptyStatus
<1>1. PICK spec \in RunSpecs :
        SetRun([uid |-> lastUid + 1, spec |-> spec, status |-> EmptyStatus])
  BY DEF UserCreatesRun
<1>2. lastUid + 1 \in Uids
  BY BoundsAssumption DEF UserCreatesRun, TypeOK, Uids, BoundsAssumption
<1>3. [uid |-> lastUid + 1, spec |-> spec, status |-> EmptyStatus] \in RunType
  BY <1>2, ConstantTypes, InputsAssumption DEF RunType, LiveRunType, InputsAssumption
<1> QED BY <1>1, <1>2, <1>3

(* Ends of a reconcile keep the worker and the queue typed. *)
LEMMA FinishType ==
    ASSUME TypeOK, NEW t \in {NoTime} \cup Nat, Finish(t)
    PROVE  worker' \in WorkerType /\ dirty' \in BOOLEAN /\ timer' \in {NoTime} \cup Nat
BY DEF TypeOK, Finish, WorkerType

(* A reconcile that is tried again leaves worker and queue typed. *)
LEMMA RetryType ==
    ASSUME TypeOK, Retry
    PROVE  worker' \in WorkerType /\ dirty' \in BOOLEAN /\ timer' \in {NoTime} \cup Nat
BY DEF TypeOK, Retry, WorkerType

(* A reconcile that goes on to its next call leaves worker and queue typed. *)
LEMMA GoOnType ==
    ASSUME TypeOK, NEW w \in BusyType, GoOn(w)
    PROVE  worker' \in WorkerType /\ dirty' \in BOOLEAN /\ timer' \in {NoTime} \cup Nat
BY DEF TypeOK, GoOn, queue, WorkerType

(* A fault is counted, and the count keeps its type. *)
LEMMA FaultType ==
    ASSUME TypeOK, Fault \/ UNCHANGED bounds
    PROVE  faults' \in 0..MaxFaults /\ meddling' \in 0..MaxMeddling /\ lastUid' \in Uids
BY BoundsAssumption DEF BoundsAssumption, TypeOK, Fault, bounds

(* A merge patch of well-formed statuses is a well-formed status. *)
LEMMA MergePatchType ==
    ASSUME NEW live \in StatusType, NEW base \in StatusType, NEW next \in StatusType
    PROVE  MergePatch(live, base, next) \in StatusType
BY DEF MergePatch, StatusType

(* The worker's record is typed whenever it is in the middle of a reconcile. *)
LEMMA BusyWorker ==
    ASSUME TypeOK, worker.pc # "idle"
    PROVE  /\ worker \in BusyType
           /\ worker.base \in LiveRunType /\ worker.base.uid \in Uids
           /\ worker.base.status \in StatusType /\ worker.next \in StatusType
           /\ worker.pod \in PodNames /\ worker.requeueAt \in {NoTime} \cup Nat
           /\ pods[worker.pod] \in PodType
<1>1. worker \in BusyType
  BY DEF TypeOK, WorkerType, Idle
<1> QED BY <1>1 DEF BusyType, LiveRunType, TypeOK

(* A Pod action of the cluster keeps the types. *)
LEMMA PodActionType ==
    ASSUME TypeOK, NEW name \in PodNames, NEW new \in PodType, PodAction(name, new),
           Meddle \/ UNCHANGED meddling
    PROVE  TypeOK'
<1>1. pods' \in [PodNames -> PodType] /\ podEvents' \in Seq([PodNames -> PodType])
  BY SetPodType DEF PodAction
<1>2. meddling' \in 0..MaxMeddling
  BY BoundsAssumption DEF BoundsAssumption, Meddle, TypeOK
<1> QED BY <1>1, <1>2 DEF PodAction, TypeOK, queue

(* Initially every variable has its type. *)
LEMMA TypeInit == Init => TypeOK
<1> SUFFICES ASSUME Init PROVE TypeOK
  OBVIOUS
<1>1. 1 \in Uids
  BY BoundsAssumption DEF BoundsAssumption, Uids
<1>2. run \in RunType
  BY <1>1, ConstantTypes, InputsAssumption
     DEF Init, RunType, LiveRunType, InputsAssumption
<1>3. pods \in [PodNames -> PodType]
  <2>1. PICK owner \in {Nobody, Stranger, 1} :
          pods = [n \in PodNames |-> IF n = Legacy THEN NewPod(owner) ELSE NoPod]
    BY DEF Init
  <2>2. NewPod(owner) \in PodType
    BY <1>1, ConstantTypes DEF NoPod
  <2> QED BY <2>1, <2>2, ConstantTypes
<1>4. made \in [Uids -> Nat]
  BY DEF Init
<1>5. clock \in 0..MaxTime /\ faults \in 0..MaxFaults /\ meddling \in 0..MaxMeddling
  BY BoundsAssumption DEF BoundsAssumption, Init
<1> QED BY <1>1, <1>2, <1>3, <1>4, <1>5, ConstantTypes DEF Init, TypeOK

(* Every step keeps every variable's type. *)
LEMMA TypeStep == TypeOK /\ [Next]_vars => TypeOK'
<1> SUFFICES ASSUME TypeOK, [Next]_vars PROVE TypeOK'
  OBVIOUS
<1> DEFINE QueueTyped == worker' \in WorkerType /\ dirty' \in BOOLEAN /\ timer' \in {NoTime} \cup Nat
           BoundsTyped == faults' \in 0..MaxFaults /\ meddling' \in 0..MaxMeddling /\ lastUid' \in Uids
<1>1. CASE Reconcile
  <2>1. runCache # NoRun => runCache \in LiveRunType
    BY DEF TypeOK, RunType
  <2>2. runCache # NoRun => runCache.status.podName \in PodNames \cup {"unset"}
    BY <2>1 DEF LiveRunType, StatusType
  <2>3. worker' \in WorkerType
    BY <1>1, <2>1, <2>2, AtType DEF Reconcile, FirstCall, WorkerType, ReconcilePcs, PodNames
  <2> QED BY <1>1, <2>3 DEF Reconcile, FirstCall, TypeOK, cluster, caches, bounds
<1>2. CASE GetPod
  <2>1. worker.base \in LiveRunType /\ worker.base.status \in StatusType
    BY <1>2, BusyWorker DEF GetPod
  <2>2. \A n \in PodNames : podCache[n] \in PodType
    BY DEF TypeOK
  <2>3. clock \in 0..MaxTime
    BY DEF TypeOK
  <2>4. PICK name \in PodNames :
          \/ GoOn(At("live_pod", worker.base, name))
          \/ GoOn(Decide(worker.base, podCache[name], name))
    BY <1>2, <2>1 DEF GetPod, StatusType, PodNames
  <2>5. QueueTyped
    BY <2>1, <2>2, <2>3, <2>4, GoOnType, AtType, DecideType DEF ReconcilePcs
  <2> QED BY <1>2, <2>5 DEF GetPod, TypeOK, cluster, caches, bounds
<1>3. CASE GetLivePod
  <2>1. QueueTyped
    BY <1>3, BusyWorker, GoOnType, DecideType DEF GetLivePod, TypeOK
  <2> QED BY <1>3, <2>1 DEF GetLivePod, TypeOK, cluster, caches, bounds
<1>4. CASE EnsureDeliveryCredential
  <2>1. QueueTyped
    BY <1>4, BusyWorker, GoOnType, RetryType, DecideType
       DEF EnsureDeliveryCredential, TypeOK, Replied
  <2>2. BoundsTyped
    BY <1>4, FaultType DEF EnsureDeliveryCredential, Replied
  <2>3. secrets' \subseteq Uids
    BY <1>4, BusyWorker DEF EnsureDeliveryCredential, TypeOK
  <2> QED BY <1>4, <2>1, <2>2, <2>3 DEF EnsureDeliveryCredential, TypeOK, caches
<1>5. CASE CreatePod
  <2>1. worker.base \in LiveRunType /\ worker.base.uid \in Uids
        /\ worker.base.status \in StatusType /\ worker.pod \in PodNames
    BY <1>5, BusyWorker DEF CreatePod
  <2> DEFINE next == TransitionRun([worker.base.status EXCEPT !.podName = worker.pod],
                                   "Pending", "requested")
  <2>2. next \in StatusType
    <3>1. [worker.base.status EXCEPT !.podName = worker.pod] \in StatusType
      BY <2>1 DEF StatusType
    <3> QED BY <3>1, TransitionRunType DEF TypeOK, Phases, Messages
  <2>3. QueueTyped
    <3>1. PatchWith(worker.base, worker.pod, next) \in BusyType
      BY <2>1, <2>2, PatchWithType
    <3>2. GoOn(PatchWith(worker.base, worker.pod, next)) \/ Retry
      BY <1>5 DEF CreatePod, Replied
    <3> HIDE DEF next
    <3> QED BY <3>1, <3>2, GoOnType, RetryType
  <2>4. BoundsTyped
    BY <1>5, FaultType DEF CreatePod, Replied
  <2>5. pods' \in [PodNames -> PodType] /\ podEvents' \in Seq([PodNames -> PodType])
    <3>1. NewPod(worker.base.uid) \in PodType
      BY <2>1, ConstantTypes
    <3> QED BY <1>5, <2>1, <3>1, SetPodType DEF CreatePod, TypeOK
  <2>6. made' \in [Uids -> Nat]
    BY <1>5, <2>1 DEF CreatePod, TypeOK
  <2> QED BY <1>5, <2>3, <2>4, <2>5, <2>6 DEF CreatePod, TypeOK
<1>6. CASE PatchRunStatus
  <2>1. /\ worker.base \in LiveRunType /\ worker.base.status \in StatusType
        /\ worker.next \in StatusType /\ worker.pod \in PodNames
        /\ worker.requeueAt \in {NoTime} \cup Nat
    BY <1>6, BusyWorker DEF PatchRunStatus
  <2>2. QueueTyped
    <3>1. At("delete", worker.base, worker.pod) \in BusyType
      BY <2>1, AtType DEF ReconcilePcs
    <3> QED BY <1>6, <2>1, <3>1, RetryType, GoOnType, FinishType DEF PatchRunStatus, Replied
  <2>3. BoundsTyped
    BY <1>6, FaultType DEF PatchRunStatus, Replied
  <2>4. run' \in RunType /\ runEvents' \in Seq(RunType)
    <3>1. CASE run = NoRun
      BY <1>6, <3>1 DEF PatchRunStatus, TypeOK
    <3>2. CASE run # NoRun
      <4>1. run \in LiveRunType /\ run.status \in StatusType
        BY <3>2 DEF TypeOK, RunType, LiveRunType
      <4> DEFINE merged == MergePatch(run.status, worker.base.status, worker.next)
      <4>2. merged \in StatusType
        BY <4>1, <2>1, MergePatchType
      <4> HIDE DEF merged
      <4>3. [run EXCEPT !.status = merged] \in RunType
        BY <4>1, <4>2 DEF LiveRunType, RunType
      <4>4. SetRun([run EXCEPT !.status = merged])
        BY <1>6, <3>2 DEF PatchRunStatus, merged
      <4> QED BY <4>3, <4>4, SetRunType
    <3> QED BY <3>1, <3>2
  <2> QED BY <1>6, <2>2, <2>3, <2>4 DEF PatchRunStatus, TypeOK
<1>7. CASE DeletePod
  <2>1. worker.pod \in PodNames /\ pods[worker.pod] \in PodType
    BY <1>7, BusyWorker DEF DeletePod
  <2>2. pods' \in [PodNames -> PodType] /\ podEvents' \in Seq([PodNames -> PodType])
    BY <1>7, <2>1, TerminatingType, SetPodType DEF DeletePod
  <2>3. QueueTyped /\ BoundsTyped
    BY <1>7, FinishType, RetryType, FaultType DEF DeletePod, Replied
  <2> QED BY <1>7, <2>2, <2>3 DEF DeletePod, TypeOK
<1>8. CASE DeleteInvalidPod
  <2>1. worker.pod \in PodNames /\ pods[worker.pod] \in PodType /\ worker.base \in LiveRunType
    BY <1>8, BusyWorker DEF DeleteInvalidPod
  <2>2. pods' \in [PodNames -> PodType] /\ podEvents' \in Seq([PodNames -> PodType])
    BY <1>8, <2>1, TerminatingType, SetPodType DEF DeleteInvalidPod
  <2>3. QueueTyped /\ BoundsTyped
    <3>1. FailInvalidWallclock(worker.base, worker.pod, TRUE) \in BusyType
      BY <2>1, DecideType DEF TypeOK
    <3> QED BY <1>8, <3>1, GoOnType, RetryType, FaultType DEF DeleteInvalidPod, Replied
  <2> QED BY <1>8, <2>2, <2>3 DEF DeleteInvalidPod, TypeOK
<1>9. CASE DeleteBudgetExceededPod
  <2>1. At("delete", worker.base, worker.pod) \in BusyType
    BY <1>9, BusyWorker, AtType DEF DeleteBudgetExceededPod, ReconcilePcs
  <2>2. QueueTyped
    BY <1>9, <2>1, GoOnType, FinishType DEF DeleteBudgetExceededPod
  <2> QED BY <1>9, <2>2 DEF DeleteBudgetExceededPod, TypeOK, cluster, caches, bounds
<1>10. CASE DeliverRunEvent
  BY <1>10 DEF DeliverRunEvent, TypeOK, cluster, bounds
<1>11. CASE DeliverPodEvent
  <2> DEFINE PodMaps == [PodNames -> PodType]
  <2>1. podEvents \in Seq(PodMaps) /\ podEvents # <<>>
    BY <1>11 DEF DeliverPodEvent, TypeOK
  <2>2. Head(podEvents) \in PodMaps /\ Tail(podEvents) \in Seq(PodMaps)
    <3> HIDE DEF PodMaps
    <3> QED BY <2>1
  <2>3. dirty' \in BOOLEAN
    BY <1>11 DEF DeliverPodEvent, TypeOK
  <2> QED BY <1>11, <2>2, <2>3 DEF DeliverPodEvent, TypeOK, cluster, bounds
<1>12. CASE RequeueAfter
  BY <1>12 DEF RequeueAfter, TypeOK, cluster, caches, bounds
<1>13. CASE ApiCallFails
  <2>1. QueueTyped /\ BoundsTyped
    BY <1>13, RetryType, FaultType DEF ApiCallFails
  <2> QED BY <1>13, <2>1 DEF ApiCallFails, TypeOK, cluster, caches
<1>14. CASE Crash
  <2>1. BoundsTyped
    BY <1>14, FaultType DEF Crash
  <2> DEFINE PodMaps == [PodNames -> PodType]
  <2>2. runEvents' \in Seq(RunType) /\ podEvents' \in Seq(PodMaps)
    <3> HIDE DEF PodMaps
    <3> QED BY <1>14 DEF Crash
  <2> QED BY <1>14, <2>1, <2>2, ConstantTypes DEF Crash, TypeOK, cluster
<1>15. ASSUME NEW name \in PodNames, PodStep(name) PROVE TypeOK'
  BY <1>15, PodStepIs, PodActionType
<1>16. CASE CollectSecrets
  BY <1>16 DEF CollectSecrets, TypeOK, caches, queue, bounds
<1>17. CASE UserCreatesRun
  <2>2. lastUid + 1 \in Uids
    BY <1>17, UserCreatesRunType
  <2>4. run' \in RunType /\ runEvents' \in Seq(RunType)
    BY <1>17, UserCreatesRunType, SetRunType
  <2> QED BY <1>17, <2>2, <2>4 DEF UserCreatesRun, TypeOK, queue
<1>18. CASE UserDeletesRun
  <2>1. run' \in RunType /\ runEvents' \in Seq(RunType)
    BY <1>18, ConstantTypes, SetRunType DEF UserDeletesRun
  <2> QED BY <1>18, <2>1 DEF UserDeletesRun, TypeOK, queue, bounds
<1>19. CASE Tick
  BY <1>19, BoundsAssumption DEF BoundsAssumption, Tick, TypeOK, cluster, caches, queue, bounds
<1>20. CASE UNCHANGED vars
  BY <1>20 DEF vars, TypeOK
<1> QED
  BY <1>1, <1>2, <1>3, <1>4, <1>5, <1>6, <1>7, <1>8, <1>9, <1>10, <1>11, <1>12, <1>13,
     <1>14, <1>15, <1>16, <1>17, <1>18, <1>19, <1>20 DEF Next, WorkerStep, QueueStep

(* TypeOK is an invariant of the Pod-backed AgentRun controller: in particular no     *)
(* sequence of decisions makes it write a status the AgentRun type does not allow.    *)
THEOREM TypeCorrect == Spec => []TypeOK
BY TypeInit, TypeStep, PTL DEF Spec

----------------------------------------------------------------------------
(* What a decision says about the status it will write.                     *)

(* A transition always gives a coherent status, stamped exactly when it is terminal. *)
LEMMA TransitionRunGood ==
    ASSUME clock \in 0..MaxTime,
           NEW s \in StatusType, NEW ph \in Phases, NEW m \in Messages
    PROVE  /\ TransitionRun(s, ph, m).phase = ph
           /\ Coherent(TransitionRun(s, ph, m))
           /\ Settled(TransitionRun(s, ph, m))
<1> DEFINE t == TransitionRun(s, ph, m)
<1>1. t.phase = ph /\ t.conditions = ph
  BY DEF TransitionRun, StatusType
<1>2. t.completion = IF ~IsTerminal(ph) THEN NoTime
                     ELSE IF s.completion = NoTime THEN clock ELSE s.completion
  BY DEF TransitionRun, StatusType
<1>3. clock # NoTime
  BY BoundsAssumption DEF BoundsAssumption
<1> HIDE DEF t
<1>4. Coherent(t) /\ Settled(t)
  BY <1>1, <1>2, <1>3 DEF Coherent, Settled, IsTerminal
<1> QED BY <1>1, <1>4 DEF t

Good(w, base) ==
    /\ w.base = base
    /\ w.pc \in PatchingPcs
    /\ w.pc = "patch" =>
          /\ Coherent(w.next) /\ w.next.phase # "unset"
          /\ base.status.completion = NoTime => Settled(w.next)
    /\ w.pc \in {"credential", "create"} => base.status.podName = "unset"

(* A worker that goes on to a call other than a patch, or to the patch of a           *)
(* transition, is good in this sense.                                                 *)
LEMMA AtGood ==
    ASSUME NEW base, NEW name, NEW pc \in PatchingPcs \ {"patch"},
           pc \in {"credential", "create"} => base.status.podName = "unset"
    PROVE  Good(At(pc, base, name), base)
BY DEF At, Idle, Good

(* A worker about to patch a coherent, correctly stamped status is good. *)
LEMMA PatchWithGood ==
    ASSUME NEW base, NEW name, NEW next, Coherent(next), next.phase # "unset",
           base.status.completion = NoTime => Settled(next)
    PROVE  Good(PatchWith(base, name, next), base)
BY DEF PatchWith, At, Idle, Good, PatchingPcs

(* A worker about to patch the result of a transition is good. *)
LEMMA TransitionGood ==
    ASSUME clock \in 0..MaxTime, NEW base, NEW name, NEW s \in StatusType,
           NEW ph \in Phases \ {"unset"}, NEW m \in Messages
    PROVE  Good(PatchWith(base, name, TransitionRun(s, ph, m)), base)
<1>1. /\ Coherent(TransitionRun(s, ph, m)) /\ Settled(TransitionRun(s, ph, m))
      /\ TransitionRun(s, ph, m).phase # "unset"
  BY TransitionRunGood
<1> QED BY <1>1, PatchWithGood

(* Whatever a reconcile decides, it will write a coherent status, and one that is     *)
(* stamped with a completion time exactly when it is terminal if the run it read was  *)
(* not stamped; and it makes a Pod only for a run that names none.                    *)
LEMMA DecideGood ==
    ASSUME clock \in 0..MaxTime, NEW base \in LiveRunType,
           NEW pod \in PodType, NEW name \in PodNames
    PROVE  /\ base.status.podName = "unset" => Good(BuildPod(base, name), base)
           /\ Good(FailInvalidWallclock(base, name, TRUE), base)
           /\ Good(Decide(base, pod, name), base)
<1> DEFINE s == base.status
<1>1. s \in StatusType /\ base.uid \in Uids
  BY DEF LiveRunType
<1>2. \A m \in {"lost", "collision", "invalid", "exceeded"} : m \in Messages
  BY DEF Messages
<1>3. "Failed" \in Phases \ {"unset"} /\ "BudgetExceeded" \in Phases \ {"unset"}
  BY DEF Phases, TerminalPhases
<1>4. Good(FailPodNameCollision(base, name), base)
  <2>1. [s EXCEPT !.podName = name, !.output = NoOutput, !.start = NoTime] \in StatusType
    BY <1>1 DEF StatusType, Times
  <2> QED BY <2>1, <1>2, <1>3, TransitionGood DEF FailPodNameCollision
<1>5. ASSUME NEW b \in BOOLEAN PROVE Good(FailInvalidWallclock(base, name, b), base)
  <2>1. [s EXCEPT !.podName = IF b THEN name ELSE @] \in StatusType
    BY <1>1, <1>5 DEF StatusType
  <2> QED BY <2>1, <1>2, <1>3, TransitionGood DEF FailInvalidWallclock
<1>6. s.podName = "unset" => Good(BuildPod(base, name), base)
  <2>1. Good(PatchWith(base, name, TransitionRun(s, "Failed", "invalid")), base)
    BY <1>1, <1>2, <1>3, TransitionGood
  <2>2. s.podName = "unset" => Good(At("create", base, name), base)
    BY AtGood DEF PatchingPcs
  <2> QED BY <2>1, <2>2 DEF BuildPod
<1>7. Good(ReconcileMissingPod(base, name), base)
  <2>1. [s EXCEPT !.podName = name] \in StatusType
    BY <1>1 DEF StatusType
  <2>2. Good(PatchWith(base, name,
               TransitionRun([s EXCEPT !.podName = name], "Failed", "lost")), base)
    BY <2>1, <1>2, <1>3, TransitionGood
  <2>3. s.podName = "unset" => Good(At("credential", base, name), base)
    BY AtGood DEF PatchingPcs
  <2> QED BY <2>2, <2>3, <1>6 DEF ReconcileMissingPod
<1>8. ASSUME IsControlledBy(pod, base)
      PROVE  /\ Good(EnforceWallclock(base, pod, name), base)
             /\ Good(SyncPodObservation(base, pod, name), base)
  <2>1. /\ ObservePod(pod).phase \in Phases \ {"unset"}
        /\ ObservePod(pod).output \in {NoOutput} \cup Uids
        /\ ObservePod(pod).started \in Times
    BY <1>1, <1>8, ObservePodType DEF IsControlledBy
  <2>2. WallclockStart(base, pod) \in Times
    BY <2>1, <1>1 DEF WallclockStart, StatusType
  <2>3. Good(EnforceWallclock(base, pod, name), base)
    <3> DEFINE stamped == [s EXCEPT !.podName = name, !.start = WallclockStart(base, pod)]
               plan == PatchWith(base, name, TransitionRun(stamped, "BudgetExceeded", "exceeded"))
    <3>1. stamped \in StatusType
      BY <1>1, <2>2 DEF StatusType
    <3>2. Good(plan, base) /\ plan \in BusyType
      <4> HIDE DEF stamped
      <4> QED BY <3>1, <1>2, <1>3, TransitionGood, TransitionRunType, PatchWithType
    <3> HIDE DEF plan
    <3>3. Good([plan EXCEPT !.thenDelete = TRUE], base)
      BY <3>2 DEF Good, BusyType
    <3> QED BY <3>3 DEF EnforceWallclock, plan
  <2>4. Good(SyncPodObservation(base, pod, name), base)
    <3> DEFINE seen == ObservePod(pod)
               status ==
                 [s EXCEPT
                    !.phase = seen.phase,
                    !.podName = name,
                    !.message = "observed",
                    !.output = IF seen.output # NoOutput THEN seen.output ELSE @,
                    !.start = IF @ # NoTime \/ seen.phase # "Running" THEN @
                              ELSE IF seen.started # NoTime THEN seen.started ELSE clock,
                    !.completion = IF IsTerminal(seen.phase) /\ @ = NoTime THEN clock ELSE @,
                    !.conditions = seen.phase]
               requeueAt == IF WallclockRuns(base, pod)
                            THEN WallclockStart(base, pod) + base.spec.wallclock + 1
                            ELSE NoTime
    <3>1. clock \in Times /\ clock # NoTime
      BY DEF Times
    <3>2. /\ status \in StatusType
          /\ Coherent(status) /\ status.phase # "unset"
          /\ s.completion = NoTime => Settled(status)
      <4> HIDE DEF seen
      <4> QED BY <2>1, <1>1, <3>1 DEF seen, StatusType, Messages, Coherent, Settled
    <3> HIDE DEF status, requeueAt
    <3>3. Good(PatchWith(base, name, status), base) /\ PatchWith(base, name, status) \in BusyType
      BY <3>2, PatchWithGood, PatchWithType
    <3>4. Good([PatchWith(base, name, status) EXCEPT !.requeueAt = requeueAt], base)
      BY <3>3 DEF Good, BusyType
    <3> QED BY <3>4 DEF SyncPodObservation, status, requeueAt
  <2> QED BY <2>3, <2>4
<1>9. Good(Decide(base, pod, name), base)
  <2>1. Good(At("delete_invalid", base, name), base)
    BY AtGood DEF PatchingPcs
  <2> QED BY <1>4, <1>5, <1>7, <1>8, <2>1 DEF Decide, Exists
<1> QED BY <1>5, <1>6, <1>9

(* What GetPod does next. *)
LEMMA GetPodGoesOn ==
    ASSUME TypeOK, GetPod
    PROVE  /\ GoOn(worker')
           /\ Good(worker', worker.base)
           /\ worker'.base = worker.base
<1>1. worker.base \in LiveRunType /\ worker.base.status \in StatusType
  BY BusyWorker DEF GetPod
<1>2. \A n \in PodNames : podCache[n] \in PodType
  BY DEF TypeOK
<1>3. PICK name \in PodNames :
        \/ GoOn(At("live_pod", worker.base, name))
        \/ GoOn(Decide(worker.base, podCache[name], name))
  BY <1>1 DEF GetPod, StatusType, PodNames
<1>4. Good(worker', worker.base)
  <2>1. Good(At("live_pod", worker.base, name), worker.base)
    BY AtGood DEF PatchingPcs
  <2>2. Good(Decide(worker.base, podCache[name], name), worker.base)
    BY <1>1, <1>2, DecideGood DEF TypeOK
  <2> QED BY <1>3, <2>1, <2>2 DEF GoOn
<1> QED BY <1>3, <1>4 DEF GoOn, Good

----------------------------------------------------------------------------
(* How each step treats the run, its cache and the worker.                  *)

runview == <<run, runCache, runEvents>>

(* The steps of the worker that do not write the run leave it in the middle of a      *)
(* reconcile of the same run, in a good state, or end the reconcile.                  *)
LEMMA WorkerGoesOn ==
    ASSUME TypeOK,
           \/ GetPod \/ GetLivePod \/ EnsureDeliveryCredential \/ CreatePod
           \/ DeleteInvalidPod,
           MakesOnlyFirstPod
    PROVE  /\ worker.pc \in PatchingPcs
           /\ UNCHANGED <<runview, lastUid>>
           /\ worker' = Idle \/ Good(worker', worker.base)
<1> DEFINE base == worker.base
<1>1. CASE GetPod
  <2>1. Good(worker', base)
    BY <1>1, GetPodGoesOn
  <2> QED BY <1>1, <2>1 DEF GetPod, cluster, caches, bounds, runview, PatchingPcs
<1>2. CASE GetLivePod
  <2>1. Good(Decide(base, pods[worker.pod], worker.pod), base)
    BY <1>2, BusyWorker, DecideGood DEF GetLivePod, TypeOK
  <2> QED BY <1>2, <2>1 DEF GetLivePod, GoOn, cluster, caches, bounds, runview, PatchingPcs
<1>3. CASE EnsureDeliveryCredential
  <2>1. Good(BuildPod(base, worker.pod), base)
    BY <1>3, BusyWorker, DecideGood DEF EnsureDeliveryCredential, TypeOK, MakesOnlyFirstPod
  <2> QED BY <1>3, <2>1 DEF EnsureDeliveryCredential, Replied, Fault, Retry, GoOn, caches,
                            bounds, runview, PatchingPcs
<1>4. CASE CreatePod
  <2> DEFINE s == [base.status EXCEPT !.podName = worker.pod]
  <2>1. s \in StatusType
    BY <1>4, BusyWorker DEF CreatePod, StatusType
  <2>2. Good(PatchWith(base, worker.pod, TransitionRun(s, "Pending", "requested")), base)
    BY <2>1, TransitionGood DEF TypeOK, Phases, Messages
  <2> QED BY <1>4, <2>2 DEF CreatePod, Replied, Fault, Retry, GoOn, bounds, runview, PatchingPcs
<1>5. CASE DeleteInvalidPod
  <2>1. Good(FailInvalidWallclock(base, worker.pod, TRUE), base)
    BY <1>5, BusyWorker, DecideGood DEF DeleteInvalidPod, TypeOK
  <2> QED BY <1>5, <2>1 DEF DeleteInvalidPod, Replied, Fault, Retry, GoOn, bounds, runview,
                            PatchingPcs
<1> QED BY <1>1, <1>2, <1>3, <1>4, <1>5

(* The steps that clean up after the outcome has been recorded. *)
LEMMA WorkerCleansUp ==
    ASSUME DeletePod \/ DeleteBudgetExceededPod \/ ApiCallFails
    PROVE  /\ UNCHANGED <<runview, lastUid>>
           /\ worker' = Idle \/ worker' = At("delete", worker.base, worker.pod)
BY DEF DeletePod, DeleteBudgetExceededPod, ApiCallFails, Replied, Fault, Retry, GoOn, Finish,
       cluster, caches, bounds, runview

(* The steps that touch neither the run nor the worker. *)
LEMMA OthersStep ==
    ASSUME \/ DeliverPodEvent \/ RequeueAfter \/ CollectSecrets \/ Tick
           \/ \E name \in PodNames : PodStep(name)
           \/ UNCHANGED vars
    PROVE  UNCHANGED <<runview, worker, lastUid>>
BY DEF DeliverPodEvent, RequeueAfter, CollectSecrets, Tick, PodStep, KubeletSync, PodStopped,
       CollectPod, UserDeletesPod, StrangerCreatesPod, PodAction, cluster, caches, bounds, queue,
       runview, vars

----------------------------------------------------------------------------
(* Conditions and phase, for every lag of the caches.                       *)

(* A merge patch between coherent statuses gives a coherent one: the two fields       *)
(* differ from the base together or not at all.                                       *)
LEMMA MergePatchCoherent ==
    ASSUME NEW live \in StatusType, NEW base \in StatusType, NEW next \in StatusType,
           Coherent(live), Coherent(base), Coherent(next)
    PROVE  Coherent(MergePatch(live, base, next))
BY DEF MergePatch, StatusType, Coherent

(* The calls a worker may make besides the patch. *)
LEMMA AtIs ==
    \A pc, b, n : At(pc, b, n).base = b /\ At(pc, b, n).pc = pc
BY DEF At, Idle

(* The idle worker holds the empty run. *)
LEMMA IdleIs == Coherent(Idle.base.status) /\ Idle.pc = "idle" /\ Idle.base = NoRun
BY DEF Idle, NoRun, EmptyStatus, Coherent

(* CoherentEverywhere is inductive. *)
LEMMA CoherentStep == TypeOK /\ CoherentEverywhere /\ [Next]_vars => CoherentEverywhere'
<1> SUFFICES ASSUME TypeOK, CoherentEverywhere, [Next]_vars PROVE CoherentEverywhere'
  OBVIOUS
<1> USE DEF MakesOnlyFirstPod, Coherent
<1>1. CASE Reconcile
  <2>1. \/ worker' = Idle
        \/ \E pc \in {"get_pod", "budget_pod"} : \E n : worker' = At(pc, runCache, n)
    BY <1>1 DEF Reconcile, FirstCall
  <2> QED BY <1>1, <2>1, AtIs, IdleIs DEF Reconcile, FirstCall, CoherentEverywhere, cluster, caches
<1>2. CASE GetPod \/ GetLivePod \/ EnsureDeliveryCredential \/ CreatePod \/ DeleteInvalidPod
  <2>1. UNCHANGED runview /\ (worker' = Idle \/ Good(worker', worker.base))
    BY <1>2, WorkerGoesOn DEF CoherentEverywhere
  <2> QED BY <2>1, IdleIs DEF CoherentEverywhere, Good, runview
<1>3. CASE PatchRunStatus
  <2>1. worker' = Idle \/ worker' = At("delete", worker.base, worker.pod)
    BY <1>3 DEF PatchRunStatus, Replied, Retry, GoOn, Finish
  <2>2. CASE run = NoRun
    BY <1>3, <2>1, <2>2, AtIs, IdleIs DEF PatchRunStatus, CoherentEverywhere
  <2>3. CASE run # NoRun
    <3>1. /\ run \in LiveRunType /\ run.status \in StatusType
          /\ worker.base.status \in StatusType /\ worker.next \in StatusType
      BY <1>3, <2>3, BusyWorker DEF PatchRunStatus, TypeOK, RunType, LiveRunType
    <3> DEFINE merged == MergePatch(run.status, worker.base.status, worker.next)
               new == [run EXCEPT !.status = merged]
    <3>2. Coherent(merged)
      BY <1>3, <3>1, MergePatchCoherent DEF CoherentEverywhere, PatchRunStatus
    <3>3. SetRun(new) /\ runCache' = runCache
      BY <1>3, <2>3 DEF PatchRunStatus
    <3> HIDE DEF merged
    <3>4. Coherent(new.status)
      BY <3>1, <3>2 DEF LiveRunType
    <3> HIDE DEF new
    <3>5. \A i \in DOMAIN runEvents' : Coherent(runEvents'[i].status)
      BY <3>3, <3>4 DEF SetRun, CoherentEverywhere, TypeOK
    <3> QED BY <2>1, <3>3, <3>4, <3>5, AtIs, IdleIs DEF SetRun, CoherentEverywhere
  <2> QED BY <2>2, <2>3
<1>4. CASE DeletePod \/ DeleteBudgetExceededPod \/ ApiCallFails
  BY <1>4, AtIs, IdleIs, WorkerCleansUp DEF CoherentEverywhere, runview
<1>5. CASE \/ DeliverPodEvent \/ RequeueAfter \/ CollectSecrets \/ Tick
           \/ \E name \in PodNames : PodStep(name)
           \/ UNCHANGED vars
  BY <1>5, OthersStep DEF CoherentEverywhere, runview
<1>6. CASE DeliverRunEvent
  <2>1. /\ run' = run /\ worker' = worker
        /\ runCache' = runEvents[1] /\ 1 \in DOMAIN runEvents
        /\ \A i \in DOMAIN runEvents' : i + 1 \in DOMAIN runEvents /\ runEvents'[i] = runEvents[i + 1]
    BY <1>6 DEF DeliverRunEvent, TypeOK, cluster
  <2> QED BY <2>1 DEF CoherentEverywhere
<1>7. CASE Crash
  BY <1>7, IdleIs DEF Crash, CoherentEverywhere, cluster
<1>8. CASE UserCreatesRun \/ UserDeletesRun
  <2>1. PICK new \in RunType : SetRun(new) /\ new.status = EmptyStatus
    <3>1. CASE UserCreatesRun
      BY <3>1, UserCreatesRunType DEF UserCreatesRun
    <3>2. CASE UserDeletesRun
      BY <3>2, ConstantTypes DEF UserDeletesRun, NoRun
    <3> QED BY <1>8, <3>1, <3>2
  <2>2. Coherent(new.status)
    BY <2>1 DEF EmptyStatus
  <2>3. \A i \in DOMAIN runEvents' : Coherent(runEvents'[i].status)
    BY <2>1, <2>2 DEF SetRun, CoherentEverywhere, TypeOK
  <2>4. runCache' = runCache /\ worker' = worker
    BY <1>8 DEF UserCreatesRun, UserDeletesRun
  <2> QED BY <2>1, <2>2, <2>3, <2>4 DEF SetRun, CoherentEverywhere
<1> QED
  BY <1>1, <1>2, <1>3, <1>4, <1>5, <1>6, <1>7, <1>8 DEF Next, WorkerStep, QueueStep

(* Whatever the lag of the caches, and whatever incarnation a patch lands on, the     *)
(* conditions of a run describe its phase.                                            *)
THEOREM ConditionsCorrect == Spec => []ConditionsMatchPhase
<1>1. Init => CoherentEverywhere
  <2> SUFFICES ASSUME Init PROVE CoherentEverywhere
    OBVIOUS
  <2>1. run.status = EmptyStatus /\ runCache = run /\ runEvents = <<>> /\ worker = Idle
    BY DEF Init
  <2> QED BY <2>1, IdleIs DEF CoherentEverywhere, Coherent, EmptyStatus, MakesOnlyFirstPod
<1>2. CoherentEverywhere => ConditionsMatchPhase
  BY DEF CoherentEverywhere, Coherent, ConditionsMatchPhase
<1> QED BY <1>1, <1>2, TypeCorrect, CoherentStep, PTL DEF Spec

----------------------------------------------------------------------------
(* A cache that has caught up when a reconcile starts: RunLag = 0.          *)

(* A patch computed from the status in the server writes exactly the status wanted. *)
LEMMA MergePatchOnBase ==
    ASSUME NEW base \in StatusType, NEW next \in StatusType
    PROVE  MergePatch(base, base, next) = next
BY DEF MergePatch, StatusType

(* A patch that lands on the untouched status of a newer incarnation leaves it        *)
(* coherent, stamped exactly when terminal, and in a phase of the patch or none.      *)
LEMMA MergePatchOnEmpty ==
    ASSUME NEW base \in StatusType, NEW next \in StatusType,
           ~IsTerminal(base.phase), Coherent(base), Settled(base),
           Coherent(next), Settled(next)
    PROVE  LET m == MergePatch(EmptyStatus, base, next) IN
           /\ Coherent(m) /\ Settled(m)
           /\ m.phase \in {"unset", next.phase}
<1> DEFINE m == MergePatch(EmptyStatus, base, next)
<1>1. /\ m.phase = IF next.phase # base.phase THEN next.phase ELSE "unset"
      /\ m.conditions = IF next.conditions # base.conditions THEN next.conditions ELSE "unset"
      /\ m.completion = IF next.completion # base.completion THEN next.completion ELSE NoTime
  BY DEF MergePatch, EmptyStatus
<1>2. base.completion = NoTime
  BY DEF Settled, IsTerminal
<1> HIDE DEF m
<1>3. Coherent(m) /\ Settled(m) /\ m.phase \in {"unset", next.phase}
  BY <1>1, <1>2 DEF Coherent, Settled, IsTerminal, TerminalPhases
<1> QED BY <1>3 DEF m

(* What the patch of a reconcile does to the run, given the invariant. *)
LEMMA PatchEffect ==
    ASSUME TypeOK, FreshInv, PatchRunStatus, run # NoRun
    PROVE  /\ ~IsTerminal(run.status.phase)
           /\ run' \in LiveRunType /\ run'.uid = run.uid
           /\ Coherent(run'.status) /\ Settled(run'.status)
           /\ run'.status.phase \in {"unset", worker.next.phase}
           /\ run'.status.phase = "unset" => run.status.phase = "unset"
<1> DEFINE base == worker.base
           merged == MergePatch(run.status, base.status, worker.next)
<1>1. worker.pc = "patch" /\ "patch" \in PatchingPcs
  BY DEF PatchRunStatus, PatchingPcs
<1>2. /\ run \in LiveRunType /\ run.status \in StatusType
      /\ base.status \in StatusType /\ worker.next \in StatusType
  BY <1>1, BusyWorker DEF TypeOK, RunType, LiveRunType
<1>3. /\ ~IsTerminal(base.status.phase) /\ Coherent(base.status) /\ Settled(base.status)
      /\ Coherent(worker.next) /\ Settled(worker.next) /\ worker.next.phase # "unset"
      /\ run.uid = base.uid => run = base
      /\ run.uid # base.uid => run.status = EmptyStatus
  BY <1>1 DEF FreshInv, WorkerOwnsStatus
<1>4. ~IsTerminal(run.status.phase)
  BY <1>3 DEF EmptyStatus, IsTerminal, TerminalPhases
<1>5. /\ merged \in StatusType
      /\ Coherent(merged) /\ Settled(merged)
      /\ merged.phase \in {"unset", worker.next.phase}
      /\ merged.phase = "unset" => run.status.phase = "unset"
  <2>1. CASE run.uid = base.uid
    <3>1. merged = worker.next
      BY <2>1, <1>2, <1>3, MergePatchOnBase
    <3> HIDE DEF merged
    <3> QED BY <3>1, <1>2, <1>3
  <2>2. CASE run.uid # base.uid
    <3>1. merged \in StatusType
      BY <1>2, MergePatchType
    <3>2. Coherent(merged) /\ Settled(merged) /\ merged.phase \in {"unset", worker.next.phase}
      BY <2>2, <1>2, <1>3, MergePatchOnEmpty
    <3> HIDE DEF merged
    <3> QED BY <2>2, <3>1, <3>2, <1>3 DEF EmptyStatus
  <2> QED BY <2>1, <2>2
<1>6. run' = [run EXCEPT !.status = merged]
  BY DEF PatchRunStatus, SetRun
<1> HIDE DEF merged
<1> QED BY <1>2, <1>4, <1>5, <1>6 DEF LiveRunType

(* Initially the cache has caught up and the worker is idle. *)
LEMMA FreshInit == Init => FreshInv
<1> SUFFICES ASSUME Init PROVE FreshInv
  OBVIOUS
<1>1. /\ run.status = EmptyStatus /\ run.uid = lastUid
      /\ runCache = run /\ runEvents = <<>> /\ worker = Idle
  BY DEF Init
<1> QED BY <1>1, IdleIs
        DEF FreshInv, CacheFollows, WorkerOwnsStatus, Coherent, Settled, IsTerminal, TerminalPhases,
            EmptyStatus, MakesOnlyFirstPod, PatchingPcs

(* FreshInv is inductive when reconciles start from a cache that has caught up. *)
LEMMA FreshStep == RunLag = 0 /\ TypeOK /\ FreshInv /\ [Next]_vars => FreshInv'
<1> SUFFICES ASSUME RunLag = 0, TypeOK, FreshInv, [Next]_vars PROVE FreshInv'
  OBVIOUS
<1> DEFINE RunFine == /\ CacheFollows
                      /\ run # NoRun => run.uid = lastUid
                      /\ Coherent(run.status) /\ Settled(run.status)
<1>1. RunFine /\ MakesOnlyFirstPod /\ WorkerOwnsStatus
  BY DEF FreshInv
<1>2. UNCHANGED <<runview, lastUid>> => RunFine'
  BY <1>1 DEF CacheFollows, runview
<1>3. worker'.pc \notin PatchingPcs => MakesOnlyFirstPod' /\ WorkerOwnsStatus'
  BY DEF MakesOnlyFirstPod, WorkerOwnsStatus, PatchingPcs
<1>4. Idle.pc \notin PatchingPcs /\ \A b, n : At("delete", b, n).pc \notin PatchingPcs
  BY IdleIs, AtIs DEF PatchingPcs
<1>5. CASE Reconcile
  <2>1. UNCHANGED <<runview, lastUid>>
    BY <1>5 DEF Reconcile, FirstCall, cluster, caches, bounds, runview
  <2>2. runCache = run
    BY <1>5, <1>1 DEF Reconcile, FirstCall, CacheFollows, TypeOK
  <2>3. CASE worker'.pc \notin PatchingPcs
    BY <2>1, <2>3, <1>2, <1>3 DEF FreshInv
  <2>4. CASE worker'.pc \in PatchingPcs
    <3>1. worker' = At("get_pod", run, Canonical) /\ run # NoRun /\ ~IsTerminal(run.status.phase)
      BY <1>5, <2>2, <2>4, AtIs, IdleIs DEF Reconcile, FirstCall, PatchingPcs
    <3>2. worker'.base = run /\ worker'.pc = "get_pod"
      BY <3>1, AtIs
    <3>3. WorkerOwnsStatus' /\ MakesOnlyFirstPod'
      BY <3>1, <3>2, <2>1, <1>1 DEF WorkerOwnsStatus, MakesOnlyFirstPod, runview, TypeOK, Uids
    <3> QED BY <2>1, <3>3, <1>2 DEF FreshInv
  <2> QED BY <2>3, <2>4
<1>6. CASE GetPod \/ GetLivePod \/ EnsureDeliveryCredential \/ CreatePod \/ DeleteInvalidPod
  <2>1. /\ UNCHANGED <<runview, lastUid>> /\ worker.pc \in PatchingPcs
        /\ worker' = Idle \/ Good(worker', worker.base)
    BY <1>6, <1>1, WorkerGoesOn
  <2>2. CASE worker' = Idle
    BY <2>1, <2>2, <1>2, <1>3, <1>4 DEF FreshInv
  <2>3. CASE Good(worker', worker.base)
    <3>1. worker.base.status.completion = NoTime
      BY <2>1, <1>1 DEF WorkerOwnsStatus, Settled, IsTerminal
    <3>2. WorkerOwnsStatus' /\ MakesOnlyFirstPod'
      BY <2>1, <2>3, <3>1, <1>1 DEF Good, WorkerOwnsStatus, MakesOnlyFirstPod, runview
    <3> QED BY <2>1, <3>2, <1>2 DEF FreshInv
  <2> QED BY <2>1, <2>2, <2>3
<1>7. CASE PatchRunStatus
  <2>1. worker' = Idle \/ worker' = At("delete", worker.base, worker.pod)
    BY <1>7 DEF PatchRunStatus, Replied, Retry, GoOn, Finish
  <2>2. MakesOnlyFirstPod' /\ WorkerOwnsStatus'
    BY <2>1, <1>3, <1>4
  <2>3. lastUid' = lastUid
    BY <1>7 DEF PatchRunStatus, Replied, Fault, bounds
  <2>4. CASE run = NoRun
    <3>1. UNCHANGED runview
      BY <1>7, <2>4 DEF PatchRunStatus, runview
    <3> QED BY <2>2, <2>3, <3>1, <1>2 DEF FreshInv
  <2>5. CASE run # NoRun
    <3>1. Coherent(run'.status) /\ Settled(run'.status) /\ run'.uid = run.uid
      BY <1>7, <2>5, PatchEffect
    <3>2. CacheFollows'
      <4>1. SetRun(run') /\ runCache' = runCache
        BY <1>7, <2>5 DEF PatchRunStatus, SetRun
      <4> QED BY <4>1, <1>1 DEF SetRun, CacheFollows, TypeOK
    <3> QED BY <2>2, <2>3, <2>5, <3>1, <3>2, <1>1 DEF FreshInv
  <2> QED BY <2>4, <2>5
<1>8. CASE DeletePod \/ DeleteBudgetExceededPod \/ ApiCallFails
  BY <1>8, <1>2, <1>3, <1>4, WorkerCleansUp DEF FreshInv
<1>9. CASE \/ DeliverPodEvent \/ RequeueAfter \/ CollectSecrets \/ Tick
           \/ \E name \in PodNames : PodStep(name)
           \/ UNCHANGED vars
  <2>1. UNCHANGED <<runview, worker, lastUid>>
    BY <1>9, OthersStep
  <2>2. WorkerOwnsStatus' /\ MakesOnlyFirstPod'
    BY <2>1, <1>1 DEF WorkerOwnsStatus, MakesOnlyFirstPod, runview
  <2> QED BY <2>1, <2>2, <1>2 DEF FreshInv
<1>10. CASE DeliverRunEvent
  <2>1. /\ UNCHANGED <<run, worker, lastUid>>
        /\ runCache' = Head(runEvents) /\ runEvents' = Tail(runEvents) /\ Len(runEvents) > 0
    BY <1>10 DEF DeliverRunEvent, cluster, bounds
  <2>2. CacheFollows'
    <3> DEFINE q == runEvents
    <3>1. q \in Seq(RunType) /\ Len(q) > 0 /\ q[Len(q)] = run
      BY <2>1, <1>1 DEF TypeOK, CacheFollows
    <3> HIDE DEF q
    <3>2. /\ Len(Tail(q)) = 0 => Head(q) = run
          /\ Len(Tail(q)) > 0 => Tail(q)[Len(Tail(q))] = run
      <4>1. Len(q) \in Nat \ {0} /\ Len(Tail(q)) = Len(q) - 1 /\ Head(q) = q[1]
        BY <3>1
      <4>2. CASE Len(q) = 1
        <5>1. q[1] = run
          BY <3>1, <4>2
        <5>2. Head(q) = run /\ Len(Tail(q)) = 0
          BY <4>1, <4>2, <5>1
        <5> QED BY <5>2
      <4>3. CASE Len(q) > 1
        <5>1. Len(Tail(q)) \in 1..Len(Tail(q))
          BY <4>1, <4>3
        <5>2. Tail(q)[Len(Tail(q))] = q[Len(Tail(q)) + 1]
          BY <3>1, <5>1
        <5> QED BY <3>1, <4>1, <4>3, <5>2
      <4> QED BY <4>1, <4>2, <4>3
    <3> QED BY <2>1, <3>2 DEF CacheFollows, q
  <2>3. WorkerOwnsStatus' /\ MakesOnlyFirstPod'
    BY <2>1, <1>1 DEF WorkerOwnsStatus, MakesOnlyFirstPod
  <2> QED BY <2>1, <2>2, <2>3, <1>1 DEF FreshInv
<1>11. CASE Crash
  <2>1. run' = run /\ runCache' = run /\ runEvents' = <<>> /\ lastUid' = lastUid /\ worker' = Idle
    BY <1>11 DEF Crash, Fault, cluster
  <2> QED BY <2>1, <1>1, <1>3, <1>4 DEF FreshInv, CacheFollows
<1>12. CASE UserCreatesRun \/ UserDeletesRun
  <2>1. PICK new \in RunType :
          /\ SetRun(new) /\ new.status = EmptyStatus
          /\ \/ new = NoRun /\ lastUid' = lastUid
             \/ new.uid = lastUid + 1 /\ lastUid' = lastUid + 1
    <3>1. CASE UserCreatesRun
      BY <3>1, UserCreatesRunType DEF UserCreatesRun
    <3>2. CASE UserDeletesRun
      BY <3>2, ConstantTypes DEF UserDeletesRun, NoRun, bounds
    <3> QED BY <1>12, <3>1, <3>2
  <2>2. runCache' = runCache /\ worker' = worker /\ run' = new
    BY <1>12, <2>1 DEF UserCreatesRun, UserDeletesRun, SetRun
  <2>3. CacheFollows'
    BY <2>1, <2>2, <1>1 DEF SetRun, CacheFollows, TypeOK
  <2>4. Coherent(new.status) /\ Settled(new.status)
    BY <2>1 DEF EmptyStatus, Coherent, Settled, IsTerminal, TerminalPhases
  <2>5. worker.pc \in PatchingPcs => worker.base.uid # new.uid /\ worker.base.uid <= lastUid'
    <3>1. worker.pc \in PatchingPcs =>
            worker.base.uid \in Uids /\ worker.base.uid <= lastUid
      BY <1>1, BusyWorker DEF WorkerOwnsStatus, PatchingPcs
    <3>2. lastUid \in Nat /\ Uids \subseteq Nat \ {0}
      BY BoundsAssumption DEF TypeOK, Uids, BoundsAssumption
    <3>3. worker.pc \in PatchingPcs => worker.base.uid \in Nat \ {0}
      BY <3>1, <3>2
    <3> QED BY <2>1, <3>1, <3>2, <3>3 DEF NoRun
  <2>6. WorkerOwnsStatus' /\ MakesOnlyFirstPod'
    BY <2>1, <2>2, <2>5, <1>1 DEF WorkerOwnsStatus, MakesOnlyFirstPod
  <2> QED BY <2>1, <2>2, <2>3, <2>4, <2>6 DEF FreshInv
<1> QED
  BY <1>5, <1>6, <1>7, <1>8, <1>9, <1>10, <1>11, <1>12 DEF Next, WorkerStep, QueueStep

(* When every reconcile starts from a cache that has caught up with the run, FreshInv *)
(* holds for every number of incarnations, faults and delays of the Pod cache.        *)
THEOREM FreshCorrect == ASSUME RunLag = 0 PROVE Spec => []FreshInv
BY FreshInit, FreshStep, TypeCorrect, PTL DEF Spec

(* A run is stamped with a completion time exactly while it is terminal, in spite of  *)
(* the two being patched independently.                                               *)
THEOREM CompletionCorrect == ASSUME RunLag = 0 PROVE Spec => []CompletionMarksTheEnd
<1>1. FreshInv => CompletionMarksTheEnd
  BY DEF FreshInv, Settled, CompletionMarksTheEnd
<1> QED BY <1>1, FreshCorrect, PTL

(* Only the patch and users change the run in the server. *)
LEMMA OnlyTheseWriteRun ==
    ASSUME TypeOK, FreshInv, [Next]_vars, run' # run
    PROVE  PatchRunStatus \/ UserCreatesRun \/ UserDeletesRun
<1>1. ~Reconcile /\ ~DeliverRunEvent /\ ~Crash
  BY DEF Reconcile, FirstCall, DeliverRunEvent, Crash, cluster
<1>2. ~(GetPod \/ GetLivePod \/ EnsureDeliveryCredential \/ CreatePod \/ DeleteInvalidPod)
  BY WorkerGoesOn DEF FreshInv, runview
<1>3. ~(DeletePod \/ DeleteBudgetExceededPod \/ ApiCallFails)
  BY WorkerCleansUp DEF runview
<1>4. ~(\/ DeliverPodEvent \/ RequeueAfter \/ CollectSecrets \/ Tick
        \/ \E name \in PodNames : PodStep(name)
        \/ UNCHANGED vars)
  BY OthersStep DEF runview
<1> QED BY <1>1, <1>2, <1>3, <1>4 DEF Next, WorkerStep, QueueStep

(* A recorded outcome is never replaced by another one. *)
THEOREM TerminalCorrect == ASSUME RunLag = 0 PROVE Spec => TerminalStays
<1>1. TypeOK /\ FreshInv /\ [Next]_vars =>
        [run'.uid = run.uid /\ IsTerminal(run.status.phase) => run'.status = run.status]_run
  <2> SUFFICES ASSUME TypeOK, FreshInv, [Next]_vars, run' # run, run'.uid = run.uid,
                      IsTerminal(run.status.phase)
               PROVE  FALSE
    OBVIOUS
  <2>1. PatchRunStatus
    <3>1. ~(UserCreatesRun \/ UserDeletesRun)
      <4>1. 0 \notin Uids
        BY DEF Uids
      <4>2. UserCreatesRun => run.uid = 0 /\ run'.uid \in Uids
        BY UserCreatesRunType DEF UserCreatesRun, SetRun, NoRun
      <4>3. UserDeletesRun => run'.uid = 0 /\ run.uid \in Uids
        BY DEF UserDeletesRun, SetRun, NoRun, TypeOK, RunType, LiveRunType
      <4> QED BY <4>1, <4>2, <4>3
    <3> QED BY <3>1, OnlyTheseWriteRun
  <2>2. run # NoRun
    BY <2>1 DEF PatchRunStatus
  <2> QED BY <2>1, <2>2, PatchEffect
<1> QED BY <1>1, FreshCorrect, TypeCorrect, PTL DEF Spec, TerminalStays

(* Only CreatePod makes a Pod for an incarnation. *)
LEMMA OnlyCreateMakes ==
    ASSUME [Next]_vars, made' # made
    PROVE  CreatePod
BY DEF Next, WorkerStep, QueueStep, Reconcile, GetPod, GetLivePod, EnsureDeliveryCredential,
       PatchRunStatus, DeletePod, DeleteInvalidPod, DeleteBudgetExceededPod,
       DeliverRunEvent, DeliverPodEvent, RequeueAfter, ApiCallFails, Crash, PodStep,
       KubeletSync, PodStopped, CollectPod, UserDeletesPod, StrangerCreatesPod, PodAction,
       CollectSecrets, UserCreatesRun, UserDeletesRun, Tick, vars

(* Once a run's status names its Pod the controller makes no other Pod for it. *)
THEOREM NoSecondPod == ASSUME RunLag = 0 PROVE Spec => NoPodAfterTheRecordedOne
<1>1. TypeOK /\ FreshInv /\ [Next]_vars =>
        [run # NoRun /\ run.status.podName # "unset" => made'[run.uid] = made[run.uid]]_made
  <2> SUFFICES ASSUME TypeOK, FreshInv, [Next]_vars, made' # made,
                      run # NoRun, run.status.podName # "unset"
               PROVE  made'[run.uid] = made[run.uid]
    OBVIOUS
  <2>1. CreatePod
    BY OnlyCreateMakes
  <2>2. worker.base.uid \in Uids /\ worker.base.status.podName = "unset"
    BY <2>1, BusyWorker DEF CreatePod, FreshInv, MakesOnlyFirstPod
  <2>3. run.uid # worker.base.uid
    BY <2>1, <2>2 DEF CreatePod, FreshInv, WorkerOwnsStatus, PatchingPcs
  <2>4. made' = [made EXCEPT ![worker.base.uid] = @ + 1]
    BY <2>1 DEF CreatePod
  <2>5. run.uid \in Uids /\ made \in [Uids -> Nat]
    BY DEF TypeOK, RunType, LiveRunType
  <2> QED BY <2>2, <2>3, <2>4, <2>5
<1> QED BY <1>1, FreshCorrect, TypeCorrect, PTL DEF Spec, NoPodAfterTheRecordedOne

(* The Pod-backed controller implements the AgentRun lifecycle. *)
THEOREM ImplementsLifecycle == ASSUME RunLag = 0 PROVE Spec => FollowsLifecycle
<1> USE DEF Lifecycle!Fresh, Lifecycle!vars
<1>1. Init => Lifecycle!Init
  <2> SUFFICES ASSUME Init PROVE Lifecycle!Init
    OBVIOUS
  <2>1. run.uid = 1 /\ run.status = EmptyStatus
    BY DEF Init
  <2> QED BY <2>1 DEF Lifecycle!Init, EmptyStatus
<1>2. TypeOK /\ FreshInv /\ [Next]_vars => [Lifecycle!Next]_(Lifecycle!vars)
  <2> SUFFICES ASSUME TypeOK, FreshInv, [Next]_vars, run' # run
               PROVE  Lifecycle!Next \/ UNCHANGED Lifecycle!vars
    OBVIOUS
  <2>1. CASE PatchRunStatus
    <3>1. run # NoRun /\ run \in LiveRunType
      BY <2>1 DEF PatchRunStatus, TypeOK, RunType
    <3>2. worker.next \in StatusType
      BY <2>1, BusyWorker DEF PatchRunStatus
    <3>3. /\ run'.uid = run.uid /\ run.uid # 0
          /\ run.status.phase \notin TerminalPhases
          /\ run'.status.conditions = run'.status.phase
          /\ run.status.conditions = run.status.phase
          /\ run'.status.completion # NoTime <=> run'.status.phase \in TerminalPhases
          /\ run.status.completion = NoTime
          /\ run'.status.phase \in {"unset", worker.next.phase}
          /\ run'.status.phase = "unset" => run.status.phase = "unset"
      BY <2>1, <3>1, PatchEffect
         DEF FreshInv, Coherent, Settled, IsTerminal, LiveRunType, Uids
    <3>4. CASE run'.status.phase = "unset"
      <4>1. run'.status.completion = NoTime
        BY <3>3, <3>4 DEF TerminalPhases
      <4> QED BY <3>3, <3>4, <4>1
    <3>5. CASE run'.status.phase \in {"Pending", "Running"}
      <4>1. run'.status.completion = NoTime
        BY <3>3, <3>5 DEF TerminalPhases
      <4>2. Lifecycle!Progress
        BY <3>3, <3>5, <4>1 DEF Lifecycle!Progress
      <4> QED BY <4>2 DEF Lifecycle!Next
    <3>6. CASE run'.status.phase \in TerminalPhases
      <4>1. Lifecycle!Complete
        BY <3>3, <3>6 DEF Lifecycle!Complete
      <4> QED BY <4>1 DEF Lifecycle!Next
    <3>7. run'.status.phase \in Phases
      BY <3>2, <3>3 DEF StatusType, Phases
    <3> QED BY <3>4, <3>5, <3>6, <3>7 DEF Phases
  <2>2. CASE UserCreatesRun
    <3>1. run.uid = 0 /\ run'.uid \in Uids /\ run'.status = EmptyStatus
      BY <2>2, UserCreatesRunType DEF UserCreatesRun, SetRun, NoRun
    <3>2. Lifecycle!Create
      BY <3>1 DEF Lifecycle!Create, EmptyStatus, Uids
    <3> QED BY <3>2 DEF Lifecycle!Next
  <2>3. CASE UserDeletesRun
    <3>1. run.uid \in Uids /\ run' = NoRun
      BY <2>3 DEF UserDeletesRun, SetRun, TypeOK, RunType, LiveRunType
    <3>2. Lifecycle!Delete
      BY <3>1 DEF Lifecycle!Delete, NoRun, EmptyStatus, Uids
    <3> QED BY <3>2 DEF Lifecycle!Next
  <2>4. PatchRunStatus \/ UserCreatesRun \/ UserDeletesRun
    BY OnlyTheseWriteRun
  <2> QED BY <2>1, <2>2, <2>3, <2>4
<1> QED BY <1>1, <1>2, FreshCorrect, TypeCorrect, PTL DEF Spec, FollowsLifecycle, Lifecycle!Spec

----------------------------------------------------------------------------
(* What the first incarnation is told about itself: RunLag = 0.             *)

(* What a worker is about to do for a run is justified by the Pod it saw. *)
Honest(w, base, pod) ==
    /\ w.pc = "patch" =>
          /\ Earned(w.next, base.spec)
          /\ Progressed(w.next) => pod.owner = base.uid
    /\ w.pc = "create" => ~base.spec.warm

(* A Pod is never observed to have exceeded a budget. *)
LEMMA ObservedPhase ==
    ASSUME NEW pod \in PodType
    PROVE  ObservePod(pod).phase # "BudgetExceeded"
<1> DEFINE Fine(o) == o.phase # "BudgetExceeded"
<1>1. ASSUME NEW ph, ph # "BudgetExceeded", NEW out, NEW t
      PROVE  Fine(Observation(ph, out, t))
  BY <1>1 DEF Observation
<1>2. Fine(ObserveResultEnvelope(pod))
  BY <1>1 DEF ObserveResultEnvelope
<1>3. Fine(ObservationFromTermination(pod))
  BY <1>1, <1>2 DEF ObservationFromTermination
<1>4. PhaseOfPod(pod.phase) # "BudgetExceeded"
  BY DEF PhaseOfPod, PodType
<1>5. pod.container \in {"None", "Waiting", "Running", "Terminated"}
  BY DEF PodType
<1> HIDE DEF Fine
<1>6. Fine(ObservePod(pod))
  <2>1. CASE pod.phase = "Pending"
    BY <2>1, <1>1 DEF ObservePod
  <2>2. CASE pod.phase # "Pending" /\ pod.container = "Running"
    BY <2>2, <1>1 DEF ObservePod
  <2>3. CASE pod.phase # "Pending" /\ pod.container = "Terminated"
    BY <2>3, <1>3 DEF ObservePod
  <2>4. CASE pod.phase # "Pending" /\ pod.container = "Waiting"
    BY <2>4, <1>1 DEF ObservePod
  <2>5. CASE pod.phase # "Pending" /\ pod.container = "None"
    BY <2>5, <1>1, <1>4 DEF ObservePod
  <2> QED BY <2>1, <2>2, <2>3, <2>4, <2>5, <1>5
<1> QED BY <1>6 DEF Fine

(* A call other than a patch or a creation claims nothing. *)
LEMMA HonestAt ==
    ASSUME NEW base, NEW name, NEW pod, NEW pc, pc # "patch", pc = "create" => ~base.spec.warm
    PROVE  Honest(At(pc, base, name), base, pod)
BY AtIs DEF Honest

(* Nor does a patch of a run that failed or has only been requested. *)
LEMMA HonestTransition ==
    ASSUME clock \in 0..MaxTime, NEW base, NEW name, NEW pod, NEW s \in StatusType,
           NEW ph \in {"Failed", "Pending"}, NEW m \in Messages
    PROVE  Honest(PatchWith(base, name, TransitionRun(s, ph, m)), base, pod)
<1> DEFINE next == TransitionRun(s, ph, m)
<1>1. next.phase = ph
  BY TransitionRunGood DEF Phases, TerminalPhases
<1> HIDE DEF next
<1>2. PatchWith(base, name, next).next = next /\ PatchWith(base, name, next).pc = "patch"
  BY DEF PatchWith, At, Idle
<1> QED BY <1>1, <1>2 DEF next, Honest, Earned, Progressed

(* What a reconcile decides on is justified by the Pod it saw: BudgetExceeded by more *)
(* time than the budget since the start, progress by a Pod of its own; and a warm     *)
(* run's Pod is not made before its credential.                                       *)
LEMMA DecideHonest ==
    ASSUME clock \in 0..MaxTime, NEW base \in LiveRunType, base.status.completion = NoTime,
           NEW pod \in PodType, NEW name \in PodNames
    PROVE  /\ ~base.spec.warm => Honest(BuildPod(base, name), base, pod)
           /\ Honest(FailInvalidWallclock(base, name, TRUE), base, pod)
           /\ Honest(Decide(base, pod, name), base, pod)
<1> DEFINE s == base.status
<1>1. s \in StatusType /\ base.uid \in Uids /\ base.spec \in RunSpecType
  BY DEF LiveRunType
<1>2. \A m \in {"lost", "collision", "invalid", "exceeded"} : m \in Messages
  BY DEF Messages
<1>3. "Failed" \in {"Failed", "Pending"}
  OBVIOUS
<1>4. Honest(FailPodNameCollision(base, name), base, pod)
  <2>1. [s EXCEPT !.podName = name, !.output = NoOutput, !.start = NoTime] \in StatusType
    BY <1>1 DEF StatusType, Times
  <2> QED BY <2>1, <1>2, <1>3, HonestTransition DEF FailPodNameCollision
<1>5. ASSUME NEW b \in BOOLEAN PROVE Honest(FailInvalidWallclock(base, name, b), base, pod)
  <2>1. [s EXCEPT !.podName = IF b THEN name ELSE @] \in StatusType
    BY <1>1, <1>5 DEF StatusType
  <2> QED BY <2>1, <1>2, <1>3, HonestTransition DEF FailInvalidWallclock
<1>6. ~base.spec.warm => Honest(BuildPod(base, name), base, pod)
  <2>1. Honest(PatchWith(base, name, TransitionRun(s, "Failed", "invalid")), base, pod)
    BY <1>1, <1>2, <1>3, HonestTransition
  <2>2. ~base.spec.warm => Honest(At("create", base, name), base, pod)
    BY HonestAt
  <2> QED BY <2>1, <2>2 DEF BuildPod
<1>7. Honest(ReconcileMissingPod(base, name), base, pod)
  <2>1. [s EXCEPT !.podName = name] \in StatusType
    BY <1>1 DEF StatusType
  <2>2. Honest(PatchWith(base, name,
                 TransitionRun([s EXCEPT !.podName = name], "Failed", "lost")), base, pod)
    BY <2>1, <1>2, <1>3, HonestTransition
  <2>3. Honest(At("credential", base, name), base, pod)
    BY HonestAt
  <2> QED BY <2>2, <2>3, <1>6 DEF ReconcileMissingPod
<1>8. ASSUME IsControlledBy(pod, base), base.spec.wallclock # BadLimit, WallclockExceeded(base, pod)
      PROVE  Honest(EnforceWallclock(base, pod, name), base, pod)
  <2>1. WallclockStart(base, pod) \in Times
    <3>1. ObservePod(pod).started \in Times
      BY <1>1, <1>8, ObservePodType DEF IsControlledBy
    <3> QED BY <3>1, <1>1 DEF WallclockStart, StatusType
  <2> DEFINE from == WallclockStart(base, pod)
             stamped == [s EXCEPT !.podName = name, !.start = from]
             next == TransitionRun(stamped, "BudgetExceeded", "exceeded")
             plan == PatchWith(base, name, next)
  <2>2. /\ from # NoTime /\ clock - from > base.spec.wallclock
        /\ base.spec.wallclock # NoLimit
    BY <1>8 DEF WallclockExceeded, WallclockRuns
  <2> HIDE DEF from
  <2>3. base.spec.wallclock > 0
    BY <2>2, <1>1, <1>8 DEF RunSpecType
  <2>4. next.phase = "BudgetExceeded" /\ next.start = from /\ next.completion = clock
    <3>1. stamped \in StatusType /\ stamped.start = from /\ stamped.completion = NoTime
      BY <1>1, <2>1 DEF StatusType, from
    <3> HIDE DEF stamped
    <3> QED BY <3>1 DEF TransitionRun, StatusType, IsTerminal, TerminalPhases
  <2>5. Earned(next, base.spec) /\ ~Progressed(next)
    BY <2>2, <2>3, <2>4 DEF Earned, Progressed
  <2> HIDE DEF next
  <2>6. [plan EXCEPT !.thenDelete = TRUE].next = next /\ [plan EXCEPT !.thenDelete = TRUE].pc = "patch"
    BY DEF PatchWith, At, Idle
  <2>7. Honest([plan EXCEPT !.thenDelete = TRUE], base, pod)
    BY <2>5, <2>6 DEF Honest
  <2> QED BY <2>7 DEF EnforceWallclock, next, stamped, from
<1>9. ASSUME IsControlledBy(pod, base)
      PROVE  Honest(SyncPodObservation(base, pod, name), base, pod)
  <2> DEFINE w == SyncPodObservation(base, pod, name)
  <2>1. w.pc = "patch" /\ w.next.phase = ObservePod(pod).phase
    BY <1>1 DEF SyncPodObservation, PatchWith, At, Idle, StatusType
  <2>2. w.next.phase # "BudgetExceeded"
    BY <2>1, ObservedPhase
  <2> HIDE DEF w
  <2>3. Honest(w, base, pod)
    BY <2>1, <2>2, <1>9 DEF Honest, Earned, IsControlledBy
  <2> QED BY <2>3 DEF w
<1>10. Honest(Decide(base, pod, name), base, pod)
  <2>1. Honest(At("delete_invalid", base, name), base, pod)
    BY HonestAt
  <2> QED BY <1>4, <1>5, <1>7, <1>8, <1>9, <2>1 DEF Decide
<1> QED BY <1>5, <1>6, <1>10

(* What is counted only grows. *)
LEMMA CountsGrow ==
    ASSUME TypeOK, [Next]_vars
    PROVE  lastUid' >= lastUid /\ \A u \in Uids : made'[u] >= made[u]
<1>1. lastUid \in Nat /\ made \in [Uids -> Nat]
  BY DEF TypeOK, Uids
<1>2. lastUid' \in {lastUid, lastUid + 1}
  BY DEF Next, WorkerStep, QueueStep, Reconcile, GetPod, GetLivePod, EnsureDeliveryCredential,
         CreatePod, PatchRunStatus, DeletePod, DeleteInvalidPod, DeleteBudgetExceededPod,
         DeliverRunEvent, DeliverPodEvent, RequeueAfter, ApiCallFails, Crash, PodStep,
         KubeletSync, PodStopped, CollectPod, UserDeletesPod, StrangerCreatesPod, PodAction,
         CollectSecrets, UserCreatesRun, UserDeletesRun, Tick, vars, Replied, Fault, bounds
<1>3. CASE made' = made
  BY <1>1, <1>2, <1>3
<1>4. CASE made' # made
  <2>1. made' = [made EXCEPT ![worker.base.uid] = @ + 1]
    BY <1>4, OnlyCreateMakes DEF CreatePod
  <2> QED BY <1>1, <1>2, <2>1
<1> QED BY <1>3, <1>4

(* Pods that were accounted for stay so. *)
LEMMA AccountedGrows ==
    ASSUME TypeOK, [Next]_vars, TypeOK',
           NEW shown \in [PodNames -> PodType], Accounted(shown, made, lastUid)
    PROVE  Accounted(shown, made', lastUid')
<1>1. lastUid' >= lastUid /\ \A u \in Uids : made'[u] >= made[u]
  BY CountsGrow
<1>2. /\ \A u \in Uids : made[u] \in Nat /\ made'[u] \in Nat
      /\ lastUid \in Nat /\ lastUid' \in Nat /\ Uids \subseteq Nat
  BY DEF TypeOK, Uids
<1> SUFFICES ASSUME NEW n \in PodNames, shown[n].owner \in Uids
             PROVE  made'[shown[n].owner] > 0 /\ shown[n].owner <= lastUid'
  BY DEF Accounted
<1> DEFINE u == shown[n].owner
<1>3. u \in Uids /\ made[u] > 0 /\ u <= lastUid
  BY DEF Accounted
<1> HIDE DEF u
<1>4. made'[u] > 0 /\ u <= lastUid'
  BY <1>1, <1>2, <1>3
<1> QED BY <1>4 DEF u

(* The Pods in the server, after a write of one that is accounted for. *)
LEMMA SetPodAccounted ==
    ASSUME TypeOK, [Next]_vars, TypeOK', PodsAccounted, podCache' = podCache,
           NEW name \in PodNames, NEW new \in PodType, SetPod(name, new),
           new.owner \in Uids => made'[new.owner] > 0 /\ new.owner <= lastUid'
    PROVE  PodsAccounted'
<1>1. /\ pods \in [PodNames -> PodType] /\ podCache \in [PodNames -> PodType]
      /\ podEvents \in Seq([PodNames -> PodType])
  BY DEF TypeOK
<1>2. Accounted(pods, made', lastUid') /\ Accounted(podCache, made', lastUid')
  BY <1>1, AccountedGrows DEF PodsAccounted
<1>3. \A i \in DOMAIN podEvents : Accounted(podEvents[i], made', lastUid')
  <2> DEFINE PodMaps == [PodNames -> PodType]
  <2>1. \A i \in DOMAIN podEvents : podEvents[i] \in PodMaps
    <3>1. podEvents \in Seq(PodMaps)
      BY <1>1
    <3> HIDE DEF PodMaps
    <3> QED BY <3>1
  <2> QED BY <2>1, AccountedGrows DEF PodsAccounted
<1>4. Accounted(pods', made', lastUid')
  BY <1>1, <1>2 DEF SetPod, Accounted
<1> DEFINE Fine(shown) == Accounted(shown, made', lastUid')
<1>5. \A i \in DOMAIN podEvents' : Fine(podEvents'[i])
  <2> DEFINE PodMaps == [PodNames -> PodType]
  <2>1. podEvents \in Seq(PodMaps) /\ (podEvents' = podEvents \/ podEvents' = Append(podEvents, pods'))
    BY <1>1 DEF SetPod
  <2>2. Fine(pods') /\ \A i \in DOMAIN podEvents : Fine(podEvents[i])
    BY <1>3, <1>4
  <2> HIDE DEF PodMaps, Fine
  <2> QED BY <2>1, <2>2
<1> QED BY <1>2, <1>4, <1>5 DEF PodsAccounted

(* Every Pod of an incarnation is accounted for, wherever it is seen. *)
LEMMA PodsAccountedStep ==
    TypeOK /\ FreshInv /\ PodsAccounted /\ [Next]_vars /\ TypeOK' => PodsAccounted'
<1> SUFFICES ASSUME TypeOK, FreshInv, PodsAccounted, [Next]_vars, TypeOK' PROVE PodsAccounted'
  OBVIOUS
<1> DEFINE Fine(shown) == Accounted(shown, made', lastUid')
           PodMaps == [PodNames -> PodType]
<1>1. /\ pods \in PodMaps /\ podCache \in PodMaps /\ podEvents \in Seq(PodMaps)
  BY DEF TypeOK
<1>2. \A i \in DOMAIN podEvents : podEvents[i] \in PodMaps
  <2> HIDE DEF PodMaps
  <2> QED BY <1>1
<1>3. Fine(pods) /\ Fine(podCache) /\ \A i \in DOMAIN podEvents : Fine(podEvents[i])
  BY <1>1, <1>2, AccountedGrows DEF PodsAccounted
<1>4. CASE UNCHANGED <<pods, podCache, podEvents>>
  BY <1>3, <1>4 DEF PodsAccounted
<1>5. CASE CreatePod /\ ~UNCHANGED <<pods, podCache, podEvents>>
  <2> DEFINE u == worker.base.uid
  <2>1. u \in Uids /\ worker.pod \in PodNames /\ u <= lastUid
    BY <1>5, BusyWorker DEF CreatePod, FreshInv, WorkerOwnsStatus, PatchingPcs
  <2>2. /\ SetPod(worker.pod, NewPod(u)) /\ made' = [made EXCEPT ![u] = @ + 1]
        /\ podCache' = podCache
    BY <1>5 DEF CreatePod
  <2>3. NewPod(u) \in PodType /\ NewPod(u).owner = u
    BY <2>1, ConstantTypes DEF NewPod
  <2>4. made'[u] > 0 /\ u <= lastUid'
    <3>1. made'[u] = made[u] + 1 /\ made[u] \in Nat
      BY <2>1, <2>2 DEF TypeOK
    <3>2. lastUid \in Uids /\ lastUid' \in Uids
      BY DEF TypeOK
    <3>3. lastUid' >= lastUid
      BY CountsGrow
    <3>4. Uids \subseteq Nat
      BY DEF Uids
    <3> HIDE DEF u
    <3> QED BY <2>1, <3>1, <3>2, <3>3, <3>4
  <2> HIDE DEF u
  <2> QED BY <2>1, <2>2, <2>3, <2>4, SetPodAccounted
<1>6. CASE DeletePod \/ DeleteInvalidPod
  <2>1. worker.pod \in PodNames /\ pods[worker.pod] \in PodType
    BY <1>6, BusyWorker DEF DeletePod, DeleteInvalidPod
  <2> DEFINE new == Terminating(pods[worker.pod])
  <2>2. new \in PodType /\ new.owner = pods[worker.pod].owner
    BY <2>1, TerminatingType
  <2>3. SetPod(worker.pod, new) /\ podCache' = podCache
    BY <1>6 DEF DeletePod, DeleteInvalidPod
  <2> HIDE DEF new
  <2>4. new.owner \in Uids => made'[new.owner] > 0 /\ new.owner <= lastUid'
    BY <1>3, <2>1, <2>2 DEF Accounted
  <2> QED BY <2>1, <2>2, <2>3, <2>4, SetPodAccounted
<1>7. ASSUME NEW name \in PodNames, PodStep(name) PROVE PodsAccounted'
  <2>1. PICK new \in PodType :
          /\ PodAction(name, new)
          /\ new.owner = pods[name].owner \/ new.owner \notin Uids
    BY <1>7, PodStepIs
  <2>2. SetPod(name, new) /\ podCache' = podCache
    BY <2>1 DEF PodAction
  <2>3. new.owner \in Uids => made'[new.owner] > 0 /\ new.owner <= lastUid'
    BY <1>3, <2>1 DEF Accounted
  <2> QED BY <2>1, <2>2, <2>3, SetPodAccounted
<1>8. CASE DeliverPodEvent
  <2>1. /\ pods' = pods /\ podEvents # <<>>
        /\ podCache' = Head(podEvents) /\ podEvents' = Tail(podEvents)
    BY <1>8 DEF DeliverPodEvent, cluster
  <2>2. Fine(podCache') /\ \A i \in DOMAIN podEvents' : Fine(podEvents'[i])
    <3> HIDE DEF PodMaps, Fine
    <3>1. /\ podCache' = podEvents[1] /\ 1 \in DOMAIN podEvents
          /\ \A i \in DOMAIN podEvents' : i + 1 \in DOMAIN podEvents /\ podEvents'[i] = podEvents[i + 1]
      BY <1>1, <2>1
    <3> QED BY <3>1, <1>3
  <2> QED BY <2>1, <2>2, <1>3 DEF PodsAccounted
<1>9. CASE Crash
  BY <1>9, <1>3 DEF Crash, cluster, PodsAccounted
<1> QED
  BY <1>4, <1>5, <1>6, <1>7, <1>8, <1>9
     DEF Next, WorkerStep, QueueStep, Reconcile, GetPod, GetLivePod, EnsureDeliveryCredential,
         PatchRunStatus, DeleteBudgetExceededPod, DeliverRunEvent, RequeueAfter, ApiCallFails,
         CollectSecrets, UserCreatesRun, UserDeletesRun, Tick, vars, cluster, caches

(* A worker that goes on is honest about a Pod it saw, in the cache or in the server; *)
(* the Pod of a warm run is made only after its credential.                           *)
LEMMA WorkerHonest ==
    ASSUME TypeOK, FreshInv,
           GetPod \/ GetLivePod \/ EnsureDeliveryCredential \/ CreatePod \/ DeleteInvalidPod,
           worker' # Idle
    PROVE  /\ worker'.base = worker.base
           /\ \E n \in PodNames, shown \in {pods, podCache} :
                \/ Honest(worker', worker.base, shown[n])
                \/ EnsureDeliveryCredential /\ worker'.pc = "create"
<1> DEFINE base == worker.base
<1>1. /\ base \in LiveRunType /\ base.status \in StatusType
      /\ worker.pod \in PodNames /\ pods[worker.pod] \in PodType
      /\ clock \in 0..MaxTime
  BY BusyWorker DEF GetPod, GetLivePod, EnsureDeliveryCredential, CreatePod, DeleteInvalidPod, TypeOK
<1>2. worker.pc \in PatchingPcs /\ worker'.base = base
  BY WorkerGoesOn DEF FreshInv, Good
<1>3. base.status.completion = NoTime
  BY <1>2 DEF FreshInv, WorkerOwnsStatus, Settled, IsTerminal
<1>4. CASE GetPod
  <2>1. \A n \in PodNames : podCache[n] \in PodType
    BY DEF TypeOK
  <2>2. PICK name \in PodNames :
          \/ GoOn(At("live_pod", base, name))
          \/ GoOn(Decide(base, podCache[name], name))
    BY <1>4, <1>1 DEF GetPod, StatusType, PodNames
  <2>3. Honest(At("live_pod", base, name), base, podCache[name])
    BY HonestAt
  <2>4. Honest(Decide(base, podCache[name], name), base, podCache[name])
    BY <1>1, <1>3, <2>1, DecideHonest
  <2>5. Honest(worker', base, podCache[name])
    BY <2>2, <2>3, <2>4 DEF GoOn
  <2> QED BY <2>5, <1>2
<1>5. CASE GetLivePod
  <2>1. Honest(Decide(base, pods[worker.pod], worker.pod), base, pods[worker.pod])
    BY <1>1, <1>3, DecideHonest
  <2>2. Honest(worker', base, pods[worker.pod])
    BY <1>5, <2>1 DEF GetLivePod, GoOn
  <2> QED BY <1>1, <1>2, <2>2
<1>6. CASE EnsureDeliveryCredential
  <2>1. worker' = BuildPod(base, worker.pod)
    BY <1>6 DEF EnsureDeliveryCredential, Replied, Retry, GoOn
  <2>2. CASE base.spec.buildable
    <3>1. worker'.pc = "create"
      BY <2>1, <2>2, AtIs DEF BuildPod
    <3> QED BY <1>1, <1>2, <1>6, <3>1
  <2>3. CASE ~base.spec.buildable
    <3>1. worker' = PatchWith(base, worker.pod, TransitionRun(base.status, "Failed", "invalid"))
      BY <2>1, <2>3 DEF BuildPod
    <3>2. Honest(worker', base, pods[worker.pod])
      BY <3>1, <1>1, HonestTransition DEF Messages
    <3> QED BY <1>1, <1>2, <3>2
  <2> QED BY <2>2, <2>3
<1>7. CASE CreatePod
  <2> DEFINE s == [base.status EXCEPT !.podName = worker.pod]
  <2>1. s \in StatusType
    BY <1>1 DEF StatusType
  <2>2. worker' = PatchWith(base, worker.pod, TransitionRun(s, "Pending", "requested"))
    BY <1>7 DEF CreatePod, Replied, Retry, GoOn
  <2> HIDE DEF s
  <2>3. Honest(worker', base, pods[worker.pod])
    BY <2>1, <2>2, <1>1, HonestTransition DEF Messages
  <2> QED BY <1>1, <1>2, <2>3
<1>8. CASE DeleteInvalidPod
  <2>1. worker' = FailInvalidWallclock(base, worker.pod, TRUE)
    BY <1>8 DEF DeleteInvalidPod, Replied, Retry, GoOn
  <2>2. Honest(worker', base, pods[worker.pod])
    BY <2>1, <1>1, <1>3, DecideHonest
  <2> QED BY <1>1, <1>2, <2>2
<1> QED BY <1>4, <1>5, <1>6, <1>7, <1>8

(* Only those steps lead a worker to a patch or a creation. *)
LEMMA OthersLeaveWorker ==
    ASSUME TypeOK, [Next]_vars, worker' # worker, worker'.pc \in {"patch", "create"}
    PROVE  /\ GetPod \/ GetLivePod \/ EnsureDeliveryCredential \/ CreatePod \/ DeleteInvalidPod
           /\ worker' # Idle
<1>1. worker' # Idle /\ \A b, n : worker' # At("delete", b, n)
  BY IdleIs, AtIs
<1>2. ~Reconcile
  BY AtIs, IdleIs DEF Reconcile, FirstCall
<1>3. ~PatchRunStatus
  BY <1>1 DEF PatchRunStatus, Replied, Retry, GoOn, Finish
<1>4. ~(DeletePod \/ DeleteBudgetExceededPod \/ ApiCallFails)
  BY <1>1, WorkerCleansUp
<1>5. ~(\/ DeliverPodEvent \/ RequeueAfter \/ CollectSecrets \/ Tick
        \/ \E name \in PodNames : PodStep(name)
        \/ UNCHANGED vars)
  BY OthersStep
<1>6. ~DeliverRunEvent /\ ~Crash /\ ~UserCreatesRun /\ ~UserDeletesRun
  BY <1>1 DEF DeliverRunEvent, Crash, UserCreatesRun, UserDeletesRun
<1> QED BY <1>1, <1>2, <1>3, <1>4, <1>5, <1>6 DEF Next, WorkerStep, QueueStep

(* A patch stays true until it is written. *)
LEMMA PatchIsTrueStep ==
    TypeOK /\ FreshInv /\ PodsAccounted /\ PatchIsTrue /\ [Next]_vars /\ TypeOK' => PatchIsTrue'
<1> SUFFICES ASSUME TypeOK, FreshInv, PodsAccounted, PatchIsTrue, [Next]_vars, TypeOK',
                    worker'.pc = "patch"
             PROVE  /\ Earned(worker'.next, worker'.base.spec)
                    /\ Progressed(worker'.next) => made'[worker'.base.uid] > 0
  BY DEF PatchIsTrue, Earned, Progressed
<1>1. worker'.base.uid \in Uids
  <2>1. worker' \in BusyType
    BY DEF TypeOK, WorkerType, Idle
  <2> QED BY <2>1 DEF BusyType, LiveRunType
<1>2. ASSUME NEW u \in Uids, made[u] > 0 PROVE made'[u] > 0
  <2>1. made'[u] >= made[u] /\ made[u] \in Nat /\ made'[u] \in Nat
    BY CountsGrow DEF TypeOK
  <2> QED BY <1>2, <2>1
<1>3. CASE worker' = worker
  BY <1>1, <1>2, <1>3 DEF PatchIsTrue
<1>4. CASE worker' # worker
  <2>1. worker'.base = worker.base
        /\ \E n \in PodNames, shown \in {pods, podCache} : Honest(worker', worker.base, shown[n])
    BY <1>4, OthersLeaveWorker, WorkerHonest
  <2>2. PICK n \in PodNames, shown \in {pods, podCache} : Honest(worker', worker.base, shown[n])
    BY <2>1
  <2>3. shown[n].owner \in Uids => made[shown[n].owner] > 0
    BY DEF PodsAccounted, Accounted
  <2> QED BY <1>1, <1>2, <2>1, <2>2, <2>3 DEF Honest
<1> QED BY <1>3, <1>4

(* The first incarnation is told only what is true of it. *)
LEMMA FirstIsTrueStep ==
    TypeOK /\ FreshInv /\ PatchIsTrue /\ FirstIsTrue /\ [Next]_vars /\ TypeOK' => FirstIsTrue'
<1> SUFFICES ASSUME TypeOK, FreshInv, PatchIsTrue, FirstIsTrue, [Next]_vars, TypeOK', run'.uid = 1
             PROVE  /\ Earned(run'.status, run'.spec)
                    /\ Progressed(run'.status) => made'[1] > 0
  BY DEF FirstIsTrue, Earned, Progressed
<1>1. 1 \in Uids
  BY BoundsAssumption DEF BoundsAssumption, Uids
<1>2. made[1] > 0 => made'[1] > 0
  <2>1. made'[1] >= made[1] /\ made[1] \in Nat /\ made'[1] \in Nat
    BY <1>1, CountsGrow DEF TypeOK
  <2> QED BY <2>1
<1>3. CASE run' = run
  BY <1>2, <1>3 DEF FirstIsTrue
<1>4. CASE PatchRunStatus /\ run # NoRun
  <2> DEFINE base == worker.base
  <2>1. run.uid = 1 /\ run \in LiveRunType
    BY <1>4, PatchEffect DEF TypeOK, RunType
  <2>2. base.uid \in Uids /\ base \in LiveRunType /\ base.status \in StatusType
        /\ worker.next \in StatusType
    BY <1>4, BusyWorker DEF PatchRunStatus
  <2>3. base.uid = 1
    <3>1. base.uid <= lastUid /\ lastUid = 1
      BY <1>4, <2>1 DEF PatchRunStatus, FreshInv, WorkerOwnsStatus, PatchingPcs
    <3> QED BY <2>2, <3>1 DEF Uids
  <2>4. run = base
    BY <1>4, <2>1, <2>3 DEF PatchRunStatus, FreshInv, WorkerOwnsStatus, PatchingPcs
  <2>5. run' = [base EXCEPT !.status = worker.next]
    <3>1. run' = [run EXCEPT !.status = MergePatch(run.status, base.status, worker.next)]
      BY <1>4 DEF PatchRunStatus, SetRun
    <3> QED BY <3>1, <2>2, <2>4, MergePatchOnBase
  <2>6. run'.status = worker.next /\ run'.spec = base.spec
    BY <2>2, <2>5 DEF LiveRunType
  <2> QED BY <1>2, <1>4, <2>3, <2>6 DEF PatchRunStatus, PatchIsTrue
<1>5. CASE UserCreatesRun \/ UserDeletesRun
  <2>1. run'.status = EmptyStatus
    BY <1>5, UserCreatesRunType DEF UserDeletesRun, SetRun, NoRun
  <2> QED BY <2>1 DEF EmptyStatus, Earned, Progressed
<1>6. CASE PatchRunStatus /\ run = NoRun
  BY <1>3, <1>6 DEF PatchRunStatus
<1> QED BY <1>3, <1>4, <1>5, <1>6, OnlyTheseWriteRun

(* Steps that leave a run, its credential and the owner of its Pod alone. *)
LEMMA CredentialAside ==
    ASSUME TypeOK, TypeOK', HasCredential, run'.uid = run.uid, run'.spec = run.spec,
           run.uid \in secrets => run.uid \in secrets',
           \/ worker' = worker \/ worker'.pc # "create" \/ ~worker'.base.spec.warm,
           \/ pods'[Canonical].owner = pods[Canonical].owner
           \/ pods'[Canonical].owner \notin Uids
    PROVE  HasCredential'
<1>1. /\ run' # NoRun => run'.uid \in Uids
      /\ run'.uid \in Uids => run # NoRun
  BY DEF TypeOK, RunType, LiveRunType, NoRun, Uids
<1> QED BY <1>1 DEF HasCredential, OwnPod, IsControlledBy

(* The credential of a warm run comes before its Pod, and stays as long as the run. *)
LEMMA HasCredentialStep ==
    TypeOK /\ FreshInv /\ PodsAccounted /\ HasCredential /\ [Next]_vars /\ TypeOK' => HasCredential'
<1> SUFFICES ASSUME TypeOK, FreshInv, PodsAccounted, HasCredential, [Next]_vars, TypeOK'
             PROVE  HasCredential'
  OBVIOUS
<1> DEFINE SameRun == run'.uid = run.uid /\ run'.spec = run.spec
           SamePod == \/ pods'[Canonical].owner = pods[Canonical].owner
                      \/ pods'[Canonical].owner \notin Uids
           SameWorker == worker' = worker \/ worker'.pc # "create" \/ ~worker'.base.spec.warm
<1>1. Idle.pc # "create" /\ \A b, n : At("delete", b, n).pc # "create"
  BY IdleIs, AtIs
<1>2. pods \in [PodNames -> PodType] /\ Canonical \in PodNames
  BY DEF TypeOK, PodNames
<1>3. CASE EnsureDeliveryCredential
  <2>1. /\ run' = run /\ pods' = pods /\ secrets' = secrets \cup {worker.base.uid}
        /\ worker'.base = worker.base \/ worker' = Idle
    BY <1>3, WorkerHonest DEF EnsureDeliveryCredential
  <2> QED BY <1>1, <2>1 DEF HasCredential, OwnPod
<1>4. CASE CreatePod
  <2> DEFINE base == worker.base
  <2>1. /\ base.uid \in Uids /\ worker.pod \in PodNames
        /\ run.uid = base.uid => run = base
    BY <1>4, BusyWorker DEF CreatePod, FreshInv, WorkerOwnsStatus, PatchingPcs
  <2>2. run' = run /\ secrets' = secrets /\ worker.pc = "create"
    BY <1>4 DEF CreatePod
  <2>3. worker'.pc # "create"
    <3>1. worker' = Idle \/ \E next : worker' = PatchWith(base, worker.pod, next)
      BY <1>4 DEF CreatePod, Replied, Retry, GoOn
    <3>2. \A next : PatchWith(base, worker.pod, next).pc = "patch"
      BY DEF PatchWith, At, Idle
    <3> QED BY <3>1, <3>2, <1>1
  <2>4. SamePod \/ pods'[Canonical].owner = base.uid
    <3>1. pods' = pods \/ pods' = [pods EXCEPT ![worker.pod] = NewPod(base.uid)]
      BY <1>4 DEF CreatePod, SetPod
    <3>2. NewPod(base.uid).owner = base.uid
      BY DEF NewPod
    <3> QED BY <1>2, <2>1, <3>1, <3>2
  <2>5. CASE SamePod
    BY <2>2, <2>3, <2>5, CredentialAside
  <2>6. CASE pods'[Canonical].owner = base.uid
    BY <2>1, <2>2, <2>3, <2>6 DEF HasCredential, OwnPod, IsControlledBy
  <2> QED BY <2>4, <2>5, <2>6
<1>5. CASE GetPod \/ GetLivePod
  <2>1. run' = run /\ pods' = pods /\ secrets' = secrets
    BY <1>5 DEF GetPod, GetLivePod, cluster
  <2>2. SameWorker
    <3>1. ~EnsureDeliveryCredential
      BY <1>5 DEF GetPod, GetLivePod, EnsureDeliveryCredential
    <3> QED BY <1>1, <1>5, <3>1, WorkerHonest DEF Honest
  <2> QED BY <2>1, <2>2, CredentialAside
<1>6. CASE DeletePod \/ DeleteInvalidPod
  <2>1. worker.pod \in PodNames /\ pods[worker.pod] \in PodType
    BY <1>6, BusyWorker DEF DeletePod, DeleteInvalidPod
  <2>2. run' = run /\ secrets' = secrets
    BY <1>6 DEF DeletePod, DeleteInvalidPod
  <2>3. SamePod
    <3>1. pods' = [pods EXCEPT ![worker.pod] = Terminating(pods[worker.pod])]
      BY <1>6 DEF DeletePod, DeleteInvalidPod, SetPod
    <3> QED BY <1>2, <2>1, <3>1, TerminatingType
  <2>4. worker'.pc # "create"
    <3>1. \/ worker' = Idle \/ worker' = At("delete", worker.base, worker.pod)
          \/ worker' = FailInvalidWallclock(worker.base, worker.pod, TRUE)
      BY <1>6, WorkerCleansUp DEF DeleteInvalidPod, Replied, Retry, GoOn
    <3>2. FailInvalidWallclock(worker.base, worker.pod, TRUE).pc = "patch"
      BY DEF FailInvalidWallclock, PatchWith, At, Idle
    <3> QED BY <3>1, <3>2, <1>1
  <2> QED BY <2>2, <2>3, <2>4, CredentialAside
<1>7. ASSUME NEW name \in PodNames, PodStep(name) PROVE HasCredential'
  <2>1. PICK new \in PodType :
          /\ PodAction(name, new)
          /\ new.owner = pods[name].owner \/ new.owner \notin Uids
    BY <1>7, PodStepIs
  <2>2. /\ run' = run /\ secrets' = secrets /\ worker' = worker
        /\ pods' = [pods EXCEPT ![name] = new]
    BY <2>1 DEF PodAction, SetPod
  <2>3. SamePod
    BY <1>2, <2>1, <2>2
  <2> QED BY <2>2, <2>3, CredentialAside
<1>8. CASE PatchRunStatus
  <2>1. pods' = pods /\ secrets' = secrets /\ worker'.pc # "create"
    BY <1>8, <1>1 DEF PatchRunStatus, Replied, Retry, GoOn, Finish
  <2>2. SameRun
    <3>1. CASE run = NoRun
      BY <1>8, <3>1 DEF PatchRunStatus
    <3>2. CASE run # NoRun
      <4>1. run \in LiveRunType
        BY <3>2 DEF TypeOK, RunType
      <4>2. PICK s : run' = [run EXCEPT !.status = s]
        BY <1>8, <3>2 DEF PatchRunStatus, SetRun
      <4> QED BY <4>1, <4>2 DEF LiveRunType
    <3> QED BY <3>1, <3>2
  <2> QED BY <2>1, <2>2, CredentialAside
<1>9. CASE CollectSecrets
  BY <1>9, CredentialAside DEF CollectSecrets
<1>10. CASE UserDeletesRun
  <2>1. run' = NoRun /\ pods' = pods /\ worker' = worker
    BY <1>10 DEF UserDeletesRun, SetRun
  <2>2. worker.pc = "create" => worker.base.uid # 0
    BY BusyWorker DEF Uids
  <2> QED BY <2>1, <2>2 DEF HasCredential, OwnPod, NoRun
<1>11. CASE UserCreatesRun
  <2>1. /\ run'.uid = lastUid + 1 /\ lastUid + 1 \in Uids /\ pods' = pods /\ worker' = worker
    BY <1>11, UserCreatesRunType DEF UserCreatesRun, SetRun
  <2>2. lastUid \in Nat
    BY DEF TypeOK, Uids
  <2>3. pods[Canonical].owner # lastUid + 1
    <3>1. pods[Canonical].owner \in Uids => pods[Canonical].owner <= lastUid
      BY <1>2 DEF PodsAccounted, Accounted
    <3> QED BY <2>1, <2>2, <3>1
  <2>4. worker.pc = "create" => worker.base.uid # lastUid + 1
    <3>1. worker.pc = "create" => worker.base.uid <= lastUid
      BY DEF FreshInv, WorkerOwnsStatus, PatchingPcs
    <3> QED BY <2>2, <3>1
  <2> QED BY <2>1, <2>3, <2>4 DEF HasCredential, OwnPod, IsControlledBy
<1>12. CASE \/ Reconcile \/ DeleteBudgetExceededPod \/ DeliverRunEvent \/ DeliverPodEvent
            \/ RequeueAfter \/ ApiCallFails \/ Crash \/ Tick \/ UNCHANGED vars
  <2>1. run' = run /\ pods' = pods /\ secrets' = secrets
    BY <1>12 DEF Reconcile, DeleteBudgetExceededPod, DeliverRunEvent, DeliverPodEvent,
                 RequeueAfter, ApiCallFails, Crash, Tick, cluster, vars
  <2>2. SameWorker
    <3>1. Reconcile => worker'.pc # "create"
      BY AtIs, IdleIs DEF Reconcile, FirstCall
    <3> QED BY <1>12, <1>1, <3>1, WorkerCleansUp, OthersStep DEF DeliverRunEvent, Crash
  <2> QED BY <2>1, <2>2, CredentialAside
<1> QED
  BY <1>3, <1>4, <1>5, <1>6, <1>7, <1>8, <1>9, <1>10, <1>11, <1>12
     DEF Next, WorkerStep, QueueStep

(* Initially no incarnation but the first has a Pod, and that one counts. *)
LEMMA OwnInit == Init => OwnInv
<1> SUFFICES ASSUME Init PROVE OwnInv
  OBVIOUS
<1>1. PICK owner \in {Nobody, Stranger, 1} :
        pods = [n \in PodNames |-> IF n = Legacy THEN NewPod(owner) ELSE NoPod]
  BY DEF Init
<1>2. /\ \A n \in PodNames : pods[n].owner \in {Nobody, Stranger, 1}
      /\ pods[Canonical].owner = Nobody
  BY <1>1 DEF NoPod, NewPod, PodNames
<1>3. Accounted(pods, made, lastUid)
  <2> SUFFICES ASSUME NEW n \in PodNames, pods[n].owner \in Uids
               PROVE  made[pods[n].owner] > 0 /\ pods[n].owner <= lastUid
    BY DEF Accounted
  <2>1. pods[n].owner = 1
    BY <1>2 DEF Uids
  <2>2. 1 \in Uids /\ made[1] = 1 /\ lastUid = 1
    BY <2>1 DEF Init
  <2> QED BY <2>1, <2>2
<1>4. PodsAccounted
  BY <1>3 DEF Init, PodsAccounted
<1>5. run.uid = 1 /\ run.status = EmptyStatus /\ worker.pc = "idle"
  BY IdleIs DEF Init
<1>6. HasCredential
  BY <1>2, <1>5 DEF HasCredential, OwnPod, IsControlledBy
<1>7. PatchIsTrue /\ FirstIsTrue
  BY <1>5 DEF PatchIsTrue, FirstIsTrue, EmptyStatus, Earned, Progressed
<1> QED BY <1>4, <1>6, <1>7 DEF OwnInv

(* What is recorded about the Pods, the credentials and the first incarnation stays   *)
(* true, whatever else happens under the run's name.                                  *)
THEOREM OwnCorrect == ASSUME RunLag = 0 PROVE Spec => []OwnInv
<1>1. TypeOK /\ FreshInv /\ OwnInv /\ [Next]_vars /\ TypeOK' => OwnInv'
  BY PodsAccountedStep, HasCredentialStep, PatchIsTrueStep, FirstIsTrueStep DEF OwnInv
<1> QED BY <1>1, OwnInit, TypeCorrect, FreshCorrect, PTL DEF Spec

(* The first incarnation of a name is BudgetExceeded only when more time than its     *)
(* budget lies between its recorded start and its completion.  (A later one may be    *)
(* told what was true of its predecessor: the patch has no UID precondition.)         *)
THEOREM BudgetCorrect ==
    ASSUME RunLag = 0 PROVE Spec => [](run.uid = 1 => BudgetExceededIsEarned)
<1>1. OwnInv => (run.uid = 1 => BudgetExceededIsEarned)
  BY DEF OwnInv, FirstIsTrue, Earned, BudgetExceededIsEarned
<1> QED BY <1>1, OwnCorrect, PTL

(* An incarnation's Pod never exists without its delivery credential if it is to be   *)
(* warm; and the first one runs or has succeeded only with a Pod of its own.          *)
THEOREM ProgressCorrect ==
    ASSUME RunLag = 0
    PROVE  Spec => []/\ run.uid = 1 => ProgressNeedsOwnPod
                     /\ OwnPod(Canonical) /\ run.spec.warm => run.uid \in secrets
<1>1. OwnInv => /\ run.uid = 1 => ProgressNeedsOwnPod
                /\ OwnPod(Canonical) /\ run.spec.warm => run.uid \in secrets
  BY DEF OwnInv, FirstIsTrue, HasCredential, Progressed, ProgressNeedsOwnPod
<1> QED BY <1>1, OwnCorrect, PTL

=============================================================================
