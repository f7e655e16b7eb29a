---------------------------- MODULE AgentRunPod ----------------------------
(***************************************************************************)
(* The Pod-backed half of the AgentRun controller: one AgentRun name, the  *)
(* Pods that carry it out, the API server that stores both, the informer   *)
(* caches the controller reads, and its single worker for that name.       *)
(*                                                                         *)
(* Reconcile is a sequence of API calls, each of which is an action here;  *)
(* between any two of them the kubelet, the garbage collector, users and   *)
(* crashes may act.  Status is written by a JSON merge patch computed      *)
(* against the object the reconcile started from, without a resource       *)
(* version or UID precondition: only the fields that differ from that      *)
(* object are sent, and they land on whatever object has the name by then. *)
(***************************************************************************)
EXTENDS Integers, Sequences

CONSTANTS
    MaxUid,        \* how many incarnations of the run's name may be created
    RunSpecs,      \* the immutable specs a run may be created with
    Terminations,  \* how a runtime container may end
    InitFails,     \* may the reporter's init container fail?
    LongName,      \* is the run's name long enough to have a legacy Pod name?
    RunLag,        \* run events the cache may miss when a reconcile starts
    PodLag,        \* Pod events under way to the cache beyond which the cluster waits
    MaxTime,       \* last instant of the clock, in seconds
    MaxFaults,     \* crashes, failed API calls and lost replies
    MaxMeddling    \* Pods deleted or created by hand

Uids == 1..MaxUid
NoTime == -1
NoOutput == 0
Times == {NoTime} \cup 0..MaxTime

(* A wallclock budget: absent, or a number of seconds of which parsing      *)
(* rejects those that are not positive (0 stands for every rejected text).  *)
NoLimit == -1
BadLimit == 0

RunSpecType == [wallclock : {NoLimit} \cup Nat, buildable : BOOLEAN, warm : BOOLEAN]
TerminationType ==
    [exit : {0, 1}, payload : {"succeeded", "failed", "malformed"}, output : BOOLEAN]

ASSUME BoundsAssumption ==
    /\ MaxUid \in Nat \ {0}
    /\ RunLag \in Nat /\ PodLag \in Nat \ {0}
    /\ MaxTime \in Nat /\ MaxFaults \in Nat /\ MaxMeddling \in Nat
ASSUME InputsAssumption ==
    /\ RunSpecs \subseteq RunSpecType
    /\ Terminations \subseteq TerminationType
    /\ InitFails \in BOOLEAN /\ LongName \in BOOLEAN

----------------------------------------------------------------------------
(* Runs.                                                                   *)

Canonical == "canonical"
Legacy == "legacy"
PodNames == {Canonical, Legacy}

TerminalPhases == {"Succeeded", "Failed", "BudgetExceeded"}
Phases == {"unset", "Pending", "Running"} \cup TerminalPhases
IsTerminal(phase) == phase \in TerminalPhases

Messages == {"unset", "requested", "lost", "collision", "invalid", "exceeded", "observed"}

StatusType ==
    [phase : Phases, podName : PodNames \cup {"unset"}, start : Times, completion : Times,
     output : {NoOutput} \cup Uids, message : Messages, conditions : Phases]

EmptyStatus ==
    [phase |-> "unset", podName |-> "unset", start |-> NoTime, completion |-> NoTime,
     output |-> NoOutput, message |-> "unset", conditions |-> "unset"]

NoSpec == [wallclock |-> NoLimit, buildable |-> FALSE, warm |-> FALSE]
NoRun == [uid |-> 0, spec |-> NoSpec, status |-> EmptyStatus]

LiveRunType == [uid : Uids, spec : RunSpecType, status : StatusType]
RunType == {NoRun} \cup LiveRunType

----------------------------------------------------------------------------
(* Pods.  owner is the UID in the Pod's controller reference; a Pod made by *)
(* somebody else has the owner Stranger.                                    *)

Stranger == 0
Nobody == -1
NoTermination == [exit |-> 0, payload |-> "succeeded", output |-> FALSE]

PodType ==
    [owner : {Nobody, Stranger} \cup Uids,
     phase : {"Pending", "Running", "Succeeded", "Failed", "Unknown"},
     container : {"None", "Waiting", "Running", "Terminated"},
     started : Times, term : TerminationType, deleting : BOOLEAN]

NewPod(owner) ==
    [owner |-> owner, phase |-> "Pending", container |-> "None",
     started |-> NoTime, term |-> NoTermination, deleting |-> FALSE]
NoPod == NewPod(Nobody)

Exists(pod) == pod.owner # Nobody
Mut_AnyPodWillDo(pod, aRun) == Exists(pod)

IsControlledBy(pod, aRun) == pod.owner = aRun.uid

Observation(phase, output, started) ==
    [phase |-> phase, output |-> output, started |-> started]

(* The output carried by a Pod is named by the incarnation that produced it. *)
OutputOf(pod) ==
    IF pod.term.output /\ pod.term.payload # "malformed" THEN pod.owner ELSE NoOutput

ObserveResultEnvelope(pod) ==
    Observation(IF pod.term.payload = "failed" THEN "Failed" ELSE "Succeeded",
                OutputOf(pod), NoTime)

ObservationFromTermination(pod) ==
    IF pod.term.exit = 0 /\ pod.term.payload # "malformed"
    THEN ObserveResultEnvelope(pod)
    ELSE Observation("Failed", OutputOf(pod), NoTime)

Mut_PhaseOfPodRaw(podPhase) == podPhase

PhaseOfPod(podPhase) == IF podPhase = "Unknown" THEN "Pending" ELSE podPhase

ObservePod(pod) ==
    IF pod.phase = "Pending" THEN Observation("Pending", NoOutput, NoTime)
    ELSE CASE pod.container = "Running" -> Observation("Running", NoOutput, pod.started)
           [] pod.container = "Terminated" -> ObservationFromTermination(pod)
           [] pod.container = "Waiting" -> Observation("Pending", NoOutput, NoTime)
           [] pod.container = "None" -> Observation(PhaseOfPod(pod.phase), NoOutput, NoTime)

----------------------------------------------------------------------------
VARIABLES
    run,        \* the AgentRun in the API server (NoRun when there is none)
    runCache,   \* the AgentRun the informer cache holds
    runEvents,  \* later versions of it, on their way to the cache
    pods,       \* the Pods in the API server, by name
    podCache,   \* the Pods the informer cache holds
    podEvents,  \* later versions of them, on their way to the cache
    secrets,    \* the incarnations whose delivery credential Secret exists
    worker,     \* the reconcile in progress
    dirty,      \* is the run's key in the work queue?
    timer,      \* when a delayed requeue adds the key (NoTime: none waiting)
    clock,
    faults,     \* faults so far
    meddling,   \* Pods deleted or created by hand so far
    lastUid,    \* incarnations created so far
    made        \* history: how many Pods the controller made for each incarnation

cluster == <<run, pods, secrets>>
caches == <<runCache, runEvents, podCache, podEvents>>
queue == <<dirty, timer>>
bounds == <<faults, meddling, lastUid>>
vars == <<run, runCache, runEvents, pods, podCache, podEvents, secrets, worker,
          dirty, timer, clock, faults, meddling, lastUid, made>>

Idle == [pc |-> "idle", base |-> NoRun, next |-> EmptyStatus, pod |-> Canonical,
         thenDelete |-> FALSE, requeueAt |-> NoTime]

ReconcilePcs == {"get_pod", "live_pod", "credential", "create", "delete_invalid",
                 "patch", "delete", "budget_pod"}
BusyType ==
    [pc : ReconcilePcs, base : LiveRunType, next : StatusType, pod : PodNames,
     thenDelete : BOOLEAN, requeueAt : {NoTime} \cup Nat]
WorkerType == {Idle} \cup BusyType

(* The worker's next call, for the run it read, on the Pod called name.     *)
At(pc, base, name) == [Idle EXCEPT !.pc = pc, !.base = base, !.pod = name]

----------------------------------------------------------------------------
(* What a reconcile decides once it knows the run and its Pod.              *)

(* The fields of next that differ from base are the patch.                  *)
MergePatch(live, base, next) ==
    [f \in DOMAIN live |-> IF next[f] # base[f] THEN next[f] ELSE live[f]]

Mut_TransitionRunBare(status, phase, message) ==
    [status EXCEPT !.phase = phase, !.message = message]

TransitionRun(status, phase, message) ==
    [status EXCEPT
        !.phase = phase,
        !.message = message,
        !.completion = IF ~IsTerminal(phase) THEN NoTime
                       ELSE IF @ = NoTime THEN clock ELSE @,
        !.conditions = phase]

PatchWith(base, name, next) == [At("patch", base, name) EXCEPT !.next = next]

FailPodNameCollision(base, name) ==
    PatchWith(base, name,
        TransitionRun([base.status EXCEPT !.podName = name, !.output = NoOutput,
                                          !.start = NoTime],
                      "Failed", "collision"))

(* When the Pod existed its name is recorded, whether or not Delete found it. *)
FailInvalidWallclock(base, name, podExists) ==
    PatchWith(base, name,
        TransitionRun([base.status EXCEPT !.podName = IF podExists THEN name ELSE @],
                      "Failed", "invalid"))

BuildPod(base, name) ==
    IF base.spec.buildable THEN At("create", base, name)
    ELSE PatchWith(base, name, TransitionRun(base.status, "Failed", "invalid"))

Mut_MissingPodRemade(base, name) ==
    IF base.spec.warm THEN At("credential", base, name) ELSE BuildPod(base, name)

ReconcileMissingPod(base, name) ==
    IF base.status.podName # "unset"
    THEN PatchWith(base, name,
             TransitionRun([base.status EXCEPT !.podName = name], "Failed", "lost"))
    ELSE IF base.spec.warm THEN At("credential", base, name)
    ELSE BuildPod(base, name)

WallclockStart(base, pod) ==
    IF ObservePod(pod).started # NoTime THEN ObservePod(pod).started ELSE base.status.start

(* Is a wallclock budget running for this Pod?                              *)
WallclockRuns(base, pod) ==
    /\ base.spec.wallclock # NoLimit
    /\ pod.phase = "Running"
    /\ WallclockStart(base, pod) # NoTime

Mut_WallclockReached(base, pod) ==
    WallclockRuns(base, pod) /\ clock - WallclockStart(base, pod) >= base.spec.wallclock

WallclockExceeded(base, pod) ==
    WallclockRuns(base, pod) /\ clock - WallclockStart(base, pod) > base.spec.wallclock

EnforceWallclock(base, pod, name) ==
    [PatchWith(base, name,
        TransitionRun([base.status EXCEPT !.podName = name,
                                          !.start = WallclockStart(base, pod)],
                      "BudgetExceeded", "exceeded"))
     EXCEPT !.thenDelete = TRUE]

SyncPodObservation(base, pod, name) ==
    LET seen == ObservePod(pod)
        status ==
            [base.status EXCEPT
                !.phase = seen.phase,
                !.podName = name,
                !.message = "observed",
                !.output = IF seen.output # NoOutput THEN seen.output ELSE @,
                !.start = IF @ # NoTime \/ seen.phase # "Running" THEN @
                          ELSE IF seen.started # NoTime THEN seen.started ELSE clock,
                !.completion = IF IsTerminal(seen.phase) /\ @ = NoTime THEN clock ELSE @,
                !.conditions = seen.phase]
    IN [PatchWith(base, name, status) EXCEPT
           !.requeueAt = IF WallclockRuns(base, pod)
                         THEN WallclockStart(base, pod) + base.spec.wallclock + 1
                         ELSE NoTime]

Decide(base, pod, name) ==
    IF Exists(pod) /\ ~IsControlledBy(pod, base) THEN FailPodNameCollision(base, name)
    ELSE IF base.spec.wallclock = BadLimit
         THEN IF Exists(pod) THEN At("delete_invalid", base, name)
              ELSE FailInvalidWallclock(base, name, FALSE)
    ELSE IF ~Exists(pod) THEN ReconcileMissingPod(base, name)
    ELSE IF WallclockExceeded(base, pod) THEN EnforceWallclock(base, pod, name)
    ELSE SyncPodObservation(base, pod, name)

----------------------------------------------------------------------------
(* Writes to the API server, and the watch streams that follow them.        *)

SetRun(new) ==
    /\ run' = new
    /\ runEvents' = IF new = run THEN runEvents ELSE Append(runEvents, new)

SetPod(name, new) ==
    /\ pods' = [pods EXCEPT ![name] = new]
    /\ podEvents' = IF new = pods[name] THEN podEvents ELSE Append(podEvents, pods')

(* Others change a Pod only while the watch stream keeps up.                *)
WatchKeepsUp == Len(podEvents) < PodLag

Mut_FinishNoDelay(requeueAt) == worker' = Idle /\ dirty' = dirty /\ timer' = timer

(* The reconcile ends without an error, perhaps with a delayed requeue; the *)
(* queue keeps the earliest of the delays asked for.                        *)
Finish(requeueAt) ==
    /\ worker' = Idle
    /\ dirty' = dirty
    /\ timer' = IF requeueAt = NoTime \/ (timer # NoTime /\ timer <= requeueAt)
                THEN timer ELSE requeueAt

(* The reconcile returns an error: the key goes back to the queue.          *)
Retry ==
    /\ worker' = Idle
    /\ dirty' = TRUE
    /\ timer' = timer

GoOn(next) == worker' = next /\ UNCHANGED queue

Fault ==
    /\ faults < MaxFaults
    /\ faults' = faults + 1
    /\ UNCHANGED <<meddling, lastUid>>

(* A call that took effect goes on, unless its reply is lost.               *)
Replied(continue) ==
    \/ continue /\ UNCHANGED bounds
    \/ Retry /\ Fault

----------------------------------------------------------------------------
(* The worker.                                                              *)

Mut_FirstCallIgnoresEnd(r) == IF r = NoRun THEN Idle ELSE At("get_pod", r, Canonical)

Mut_FirstCallForgetsPod(r) ==
    IF r = NoRun \/ IsTerminal(r.status.phase) THEN Idle ELSE At("get_pod", r, Canonical)

(* The call a reconcile of the run starts with. *)
FirstCall(r) ==
    IF r = NoRun THEN Idle
    ELSE IF ~IsTerminal(r.status.phase) THEN At("get_pod", r, Canonical)
    ELSE IF r.status.phase = "BudgetExceeded"
         THEN At("budget_pod", r,
                 IF r.status.podName = "unset" THEN Canonical ELSE r.status.podName)
    ELSE Idle

(* The reconcile starts by reading the run from the cache.                  *)
Reconcile ==
    /\ worker = Idle
    /\ dirty
    /\ Len(runEvents) <= RunLag
    /\ dirty' = FALSE
    /\ worker' = FirstCall(runCache)
    /\ UNCHANGED <<cluster, caches, timer, clock, bounds, made>>

GetPod ==
    /\ worker.pc = "get_pod"
    /\ LET base == worker.base
           recorded == base.status.podName
           named == IF recorded = "unset" THEN Canonical ELSE recorded
           adopts == /\ recorded = "unset" /\ LongName
                     /\ ~Exists(podCache[named])
                     /\ IsControlledBy(podCache[Legacy], base)
           name == IF adopts THEN Legacy ELSE named
       IN GoOn(IF recorded # "unset" /\ ~Exists(podCache[name])
               THEN At("live_pod", base, name)
               ELSE Decide(base, podCache[name], name))
    /\ UNCHANGED <<cluster, caches, clock, bounds, made>>

(* A Pod missing from the cache is looked up in the API server.             *)
GetLivePod ==
    /\ worker.pc = "live_pod"
    /\ GoOn(Decide(worker.base, pods[worker.pod], worker.pod))
    /\ UNCHANGED <<cluster, caches, clock, bounds, made>>

(* Get, Create and, if another came first, Get again, in one step: the      *)
(* Secret is named after the run's uid, and this worker alone makes it.     *)
(* Every error is returned and retried: ApiCallFails, or a lost reply.  (A  *)
(* stranger's Secret of that name, an error at each retry, is left out.)    *)
EnsureDeliveryCredential ==
    /\ worker.pc = "credential"
    /\ secrets' = secrets \cup {worker.base.uid}
    /\ Replied(GoOn(BuildPod(worker.base, worker.pod)))
    /\ UNCHANGED <<run, pods, caches, clock, made>>

(* An existing Pod of that name, whoever made it, is not an error.          *)
CreatePod ==
    /\ worker.pc = "create"
    /\ LET base == worker.base IN
       /\ IF Exists(pods[worker.pod])
          THEN UNCHANGED <<pods, podEvents, made>>
          ELSE /\ SetPod(worker.pod, NewPod(base.uid))
               /\ made' = [made EXCEPT ![base.uid] = @ + 1]
       /\ Replied(GoOn(PatchWith(base, worker.pod,
             TransitionRun([base.status EXCEPT !.podName = worker.pod],
                           "Pending", "requested"))))
    /\ UNCHANGED <<run, secrets, runCache, runEvents, podCache, clock>>

PatchRunStatus ==
    /\ worker.pc = "patch"
    /\ IF run = NoRun
       THEN Retry /\ UNCHANGED <<run, runEvents, bounds>>
       ELSE /\ SetRun([run EXCEPT !.status =
                          MergePatch(run.status, worker.base.status, worker.next)])
            /\ Replied(IF worker.thenDelete
                       THEN GoOn(At("delete", worker.base, worker.pod))
                       ELSE Finish(worker.requeueAt))
    /\ UNCHANGED <<pods, secrets, runCache, podCache, podEvents, clock, made>>

(* Deletion is graceful: the Pod stays until the kubelet has stopped it.    *)
Terminating(pod) == IF Exists(pod) THEN [pod EXCEPT !.deleting = TRUE] ELSE pod

DeletePod ==
    /\ worker.pc = "delete"
    /\ SetPod(worker.pod, Terminating(pods[worker.pod]))
    /\ Replied(Finish(NoTime))
    /\ UNCHANGED <<run, secrets, runCache, runEvents, podCache, clock, made>>

DeleteInvalidPod ==
    /\ worker.pc = "delete_invalid"
    /\ SetPod(worker.pod, Terminating(pods[worker.pod]))
    /\ Replied(GoOn(FailInvalidWallclock(worker.base, worker.pod, TRUE)))
    /\ UNCHANGED <<run, secrets, runCache, runEvents, podCache, clock, made>>

(* A BudgetExceeded run comes back: its Pod must still be deleted.          *)
DeleteBudgetExceededPod ==
    /\ worker.pc = "budget_pod"
    /\ LET pod == pods[worker.pod] IN
       IF Exists(pod) /\ IsControlledBy(pod, worker.base)
       THEN GoOn(At("delete", worker.base, worker.pod))
       ELSE Finish(NoTime)
    /\ UNCHANGED <<cluster, caches, clock, bounds, made>>

----------------------------------------------------------------------------
(* Events, timers and faults of the controller.                             *)

DeliverRunEvent ==
    /\ Len(runEvents) > 0
    /\ runCache' = Head(runEvents)
    /\ runEvents' = Tail(runEvents)
    /\ dirty' = TRUE
    /\ UNCHANGED <<cluster, podCache, podEvents, worker, timer, clock, bounds, made>>

Mut_PodEventUnheard ==
    /\ podEvents # <<>>
    /\ podCache' = Head(podEvents)
    /\ podEvents' = Tail(podEvents)
    /\ UNCHANGED <<cluster, runCache, runEvents, worker, queue, clock, bounds, made>>

(* Owns(&Pod) maps a Pod to its owner by name, so every incarnation's Pod   *)
(* wakes the run up; a stranger's Pod wakes nobody.                         *)
DeliverPodEvent ==
    /\ podEvents # <<>>
    /\ podCache' = Head(podEvents)
    /\ podEvents' = Tail(podEvents)
    /\ dirty' = (dirty \/ \E n \in PodNames :
                     /\ podCache'[n] # podCache[n]
                     /\ {podCache'[n].owner, podCache[n].owner} \cap Uids # {})
    /\ UNCHANGED <<cluster, runCache, runEvents, worker, timer, clock, bounds, made>>

RequeueAfter ==
    /\ timer # NoTime
    /\ timer <= clock
    /\ dirty' = TRUE
    /\ timer' = NoTime
    /\ UNCHANGED <<cluster, caches, worker, clock, bounds, made>>

(* A call of the reconcile fails without any effect.                        *)
ApiCallFails ==
    /\ worker # Idle
    /\ Retry
    /\ Fault
    /\ UNCHANGED <<cluster, caches, clock, made>>

(* The controller restarts: its caches are listed afresh, every run is      *)
(* enqueued and delayed requeues are forgotten.                             *)
Crash ==
    /\ Fault
    /\ worker' = Idle
    /\ runCache' = run /\ runEvents' = <<>>
    /\ podCache' = pods /\ podEvents' = <<>>
    /\ dirty' = TRUE
    /\ timer' = NoTime
    /\ UNCHANGED <<cluster, clock, made>>

----------------------------------------------------------------------------
(* The cluster around the controller (external).                            *)

PodAction(name, new) ==
    /\ SetPod(name, new)
    /\ UNCHANGED <<run, secrets, runCache, runEvents, podCache, worker, queue, clock,
                   faults, lastUid, made>>

(* What the kubelet may report next of a Pod with RestartPolicy Never: its   *)
(* container starts, or runs before it is reported; it ends, in the Pod's    *)
(* phase at once or later; the Pod fails before or without its container; its *)
(* init container fails; its node is lost and found.                         *)
KubeletSync(name) ==
    LET pod == pods[name]
        Report(new) == PodAction(name, new)
        Started == [pod EXCEPT !.phase = "Running", !.container = "Running", !.started = clock]
    IN
    /\ WatchKeepsUp
    /\ pod.owner \in Uids
    /\ UNCHANGED meddling
    /\ \/ /\ pod.phase = "Pending"
          /\ \/ Report(Started)
             \/ Report([pod EXCEPT !.phase = "Running"])
             \/ Report([pod EXCEPT !.phase = "Failed"])
             \/ InitFails /\ Report([pod EXCEPT !.phase = "Failed", !.container = "Waiting"])
       \/ /\ pod.phase = "Running" /\ pod.container = "None"
          /\ \/ Report(Started)
             \/ \E ph \in {"Succeeded", "Failed"} : Report([pod EXCEPT !.phase = ph])
       \/ /\ pod.phase = "Running" /\ pod.container = "Running"
          /\ \E ph \in {"Running", "Succeeded", "Failed"}, t \in Terminations :
               Report([pod EXCEPT !.phase = ph, !.container = "Terminated", !.term = t])
       \/ /\ pod.phase = "Running" /\ pod.container \in {"None", "Running"}
          /\ Report([pod EXCEPT !.phase = "Unknown"])
       \/ /\ pod.phase = "Running" /\ pod.container = "Terminated"
          /\ Report([pod EXCEPT !.phase = IF pod.term.exit = 0 THEN "Succeeded" ELSE "Failed"])
       \/ /\ pod.phase = "Unknown"
          /\ Report([pod EXCEPT !.phase = "Running"])

PodStopped(name) ==
    /\ Exists(pods[name]) /\ pods[name].deleting
    /\ PodAction(name, NoPod)
    /\ UNCHANGED meddling

(* The garbage collector deletes what a deleted incarnation owned.          *)
CollectPod(name) ==
    /\ pods[name].owner \in Uids \ {run.uid}
    /\ ~pods[name].deleting
    /\ PodAction(name, Terminating(pods[name]))
    /\ UNCHANGED meddling

CollectSecrets ==
    /\ secrets \ {run.uid} # {}
    /\ secrets' = secrets \cap {run.uid}
    /\ UNCHANGED <<run, pods, caches, worker, queue, clock, bounds, made>>

Meddle == WatchKeepsUp /\ meddling < MaxMeddling /\ meddling' = meddling + 1

UserDeletesPod(name) ==
    /\ Meddle
    /\ Exists(pods[name]) /\ ~pods[name].deleting
    /\ PodAction(name, Terminating(pods[name]))

(* What becomes of a stranger's Pod is not followed: it is there, at work.  *)
StrangerCreatesPod(name) ==
    /\ Meddle
    /\ ~Exists(pods[name])
    /\ PodAction(name, [NewPod(Stranger) EXCEPT !.phase = "Running"])

UserCreatesRun ==
    /\ run = NoRun
    /\ lastUid < MaxUid
    /\ lastUid' = lastUid + 1
    /\ \E spec \in RunSpecs :
         SetRun([uid |-> lastUid + 1, spec |-> spec, status |-> EmptyStatus])
    /\ UNCHANGED <<pods, secrets, runCache, podCache, podEvents, worker, queue, clock,
                   faults, meddling, made>>

UserDeletesRun ==
    /\ run # NoRun
    /\ lastUid < MaxUid
    /\ SetRun(NoRun)
    /\ UNCHANGED <<pods, secrets, runCache, podCache, podEvents, worker, queue, clock,
                   bounds, made>>

Tick ==
    /\ clock < MaxTime
    /\ clock' = clock + 1
    /\ UNCHANGED <<cluster, caches, worker, queue, bounds, made>>

----------------------------------------------------------------------------
(* A run exists, possibly with the Pod an older controller made for it, and *)
(* the caches have synced.                                                  *)
Init ==
    /\ lastUid = 1
    /\ \E spec \in RunSpecs : run = [uid |-> 1, spec |-> spec, status |-> EmptyStatus]
    /\ \E owner \in IF LongName THEN {Nobody, Stranger, 1} ELSE {Nobody} :
         pods = [n \in PodNames |-> IF n = Legacy THEN NewPod(owner) ELSE NoPod]
    /\ runCache = run /\ runEvents = <<>>
    /\ podCache = pods /\ podEvents = <<>>
    /\ secrets = {}
    /\ worker = Idle /\ dirty = TRUE /\ timer = NoTime
    /\ clock = 0 /\ faults = 0 /\ meddling = 0
    /\ made = [u \in Uids |-> IF \E n \in PodNames : pods[n].owner = u THEN 1 ELSE 0]

WorkerStep ==
    \/ Reconcile \/ GetPod \/ GetLivePod \/ EnsureDeliveryCredential \/ CreatePod
    \/ PatchRunStatus \/ DeletePod \/ DeleteInvalidPod \/ DeleteBudgetExceededPod

QueueStep == DeliverRunEvent \/ DeliverPodEvent \/ RequeueAfter

PodStep(name) ==
    \/ KubeletSync(name) \/ PodStopped(name) \/ CollectPod(name)
    \/ UserDeletesPod(name) \/ StrangerCreatesPod(name)

Next ==
    \/ WorkerStep \/ QueueStep
    \/ ApiCallFails \/ Crash
    \/ \E name \in PodNames : PodStep(name)
    \/ CollectSecrets \/ UserCreatesRun \/ UserDeletesRun \/ Tick

Spec == Init /\ [][Next]_vars

(* Workers, watch streams, the clock and the kubelet keep going; users need *)
(* not do anything, and faults need not happen.                             *)
Fairness ==
    /\ WF_vars(WorkerStep)
    /\ WF_vars(DeliverRunEvent) /\ WF_vars(DeliverPodEvent) /\ WF_vars(RequeueAfter)
    /\ WF_vars(Tick)
    /\ \A name \in PodNames : WF_vars(PodStopped(name))

FairSpec == Spec /\ Fairness

----------------------------------------------------------------------------
(* Properties.                                                              *)

(* Every variable has its type. *)
TypeOK ==
    /\ run \in RunType /\ runCache \in RunType /\ runEvents \in Seq(RunType)
    /\ pods \in [PodNames -> PodType] /\ podCache \in [PodNames -> PodType]
    /\ podEvents \in Seq([PodNames -> PodType])
    /\ secrets \subseteq Uids
    /\ worker \in WorkerType
    /\ dirty \in BOOLEAN /\ timer \in {NoTime} \cup Nat /\ clock \in 0..MaxTime
    /\ faults \in 0..MaxFaults /\ meddling \in 0..MaxMeddling /\ lastUid \in Uids
    /\ made \in [Uids -> Nat]

OwnPod(name) == run # NoRun /\ IsControlledBy(pods[name], run)

(* The Complete and Progressing conditions, which are patched as one list, always   *)
(* describe the phase they sit next to, however stale the run was that the patch    *)
(* was computed from, and even when it lands on another incarnation.                *)
ConditionsMatchPhase == run.status.conditions = run.status.phase

(* A terminal run keeps its whole status: no later reconcile, from whatever Pod it  *)
(* sees or misses, turns a recorded outcome into another one.                       *)
TerminalStays ==
    [][run'.uid = run.uid /\ IsTerminal(run.status.phase)
          => run'.status = run.status]_run

(* A run is stamped with a completion time exactly while it is terminal, although   *)
(* the two fields are patched independently.                                        *)
CompletionMarksTheEnd ==
    IsTerminal(run.status.phase) <=> run.status.completion # NoTime

(* Once a run's status names its Pod, the controller makes no other Pod for it: a   *)
(* Pod that disappears is reported as lost and its work is not done again.          *)
NoPodAfterTheRecordedOne ==
    [][run # NoRun /\ run.status.podName # "unset" => made'[run.uid] = made[run.uid]]_made

(* An incarnation that runs or succeeded has had a Pod of its own: neither a        *)
(* stranger's Pod of the same name nor a stale read is taken for its execution.     *)
(* Its Pod never exists without the Secret that holds its delivery credential, if   *)
(* it is to be warm.                                                                *)
ProgressNeedsOwnPod ==
    /\ run # NoRun /\ run.status.phase \in {"Running", "Succeeded"} => made[run.uid] > 0
    /\ OwnPod(Canonical) /\ run.spec.warm => run.uid \in secrets

(* A run is BudgetExceeded only when more time than its budget lies between its     *)
(* recorded start and its completion.                                               *)
BudgetExceededIsEarned ==
    run.status.phase = "BudgetExceeded" =>
        /\ run.spec.wallclock > 0
        /\ run.status.start # NoTime
        /\ run.status.completion - run.status.start > run.spec.wallclock

PodEnded(name) == OwnPod(name) /\ pods[name].phase \in {"Succeeded", "Failed"}

(* No run stays open beside a Pod of its own that has ended. *)
PodEndEndsRun ==
    []<>(IsTerminal(run.status.phase) \/ \A n \in PodNames : ~PodEnded(n))

OverBudget(n) ==
    /\ OwnPod(n) /\ run.spec.wallclock > 0
    /\ pods[n].phase = "Running" /\ pods[n].container = "Running"
    /\ pods[n].started + run.spec.wallclock < MaxTime

(* A Pod that runs on past its wallclock budget does not escape: the run becomes    *)
(* terminal, although nothing but a delayed requeue looks at the clock.             *)
BudgetIsEnforced ==
    []<>(IsTerminal(run.status.phase) \/ \A n \in PodNames : ~OverBudget(n))

(* The Pod of a BudgetExceeded run is deleted in the end, also when the controller  *)
(* fails between recording the outcome and deleting the Pod.                        *)
ExceededPodIsDeleted ==
    []<>(run.status.phase # "BudgetExceeded" \/ \A n \in PodNames : ~OwnPod(n))

----------------------------------------------------------------------------
(* Inductive invariants.                                                    *)

Coherent(status) == status.conditions = status.phase
Settled(status) == IsTerminal(status.phase) <=> status.completion # NoTime

(* A Pod is made only for a run that was read without one. *)
MakesOnlyFirstPod ==
    worker.pc \in {"credential", "create"} => worker.base.status.podName = "unset"

(* Every copy of the run's status in the system is coherent: in the server, in the  *)
(* cache, in the events between them, and in the worker.                            *)
CoherentEverywhere ==
    /\ MakesOnlyFirstPod
    /\ Coherent(run.status) /\ Coherent(runCache.status)
    /\ \A i \in DOMAIN runEvents : Coherent(runEvents[i].status)
    /\ Coherent(worker.base.status)
    /\ worker.pc = "patch" => Coherent(worker.next)

PatchingPcs == {"get_pod", "live_pod", "credential", "create", "delete_invalid", "patch"}

(* The cache, once caught up, shows the run in the server. *)
CacheFollows ==
    /\ Len(runEvents) = 0 => runCache = run
    /\ Len(runEvents) > 0 => runEvents[Len(runEvents)] = run

(* With a cache that has caught up whenever a reconcile starts, the worker is the   *)
(* only writer of the status it read: until its patch, an incarnation is as it was  *)
(* read, and a newer one is untouched.                                              *)
WorkerOwnsStatus ==
    worker.pc \in PatchingPcs =>
        /\ worker.base.uid <= lastUid
        /\ ~IsTerminal(worker.base.status.phase)
        /\ Coherent(worker.base.status) /\ Settled(worker.base.status)
        /\ run.uid = worker.base.uid => run = worker.base
        /\ run # NoRun /\ run.uid # worker.base.uid => run.status = EmptyStatus
        /\ worker.pc = "patch" =>
              Coherent(worker.next) /\ Settled(worker.next) /\ worker.next.phase # "unset"

FreshInv ==
    /\ MakesOnlyFirstPod
    /\ CacheFollows
    /\ run # NoRun => run.uid = lastUid
    /\ Coherent(run.status) /\ Settled(run.status)
    /\ WorkerOwnsStatus

(* A budget that was exceeded, by the recorded times. *)
Earned(status, spec) ==
    status.phase = "BudgetExceeded" =>
        /\ spec.wallclock > 0 /\ status.start # NoTime
        /\ status.completion - status.start > spec.wallclock

Progressed(status) == status.phase \in {"Running", "Succeeded"}

(* An incarnation's Pods, as the server, the cache or an event shows them, were     *)
(* made for it, after it was created.                                               *)
Accounted(shown, count, last) ==
    \A n \in PodNames : shown[n].owner \in Uids =>
        count[shown[n].owner] > 0 /\ shown[n].owner <= last

PodsAccounted ==
    /\ Accounted(pods, made, lastUid) /\ Accounted(podCache, made, lastUid)
    /\ \A i \in DOMAIN podEvents : Accounted(podEvents[i], made, lastUid)

(* The credential of a warm run comes before its Pod. *)
HasCredential ==
    /\ worker.pc = "create" /\ worker.base.spec.warm /\ run.uid = worker.base.uid =>
          run.uid \in secrets
    /\ OwnPod(Canonical) /\ run.spec.warm => run.uid \in secrets

(* The patch under way is true of the incarnation it was computed for, *)
PatchIsTrue ==
    worker.pc = "patch" =>
        /\ Earned(worker.next, worker.base.spec)
        /\ Progressed(worker.next) => made[worker.base.uid] > 0

(* and no other patch can land on the first one. *)
FirstIsTrue ==
    run.uid = 1 => Earned(run.status, run.spec) /\ (Progressed(run.status) => made[1] > 0)

OwnInv == PodsAccounted /\ HasCredential /\ PatchIsTrue /\ FirstIsTrue

----------------------------------------------------------------------------
Lifecycle == INSTANCE AgentRunLifecycle WITH
    TerminalPhases <- TerminalPhases,
    ActivePhases <- {"Pending", "Running"},
    uid <- run.uid,
    phase <- run.status.phase,
    completed <- (run.status.completion # NoTime),
    conditions <- run.status.conditions

(* To an observer of its status the run follows the AgentRun lifecycle. *)
FollowsLifecycle == Lifecycle!Spec
=============================================================================
