-------------------------- MODULE AgentRunDelivery --------------------------
(***************************************************************************)
(* The other half of the AgentRun controller: a run with spec.delivery is  *)
(* not given a Pod of its own but sent, over HTTP, to the Pod of a Service *)
(* Agent's standing run.  One reconcile finds that Pod by four reads,      *)
(* marks the run Running, finds the Pod again, sends the request, reads    *)
(* the run again, finds the Pod a third time, and records the outcome.     *)
(* Between any two of these calls the Service may be recast, its Pod's     *)
(* address given to another Pod, the run deleted and created again, or the *)
(* controller restarted.                                                   *)
(***************************************************************************)
EXTENDS Integers, Sequences

CONSTANTS
    MaxUid,        \* how many incarnations of the run's name may be created
    MaxStanding,   \* how many standing runs the Service has, one after the other
    Ips,           \* Pod addresses
    Limits,        \* wallclock budgets a run may be created with
    Window,        \* seconds from creation in which a run must be delivered
    BackoffTable,  \* waits between attempts: <<[after |-> elapsed, delay |-> wait], ...>>
    MaxTime,       \* last instant of the clock; it stands for all later ones
    RunLag,        \* run events the cache may miss when a reconcile starts
    MaxTroubles    \* crashes, failed API calls, lost replies and disturbances of the
                   \* Service, all together

NoLimit == -1
BadLimit == 0
NoTime == -1
Uids == 1..MaxUid
StandingRuns == 1..MaxStanding
Times == {NoTime} \cup 0..MaxTime

ASSUME BoundsAssumption ==
    /\ MaxUid \in Nat \ {0} /\ MaxStanding \in Nat \ {0} /\ Ips \subseteq Nat \ {0}
    /\ Limits \subseteq {NoLimit} \cup Nat /\ Window \in Nat \ {0}
    /\ BackoffTable \in Seq([after : Nat, delay : Nat \ {0}]) /\ BackoffTable # <<>>
    /\ BackoffTable[1].after = 0
    /\ MaxTime \in Nat /\ RunLag \in Nat /\ MaxTroubles \in Nat

----------------------------------------------------------------------------
(* Runs.                                                                   *)

TerminalPhases == {"Succeeded", "Failed", "BudgetExceeded"}
IsTerminal(phase) == phase \in TerminalPhases

(* An output names the run it was computed for and the standing run whose  *)
(* Pod computed it.                                                        *)
NoOutput == [uid |-> 0, by |-> 0]

StatusType ==
    [phase : {"unset", "Pending", "Running"} \cup TerminalPhases, pod : {0} \cup StandingRuns,
     start : Times, completion : Times, output : [uid : {0} \cup Uids, by : {0} \cup StandingRuns],
     reason : {"unset", "waiting", "delivering", "invalid", "timeout", "exceeded", "protocol",
               "result"}]
EmptyStatus ==
    [phase |-> "unset", pod |-> 0, start |-> NoTime, completion |-> NoTime,
     output |-> NoOutput, reason |-> "unset"]

NoRun == [uid |-> 0, limit |-> NoLimit, created |-> 0, status |-> EmptyStatus]
RunType ==
    {NoRun} \cup [uid : Uids, limit : Limits, created : 0..MaxTime, status : StatusType]

----------------------------------------------------------------------------
VARIABLES
    run,        \* the AgentRun in the API server, or NoRun
    runCache,   \* the AgentRun the informer cache holds
    runEvents,  \* later versions of it, on their way to the cache
    lastUid,    \* how many incarnations there have been
    service,    \* the Agent, its standing runs, their Pods and credentials
    worker,     \* the reconcile in progress
    dirty,      \* is the run's key in the work queue?
    timer,      \* when a delayed requeue adds the key (NoTime: none waiting)
    clock, troubles

queue == <<dirty, timer>>
stored == <<run, runCache, runEvents, lastUid>>
vars == <<run, runCache, runEvents, lastUid, service, worker, dirty, timer, clock,
          troubles>>

(* The Service: the Agent (which may be missing, or not the Service that   *)
(* owns the run), the standing run its status names, and for each standing *)
(* run its state, its Pod and its credential Secret.  The Pod of standing  *)
(* run s has an identity of its own, s.                                    *)
ServiceType ==
    [agent : {"service", "missing", "foreign"},
     current : {0} \cup StandingRuns,
     standing : [StandingRuns -> {"absent", "unready", "running", "incompatible", "ended"}],
     pod : [StandingRuns -> {"absent", "unready", "ready"}],
     ip : [StandingRuns -> {0} \cup Ips],
     secret : [StandingRuns -> {"absent", "invalid", "valid"}]]

(* A reconcile: the run it works from, how far the search for the target   *)
(* has come, the target found first, the answer, and what it will write.   *)
TargetType == [standing : {0} \cup StandingRuns, ip : {0} \cup Ips]
Nowhere == [standing |-> 0, ip |-> 0]
AnswerType ==
    [kind : {"none", "transport", "rejected", "Succeeded", "Failed"},
     uid : {0} \cup Uids, by : {0} \cup StandingRuns]
NoAnswer == [kind |-> "none", uid |-> 0, by |-> 0]

WorkerType ==
    [pc : {"idle", "agent", "standing", "pod", "secret", "running", "http", "latest", "patch"},
     stage : {"first", "before", "after"}, base : RunType, found : TargetType,
     target : TargetType, answer : AnswerType, next : StatusType, again : BOOLEAN]
Idle ==
    [pc |-> "idle", stage |-> "first", base |-> NoRun, found |-> Nowhere, target |-> Nowhere,
     answer |-> NoAnswer, next |-> EmptyStatus, again |-> FALSE]

----------------------------------------------------------------------------
(* Deadlines and delays.                                                   *)

Mut_DeadlineFromCreation(aRun) ==
    IF aRun.limit # NoLimit /\ aRun.limit <= Window
    THEN [at |-> aRun.created + aRun.limit, budget |-> TRUE]
    ELSE [at |-> aRun.created + Window, budget |-> FALSE]

(* The delivery window, or the wallclock budget when it ends no later. *)
DeliveryDeadline(aRun) ==
    IF /\ aRun.limit # NoLimit /\ aRun.status.start # NoTime
       /\ aRun.status.start + aRun.limit <= aRun.created + Window
    THEN [at |-> aRun.status.start + aRun.limit, budget |-> TRUE]
    ELSE [at |-> aRun.created + Window, budget |-> FALSE]

Expired(aRun) == clock >= DeliveryDeadline(aRun).at

DeliveryBackoff(aRun) ==
    LET due == {i \in DOMAIN BackoffTable : BackoffTable[i].after <= clock - aRun.created}
    IN BackoffTable[CHOOSE i \in due : \A j \in due : j <= i].delay

----------------------------------------------------------------------------
(* The statuses written.                                                   *)

SetDeliveryWaiting(status) ==
    [status EXCEPT !.phase = "Pending", !.completion = NoTime, !.reason = "waiting"]

SetDeliveryRunning(status, standing) ==
    [status EXCEPT !.phase = "Running", !.pod = standing,
                   !.start = IF @ = NoTime THEN clock ELSE @,
                   !.completion = NoTime, !.reason = "delivering"]

TransitionRun(status, phase, reason) ==
    [status EXCEPT !.phase = phase, !.reason = reason,
                   !.completion = IF @ = NoTime THEN clock ELSE @]

Completed(w) ==
    [TransitionRun(w.base.status, w.answer.kind, "result") EXCEPT
        !.output = [uid |-> w.answer.uid, by |-> w.answer.by], !.pod = w.target.standing]

PatchWith(w, next, again) == [w EXCEPT !.pc = "patch", !.next = next, !.again = again]

Unavailable(w) == PatchWith(w, SetDeliveryWaiting(w.base.status), TRUE)
Misconfigured(w) == PatchWith(w, TransitionRun(w.base.status, "Failed", "invalid"), FALSE)

(* The deadline has passed: the budget's, or the window's. *)
GiveUp(w) ==
    PatchWith(w, IF DeliveryDeadline(w.base).budget
                 THEN TransitionRun(w.base.status, "BudgetExceeded", "exceeded")
                 ELSE TransitionRun(w.base.status, "Failed", "timeout"), FALSE)

----------------------------------------------------------------------------
(* What a reconcile does next.                                             *)

Search(w, stage) == [w EXCEPT !.pc = "agent", !.stage = stage, !.found = Nowhere]

(* The run as the API server returns it; the wallclock limit stays the one *)
(* parsed when the reconcile began.                                        *)
Reread(w, aRun) == [w EXCEPT !.base = [aRun EXCEPT !.limit = w.base.limit]]

Mut_BeginIgnoresTerminal(base) ==
    IF base.uid = 0 THEN Idle
    ELSE IF Expired(base) THEN GiveUp([Idle EXCEPT !.base = base])
    ELSE Search([Idle EXCEPT !.base = base], "first")

Begin(base) ==
    LET w == [Idle EXCEPT !.base = base]
    IN IF base.uid = 0 \/ IsTerminal(base.status.phase) THEN Idle
       ELSE IF base.limit = BadLimit THEN Misconfigured(w)
       ELSE IF Expired(base) THEN GiveUp(w)
       ELSE Search(w, "first")

(* The answer is looked at only once the target is known to be unchanged. *)
Conclude(w) ==
    CASE w.answer.kind = "rejected" ->
            PatchWith(w, TransitionRun(w.base.status, "Failed", "protocol"), FALSE)
      [] w.answer.kind = "transport" -> IF Expired(w.base) THEN GiveUp(w) ELSE Unavailable(w)
      [] OTHER -> PatchWith(w, Completed(w), FALSE)

Mut_TargetNotConfirmed(w) ==
    CASE w.stage = "first" -> [w EXCEPT !.pc = "running", !.target = w.found]
      [] w.stage = "before" -> [w EXCEPT !.pc = "http", !.target = w.found]
      [] w.stage = "after" -> Conclude(w)

(* The target has been found: for the first time, or again by confirm.     *)
Resolved(w) ==
    CASE w.stage = "first" -> [w EXCEPT !.pc = "running", !.target = w.found]
      [] w.stage # "first" /\ w.found # w.target -> Unavailable(w)
      [] w.stage = "before" /\ w.found = w.target ->
            IF Expired(w.base) THEN GiveUp(w) ELSE [w EXCEPT !.pc = "http"]
      [] w.stage = "after" /\ w.found = w.target -> Conclude(w)

MergePatch(live, base, next) ==
    [f \in DOMAIN live |-> IF next[f] # base[f] THEN next[f] ELSE live[f]]

SetRun(new) ==
    /\ run' = new
    /\ runEvents' = IF new = run THEN runEvents ELSE Append(runEvents, new)

(* The reconcile returns an error: the key goes back to the queue. *)
Retry ==
    /\ worker' = Idle
    /\ dirty' = TRUE
    /\ timer' = timer

Mut_FinishNoDelay(again) == worker' = Idle /\ UNCHANGED queue

(* The reconcile ends; a delay that outlasts the clock is due at its end.  *)
Finish(again) ==
    LET at == clock + DeliveryBackoff(worker.base)
        due == IF at > MaxTime THEN MaxTime ELSE at
    IN /\ worker' = Idle
       /\ dirty' = dirty
       /\ timer' = IF ~again \/ (timer # NoTime /\ timer <= due) THEN timer ELSE due

GoOn(next) == worker' = next /\ UNCHANGED queue

Trouble == troubles < MaxTroubles /\ troubles' = troubles + 1

(* A call that took effect goes on, unless its reply is lost. *)
Replied(continue) ==
    \/ continue /\ UNCHANGED troubles
    \/ Retry /\ Trouble

----------------------------------------------------------------------------
(* The worker.                                                             *)

ReconcileDelivery ==
    /\ worker.pc = "idle"
    /\ dirty
    /\ Len(runEvents) <= RunLag
    /\ worker' = Begin(runCache)
    /\ dirty' = FALSE
    /\ UNCHANGED <<stored, service, timer, clock, troubles>>

Reading(pc) ==
    /\ worker.pc = pc
    /\ UNCHANGED <<stored, service, clock, troubles>>

ReadAgent ==
    /\ Reading("agent")
    /\ GoOn(CASE service.agent = "foreign" -> Misconfigured(worker)
              [] service.agent = "missing" -> Unavailable(worker)
              [] OTHER -> IF service.current = 0 THEN Unavailable(worker)
                          ELSE [worker EXCEPT !.pc = "standing",
                                              !.found.standing = service.current])

ReadStandingRun ==
    /\ Reading("standing")
    /\ GoOn(IF service.standing[worker.found.standing] = "running"
            THEN [worker EXCEPT !.pc = "pod"] ELSE Unavailable(worker))

ReadPod ==
    /\ Reading("pod")
    /\ GoOn(IF service.pod[worker.found.standing] = "ready"
            THEN [worker EXCEPT !.pc = "secret",
                                !.found.ip = service.ip[worker.found.standing]]
            ELSE Unavailable(worker))

(* loadDeliveryCredential; with it the target is known.  Any error but     *)
(* NotFound, a call that failed for a moment included, is taken for a bad  *)
(* configuration and ends the run.                                         *)
ReadSecret ==
    /\ worker.pc = "secret"
    /\ \/ /\ GoOn(CASE service.secret[worker.found.standing] = "absent" -> Unavailable(worker)
                    [] service.secret[worker.found.standing] = "invalid" -> Misconfigured(worker)
                    [] OTHER -> Resolved(worker))
          /\ UNCHANGED troubles
       \/ GoOn(Misconfigured(worker)) /\ Trouble
    /\ UNCHANGED <<stored, service, clock>>

(* The reply holds the run as it is now, from which the reconcile goes on. *)
PatchRunning ==
    /\ worker.pc = "running"
    /\ run # NoRun
    /\ SetRun([run EXCEPT !.status = MergePatch(@, worker.base.status,
                  SetDeliveryRunning(worker.base.status, worker.target.standing))])
    /\ Replied(GoOn(Search(Reread(worker, run'), "before")))
    /\ UNCHANGED <<runCache, lastUid, service, clock>>

(* deliver, the exchange: whoever has the address may answer, only the     *)
(* target can sign, and at the deadline the request is abandoned.          *)
Answers(w) ==
    LET From(kinds, pods) == [kind : kinds, uid : {w.base.uid}, by : pods]
        Holders == {s \in StandingRuns : service.pod[s] # "absent" /\ service.ip[s] = w.target.ip}
    IN From({"transport"}, {0}) \cup
       IF Expired(w.base) THEN {}
       ELSE IF w.target.standing \in Holders
            THEN From({"rejected", "Succeeded", "Failed"}, {w.target.standing})
       ELSE From({"rejected"}, {0} \cup Holders)

Deliver ==
    /\ worker.pc = "http"
    /\ \E answer \in Answers(worker) :
          GoOn([worker EXCEPT !.pc = "latest", !.answer = answer])
    /\ UNCHANGED <<stored, service, clock, troubles>>

ReadLatest ==
    /\ Reading("latest")
    /\ IF run.uid # worker.base.uid \/ IsTerminal(run.status.phase) THEN Finish(FALSE)
       ELSE GoOn(Search(Reread(worker, run), "after"))

PatchRunStatus ==
    /\ worker.pc = "patch"
    /\ run # NoRun
    /\ SetRun([run EXCEPT !.status = MergePatch(@, worker.base.status, worker.next)])
    /\ Replied(Finish(worker.again))
    /\ UNCHANGED <<runCache, lastUid, service, clock>>

(* The run was deleted before its status could be written. *)
PatchNotFound ==
    /\ worker.pc \in {"running", "patch"}
    /\ run = NoRun
    /\ Retry
    /\ UNCHANGED <<stored, service, clock, troubles>>

----------------------------------------------------------------------------
(* Events, timers and faults of the controller.                            *)

DeliverRunEvent ==
    /\ runEvents # <<>>
    /\ runCache' = Head(runEvents)
    /\ runEvents' = Tail(runEvents)
    /\ dirty' = TRUE
    /\ UNCHANGED <<run, lastUid, service, worker, timer, clock, troubles>>

RequeueAfter ==
    /\ timer # NoTime
    /\ timer <= clock
    /\ dirty' = TRUE
    /\ timer' = NoTime
    /\ UNCHANGED <<stored, service, worker, clock, troubles>>

(* A failed call is retried, but for the read of the credential.           *)
ApiCallFails ==
    /\ worker.pc \notin {"idle", "http", "secret"}
    /\ Retry
    /\ Trouble
    /\ UNCHANGED <<stored, service, clock>>

Crash ==
    /\ Trouble
    /\ worker' = Idle
    /\ runCache' = run /\ runEvents' = <<>>
    /\ dirty' = TRUE
    /\ timer' = NoTime
    /\ UNCHANGED <<run, lastUid, service, clock>>

----------------------------------------------------------------------------
(* The surroundings (external).                                            *)

UserCreatesRun(limit) ==
    /\ run = NoRun
    /\ lastUid < MaxUid
    /\ lastUid' = lastUid + 1
    /\ SetRun([uid |-> lastUid + 1, limit |-> limit, created |-> clock, status |-> EmptyStatus])
    /\ UNCHANGED <<runCache, service, worker, queue, clock, troubles>>

UserDeletesRun ==
    /\ run # NoRun
    /\ lastUid < MaxUid
    /\ SetRun(NoRun)
    /\ UNCHANGED <<runCache, lastUid, service, worker, queue, clock, troubles>>

ServiceChanges(new) ==
    /\ service' = new
    /\ UNCHANGED <<stored, worker, queue, clock>>

(* The Agent controller names the next standing run. *)
ServiceRecasts ==
    /\ service.current < MaxStanding
    /\ service.current # 0 => service.standing[service.current] \in {"absent", "ended"}
    /\ ServiceChanges([service EXCEPT !.current = @ + 1,
                                      !.standing[service.current + 1] = "unready"])
    /\ UNCHANGED troubles

(* A standing run gets its credential and its Pod, which takes a free address. *)
StandingRunStarts(s) ==
    /\ service.standing[s] = "unready"
    /\ \E ip \in Ips, state \in {"running", "incompatible"} :
          /\ \A u \in StandingRuns : service.pod[u] # "absent" => service.ip[u] # ip
          /\ ServiceChanges([service EXCEPT !.standing[s] = state, !.pod[s] = "ready",
                                            !.ip[s] = ip, !.secret[s] = "valid"])
    /\ UNCHANGED troubles

(* The AgentRun controller records that its Pod is gone. *)
StandingRunEnds(s) ==
    /\ service.standing[s] \in {"running", "incompatible"} /\ service.pod[s] = "absent"
    /\ ServiceChanges([service EXCEPT !.standing[s] = "ended"])
    /\ UNCHANGED troubles

PodChanges(s) ==
    /\ Trouble
    /\ service.pod[s] # "absent"
    /\ \E state \in {"absent", "unready", "ready"} \ {service.pod[s]} :
          ServiceChanges([service EXCEPT !.pod[s] = state])

StandingRunDeleted(s) ==
    /\ Trouble
    /\ service.standing[s] # "absent"
    /\ ServiceChanges([service EXCEPT !.standing[s] = "absent", !.pod[s] = "absent",
                                      !.secret[s] = "absent"])

SecretSpoiled(s) ==
    /\ Trouble
    /\ service.secret[s] = "valid"
    /\ \E state \in {"absent", "invalid"} :
          ServiceChanges([service EXCEPT !.secret[s] = state])

AgentReplaced ==
    /\ Trouble
    /\ service.agent = "service"
    /\ \E state \in {"missing", "foreign"} :
          ServiceChanges([service EXCEPT !.agent = state])

Tick ==
    /\ clock < MaxTime
    /\ clock' = clock + 1
    /\ UNCHANGED <<stored, service, worker, queue, troubles>>

----------------------------------------------------------------------------
Init ==
    /\ run = NoRun /\ runCache = NoRun /\ runEvents = <<>> /\ lastUid = 0
    /\ service = [agent |-> "service", current |-> 0,
                  standing |-> [s \in StandingRuns |-> "absent"],
                  pod |-> [s \in StandingRuns |-> "absent"], ip |-> [s \in StandingRuns |-> 0],
                  secret |-> [s \in StandingRuns |-> "absent"]]
    /\ worker = Idle /\ dirty = FALSE /\ timer = NoTime
    /\ clock = 0 /\ troubles = 0

WorkerStep ==
    \/ ReconcileDelivery \/ ReadAgent \/ ReadStandingRun \/ ReadPod \/ ReadSecret
    \/ PatchRunning \/ Deliver \/ ReadLatest \/ PatchRunStatus \/ PatchNotFound
StandingStep(s) ==
    \/ StandingRunStarts(s) \/ StandingRunEnds(s) \/ PodChanges(s) \/ StandingRunDeleted(s)
    \/ SecretSpoiled(s)

Next ==
    \/ WorkerStep
    \/ DeliverRunEvent \/ RequeueAfter \/ ApiCallFails \/ Crash
    \/ \E limit \in Limits : UserCreatesRun(limit)
    \/ UserDeletesRun
    \/ ServiceRecasts \/ (\E s \in StandingRuns : StandingStep(s)) \/ AgentReplaced
    \/ Tick

Spec == Init /\ [][Next]_vars

(* Workers, the watch stream, the delayed queue and the clock keep going;  *)
(* nothing is asked of the Service.                                        *)
Fairness ==
    /\ WF_vars(WorkerStep)
    /\ WF_vars(DeliverRunEvent) /\ WF_vars(RequeueAfter)
    /\ WF_vars(Tick)

FairSpec == Spec /\ Fairness

----------------------------------------------------------------------------
(* Properties.                                                             *)

(* Every variable has its type. *)
TypeOK ==
    /\ run \in RunType /\ runCache \in RunType /\ runEvents \in Seq(RunType)
    /\ lastUid \in 0..MaxUid /\ service \in ServiceType /\ worker \in WorkerType
    /\ dirty \in BOOLEAN /\ timer \in Times
    /\ clock \in 0..MaxTime /\ troubles \in 0..MaxTroubles

(* A delivered run that has ended keeps its outcome, nothing reopens it, and its       *)
(* budget runs from the first attempt on, across retries and restarts.                 *)
TerminalStays ==
    [][run.uid # 0 /\ run'.uid = run.uid =>
          /\ IsTerminal(run.status.phase) => run'.status = run.status
          /\ run.status.start # NoTime => run'.status.start = run.status.start]_run

(* Only the answer of the run's own target counts.  While a request is out, the run it *)
(* is for is Running and names the Pod; a run fails for a protocol error only if the   *)
(* answer came from its target, not from a Pod that took over the address; and a       *)
(* result is never meant for another incarnation, as far as the reconcile can see.     *)
(* (A patch may land on a recreated run, which the reconcile then goes on with: hence  *)
(* the restriction to the first one, here and in CutOffInTime.)                        *)
OnlyTheTargetCounts ==
    /\ worker.pc = "http" /\ run.uid = worker.base.uid /\ run.uid = 1 =>
          run.status.phase = "Running" /\ run.status.pod = worker.target.standing
    /\ worker.pc = "patch" /\ worker.next.reason = "protocol" =>
          worker.answer.by = worker.target.standing
    /\ worker.pc = "patch" /\ worker.next.reason = "result" =>
          worker.next.output.uid = worker.base.uid

(* A run is never charged for a budget it had no chance to use, nor cut off early.    *)
CutOffInTime ==
    run.uid = 1 =>
        /\ run.status.reason = "exceeded" => run.status.completion >= run.status.start + run.limit
        /\ run.status.reason = "timeout" => run.status.completion >= run.created + Window

(* No delivered run stays open: whatever the Service does, it ends within reach of    *)
(* its window (runs are created finitely often).                                      *)
DeliveryEnds ==
    []<>(run = NoRun \/ IsTerminal(run.status.phase) \/ run.created + Window > MaxTime)

(* Delivered runs keep the same lifecycle as those with a Pod of their own.           *)
(* (Conditions are modelled only by their reason; here they are taken to follow the   *)
(* phase.)                                                                            *)
Lifecycle == INSTANCE AgentRunLifecycle WITH
    TerminalPhases <- TerminalPhases,
    ActivePhases <- {"Pending", "Running"},
    uid <- run.uid,
    phase <- run.status.phase,
    completed <- (run.status.completion # NoTime),
    conditions <- run.status.phase

(* To an observer of its phase and completion time the run follows the AgentRun       *)
(* lifecycle: it ends at most once, with its completion time in the same write, and   *)
(* is frozen from then on (reconcileDelivery, transitionRun, patchRunStatus).         *)
FollowsLifecycle == Lifecycle!Spec
=============================================================================
