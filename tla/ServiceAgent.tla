---------------------------- MODULE ServiceAgent ----------------------------
(***************************************************************************)
(* The controller of one Agent in Service mode.  It keeps one standing     *)
(* AgentRun alive: when the newest one has ended it waits for a backoff    *)
(* and creates the next, named by the following suffix.  The name is the   *)
(* only lock: there is no record of what was created but the runs          *)
(* themselves, read from a cache that may lag behind.                      *)
(***************************************************************************)
EXTENDS Integers, Sequences

CONSTANTS
    InitialSeconds,  \* spec.backoff.initialSeconds
    MaxSeconds,      \* spec.backoff.maxSeconds
    MaxRunSuffix,    \* the largest suffix (2^31 - 1 in the code)
    MaxTime,         \* last instant of the clock, in seconds
    AgentLag,        \* Agent events the cache may miss when a reconcile starts
    ListLag,         \* run events the cache may miss when a reconcile starts
    MaxFaults,       \* crashes, failed API calls and lost replies
    MaxMeddling      \* runs deleted or created, and goals edited, by hand

ASSUME BoundsAssumption ==
    /\ InitialSeconds \in Nat \ {0} /\ MaxSeconds \in Nat \ {0}
    /\ MaxRunSuffix \in Nat \ {0} /\ MaxTime \in Nat
    /\ AgentLag \in Nat /\ ListLag \in Nat
    /\ MaxFaults \in Nat /\ MaxMeddling \in Nat

Suffixes == 1..MaxRunSuffix
NoTime == -1
Times == {NoTime} \cup 0..MaxTime

----------------------------------------------------------------------------
(* A run with a canonical name: the Agent's standing run, a run delivered   *)
(* to it (also owned by the Agent, under a name its creator chose), or a    *)
(* stranger's.                                                              *)
RunType == [kind : {"none", "standing", "delivered", "stranger"}, completion : Times]
RunsType == [Suffixes -> RunType]
NoRun == [kind |-> "none", completion |-> NoTime]
NewRun(kind) == [kind |-> kind, completion |-> NoTime]

Standing(runs) == {s \in Suffixes : runs[s].kind = "standing"}
IsTerminal(run) == run.completion # NoTime
Active(runs) == {s \in Standing(runs) : ~IsTerminal(runs[s])}

Largest(S) == IF S = {} THEN 0 ELSE CHOOSE s \in S : \A u \in S : u <= s

(* The newest standing run, and the one before it. *)
Current(runs) == Largest(Standing(runs))
Previous(runs) == Largest(Standing(runs) \ {Current(runs)})

----------------------------------------------------------------------------
(* The backoff doubles from the initial delay with every restart after the  *)
(* first, up to the maximum.                                                *)
Doubled(n) ==
    LET delay[i \in 0..n] ==
            IF i = 0 THEN InitialSeconds
            ELSE IF delay[i - 1] > MaxSeconds - delay[i - 1] THEN MaxSeconds
            ELSE 2 * delay[i - 1]
    IN delay[n]

BackoffDelay(restarts) ==
    IF InitialSeconds >= MaxSeconds THEN MaxSeconds
    ELSE Doubled(IF restarts < 1 THEN 0 ELSE restarts - 1)

----------------------------------------------------------------------------
StatusType ==
    [current : {0} \cup Suffixes, last : {0} \cup Suffixes, runsCreated : {0} \cup Suffixes,
     restarts : {0} \cup Suffixes, reason : {"unset", "MissingGoal", "RunActive", "Recasting"}]
EmptyStatus ==
    [current |-> 0, last |-> 0, runsCreated |-> 0, restarts |-> 0, reason |-> "unset"]
AgentType == [goal : BOOLEAN, status : StatusType]

VARIABLES
    agent,        \* the Agent in the API server: has it a goal, and its status
    agentCache,   \* the Agent the informer cache holds
    agentEvents,  \* later versions of it, on their way to the cache
    runs,         \* the AgentRuns in the API server, by suffix
    runCache,     \* the AgentRuns the informer cache holds
    runEvents,    \* later versions of them, on their way to the cache
    worker,       \* the reconcile in progress
    dirty,        \* is the Agent's key in the work queue?
    timer,        \* when a delayed requeue adds the key (NoTime: none waiting)
    clock,
    faults,       \* faults so far
    meddling      \* interventions by hand so far

caches == <<agentCache, agentEvents, runCache, runEvents>>
queue == <<dirty, timer>>
bounds == <<faults, meddling>>
vars == <<agent, agentCache, agentEvents, runs, runCache, runEvents, worker, dirty, timer,
          clock, faults, meddling>>

(* A reconcile holds the Agent and the runs it read, the status it will     *)
(* write, and the requeue it will ask for.                                  *)
BusyType ==
    [pc : {"create", "verify", "patch"}, base : AgentType, seen : RunsType, next : StatusType,
     requeueAt : {NoTime} \cup Nat]
Idle == [pc |-> "idle"]

----------------------------------------------------------------------------
(* What a reconcile decides from what it read.                              *)

MergePatch(live, base, next) ==
    [f \in DOMAIN live |-> IF next[f] # base[f] THEN next[f] ELSE live[f]]

(* The status of the runs observed: the counters are the newest suffix.     *)
ObservedStatus(base, seen, reason) ==
    [current |-> Current(seen), last |-> Previous(seen), runsCreated |-> Current(seen),
     restarts |-> IF Current(seen) > 0 THEN Current(seen) - 1 ELSE 0, reason |-> reason]

RunActive(seen) == Current(seen) \in Active(seen)

(* The instant at which the backoff after the newest run has passed.        *)
RecastAt(seen) == seen[Current(seen)].completion + BackoffDelay(Current(seen) - 1)

Mut_NeverBacksOff(seen) == FALSE

BacksOff(seen) == Current(seen) > 0 /\ clock < RecastAt(seen)

Begin(base, seen) ==
    LET w == [pc |-> "patch", base |-> base, seen |-> seen, next |-> EmptyStatus,
              requeueAt |-> NoTime]
        Report(reason) == [w EXCEPT !.next = ObservedStatus(base, seen, reason)]
    IN IF ~base.goal THEN Report("MissingGoal")
       ELSE IF RunActive(seen) THEN Report("RunActive")
       ELSE IF BacksOff(seen)
            THEN [Report(base.status.reason) EXCEPT !.requeueAt = RecastAt(seen)]
       ELSE [w EXCEPT !.pc = "create"]

----------------------------------------------------------------------------
(* Writes to the API server, the queue, and faults.                         *)

SetAgent(new) ==
    /\ agent' = new
    /\ agentEvents' = IF new = agent THEN agentEvents ELSE Append(agentEvents, new)

SetRun(suffix, new) ==
    /\ runs' = [runs EXCEPT ![suffix] = new]
    /\ runEvents' = Append(runEvents, runs')

(* The reconcile returns an error, or asks for an immediate requeue. *)
Retry ==
    /\ worker' = Idle
    /\ dirty' = TRUE
    /\ timer' = timer

Mut_FinishNoDelay(requeueAt) == worker' = Idle /\ UNCHANGED queue

(* The reconcile ends; the queue keeps the earliest of the delays asked for. *)
Finish(requeueAt) ==
    /\ worker' = Idle
    /\ dirty' = dirty
    /\ timer' = IF requeueAt = NoTime \/ (timer # NoTime /\ timer <= requeueAt)
                THEN timer ELSE requeueAt

GoOn(next) == worker' = next /\ UNCHANGED queue

Fault ==
    /\ faults < MaxFaults
    /\ faults' = faults + 1
    /\ meddling' = meddling

(* A call that took effect goes on, unless its reply is lost.               *)
Replied(continue) ==
    \/ continue /\ UNCHANGED bounds
    \/ Retry /\ Fault

----------------------------------------------------------------------------
(* The worker.                                                              *)

ReconcileService ==
    /\ worker = Idle
    /\ dirty
    /\ Len(agentEvents) <= AgentLag /\ Len(runEvents) <= ListLag
    /\ worker' = Begin(agentCache, runCache)
    /\ dirty' = FALSE
    /\ UNCHANGED <<agent, runs, caches, timer, clock, bounds>>

Mut_CreateSkipsTaken ==
    /\ worker.pc = "create"
    /\ \E suffix \in Suffixes :
          /\ suffix > Current(worker.seen) /\ runs[suffix] = NoRun
          /\ \A s \in (Current(worker.seen) + 1)..(suffix - 1) : runs[s] # NoRun
          /\ SetRun(suffix, NewRun("standing"))
    /\ Retry
    /\ UNCHANGED <<agent, agentCache, agentEvents, runCache, clock, bounds>>

(* The next suffix is tried; the requeue comes two seconds later. *)
CreateRun ==
    /\ worker.pc = "create"
    /\ Current(worker.seen) < MaxRunSuffix
    /\ LET suffix == Current(worker.seen) + 1 IN
       IF runs[suffix] # NoRun
       THEN /\ GoOn([worker EXCEPT !.pc = "verify"])
            /\ UNCHANGED <<runs, runEvents, bounds>>
       ELSE /\ SetRun(suffix, NewRun("standing"))
            /\ Replied(GoOn([worker EXCEPT
                  !.pc = "patch",
                  !.next = [current |-> suffix, last |-> Current(worker.seen),
                            runsCreated |-> suffix, restarts |-> suffix - 1,
                            reason |-> "Recasting"],
                  !.requeueAt = clock + 2]))
    /\ UNCHANGED <<agent, agentCache, agentEvents, runCache, clock>>

(* The suffixes have run out, which is an error. *)
SuffixExhausted ==
    /\ worker.pc = "create"
    /\ Current(worker.seen) = MaxRunSuffix
    /\ Retry
    /\ UNCHANGED <<agent, runs, caches, clock, bounds>>

(* The run that has the name is read from the API server: if it is gone or  *)
(* the Agent's own the cache is behind, otherwise the names collide.  All   *)
(* lead to another try.                                                     *)
HandleServiceRunAlreadyExists ==
    /\ worker.pc = "verify"
    /\ Retry
    /\ UNCHANGED <<agent, runs, caches, clock, bounds>>

SetAgentStatus ==
    /\ worker.pc = "patch"
    /\ SetAgent([agent EXCEPT !.status =
                    MergePatch(agent.status, worker.base.status, worker.next)])
    /\ Replied(Finish(worker.requeueAt))
    /\ UNCHANGED <<runs, agentCache, runCache, runEvents, clock>>

----------------------------------------------------------------------------
(* Events, timers and faults of the controller.                             *)

DeliverAgentEvent ==
    /\ agentEvents # <<>>
    /\ agentCache' = Head(agentEvents)
    /\ agentEvents' = Tail(agentEvents)
    /\ dirty' = TRUE
    /\ UNCHANGED <<agent, runs, runCache, runEvents, worker, timer, clock, bounds>>

(* Owns(&AgentRun): a stranger's run wakes nobody. *)
DeliverRunEvent ==
    /\ runEvents # <<>>
    /\ runCache' = Head(runEvents)
    /\ runEvents' = Tail(runEvents)
    /\ dirty' = (dirty \/ \E s \in Suffixes :
                    /\ runCache'[s] # runCache[s]
                    /\ {runCache'[s].kind, runCache[s].kind} \cap {"standing", "delivered"} # {})
    /\ UNCHANGED <<agent, runs, agentCache, agentEvents, worker, timer, clock, bounds>>

RequeueAfter ==
    /\ timer # NoTime
    /\ timer <= clock
    /\ dirty' = TRUE
    /\ timer' = NoTime
    /\ UNCHANGED <<agent, runs, caches, worker, clock, bounds>>

ApiCallFails ==
    /\ worker # Idle
    /\ Retry
    /\ Fault
    /\ UNCHANGED <<agent, runs, caches, clock>>

(* The controller restarts, or another replica takes the lead. *)
Crash ==
    /\ Fault
    /\ worker' = Idle
    /\ agentCache' = agent /\ agentEvents' = <<>>
    /\ runCache' = runs /\ runEvents' = <<>>
    /\ dirty' = TRUE
    /\ timer' = NoTime
    /\ UNCHANGED <<agent, runs, clock>>

----------------------------------------------------------------------------
(* The surroundings (external).                                             *)

RunAction(suffix, new) ==
    /\ SetRun(suffix, new)
    /\ UNCHANGED <<agent, agentCache, agentEvents, runCache, worker, queue, clock>>

RunEnds(suffix) ==
    /\ runs[suffix].kind \in {"standing", "delivered"} /\ ~IsTerminal(runs[suffix])
    /\ RunAction(suffix, [runs[suffix] EXCEPT !.completion = clock])
    /\ UNCHANGED bounds

Meddle == meddling < MaxMeddling /\ meddling' = meddling + 1 /\ faults' = faults

UserDeletesRun(suffix) ==
    /\ Meddle
    /\ runs[suffix] # NoRun
    /\ RunAction(suffix, NoRun)

UserCreatesRun(suffix) ==
    /\ Meddle
    /\ runs[suffix] = NoRun
    /\ \E kind \in {"delivered", "stranger"} : RunAction(suffix, NewRun(kind))

UserEditsGoal ==
    /\ Meddle
    /\ SetAgent([agent EXCEPT !.goal = ~@])
    /\ UNCHANGED <<runs, agentCache, runCache, runEvents, worker, queue, clock>>

Tick ==
    /\ clock < MaxTime
    /\ clock' = clock + 1
    /\ UNCHANGED <<agent, runs, caches, worker, queue, bounds>>

----------------------------------------------------------------------------
Init ==
    /\ agent = [goal |-> TRUE, status |-> EmptyStatus]
    /\ runs = [s \in Suffixes |-> NoRun]
    /\ agentCache = agent /\ agentEvents = <<>>
    /\ runCache = runs /\ runEvents = <<>>
    /\ worker = Idle /\ dirty = TRUE /\ timer = NoTime
    /\ clock = 0 /\ faults = 0 /\ meddling = 0

WorkerStep ==
    \/ ReconcileService \/ CreateRun \/ SuffixExhausted
    \/ HandleServiceRunAlreadyExists \/ SetAgentStatus
QueueStep == DeliverAgentEvent \/ DeliverRunEvent \/ RequeueAfter
RunStep(suffix) == RunEnds(suffix) \/ UserDeletesRun(suffix) \/ UserCreatesRun(suffix)

Next ==
    \/ WorkerStep \/ QueueStep
    \/ ApiCallFails \/ Crash
    \/ \E suffix \in Suffixes : RunStep(suffix)
    \/ UserEditsGoal \/ Tick

Spec == Init /\ [][Next]_vars

(* Workers, watch streams and the clock keep going. *)
Fairness ==
    /\ WF_vars(WorkerStep)
    /\ WF_vars(DeliverAgentEvent) /\ WF_vars(DeliverRunEvent) /\ WF_vars(RequeueAfter)
    /\ WF_vars(Tick)

FairSpec == Spec /\ Fairness

----------------------------------------------------------------------------
(* Properties.                                                              *)

(* Every variable has its type; no suffix or counter passes its limit. *)
TypeOK ==
    /\ agent \in AgentType /\ agentCache \in AgentType /\ agentEvents \in Seq(AgentType)
    /\ runs \in RunsType /\ runCache \in RunsType /\ runEvents \in Seq(RunsType)
    /\ worker = Idle \/ worker \in BusyType
    /\ dirty \in BOOLEAN /\ timer \in {NoTime} \cup Nat /\ clock \in 0..MaxTime
    /\ faults \in 0..MaxFaults /\ meddling \in 0..MaxMeddling

(* A Service Agent never has two live standing runs, although each is created from   *)
(* a list that may be out of date.                                                   *)
OneStandingRun == meddling = 0 => \A s, u \in Active(runs) : s = u

PowerOfTwo(n) ==
    LET power[i \in 0..n] == IF i = 0 THEN 1 ELSE 2 * power[i - 1]
    IN power[n]

(* The wait the code means to compute by repeated doubling, in closed form.           *)
CappedPower(restarts) ==
    LET uncapped == InitialSeconds * PowerOfTwo(IF restarts = 0 THEN 0 ELSE restarts - 1)
    IN IF uncapped < MaxSeconds THEN uncapped ELSE MaxSeconds

(* No run is created before the backoff after the newest one has passed: the initial  *)
(* delay, doubled for every restart after the first, up to the maximum.               *)
RecastWaits ==
    [][\A s \in Standing(runs') \ Standing(runs) :
          meddling = 0 /\ s > 1 /\ s - 1 \in Standing(runs) =>
             /\ IsTerminal(runs[s - 1])
             /\ clock - runs[s - 1].completion >= CappedPower(s - 2)]_runs

(* The service comes back: when its newest run has ended a next one is created, as    *)
(* far as suffixes and the clock reach, and no later than the capped backoff says.    *)
ServiceIsRecast ==
    \A s \in Suffixes \ {MaxRunSuffix} :
        (/\ s = Current(runs) /\ IsTerminal(runs[s])
         /\ runs[s].completion + CappedPower(s - 1) <= MaxTime)
        ~> (s < Current(runs) \/ meddling > 0)

=============================================================================
