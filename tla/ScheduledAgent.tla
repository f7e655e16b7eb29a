--------------------------- MODULE ScheduledAgent ---------------------------
(***************************************************************************)
(* The controller of one Agent in Scheduled mode: it mints an AgentRun for *)
(* the latest due slot of a cron schedule, prunes finished runs, and keeps *)
(* its position in the schedule in the Agent's status.                     *)
(*                                                                         *)
(* A reconcile reads the Agent and its runs from the informer caches and   *)
(* the clock once, deletes the excess history, creates at most one run and *)
(* writes the status with a merge patch.  Every API call is an action of   *)
(* its own; runs, users, the clock and faults may act between any two.     *)
(***************************************************************************)
EXTENDS Integers, Sequences, FiniteSets

CONSTANTS
    Specs,         \* the specs a user may give the Agent
    MaxTime,       \* last instant of the clock
    MaxGeneration, \* how often the spec may be written
    MaxRunSuffix,  \* the largest run counter (2^31 - 1 in the code)
    AgentLag,      \* Agent events the cache may miss when a reconcile starts
    ListLag,       \* run events the cache may miss when a reconcile starts
    MaxFaults,     \* crashes, failed API calls and lost replies
    MaxMeddling    \* runs deleted or created by hand

Times == 0..MaxTime
Zero == -1          \* the zero time: an unset timestamp, no slot

(* A schedule is the set of its slots.  Parsing fails for a spec that is not *)
(* valid.                                                                    *)
SpecType ==
    [valid : BOOLEAN, slots : SUBSET Nat, forbid : BOOLEAN, deadline : Nat,
     suspend : BOOLEAN, keepSucceeded : Nat, keepFailed : Nat]

ASSUME BoundsAssumption ==
    /\ MaxTime \in Nat /\ MaxGeneration \in Nat \ {0} /\ MaxRunSuffix \in Nat
    /\ AgentLag \in Nat /\ ListLag \in Nat
    /\ MaxFaults \in Nat /\ MaxMeddling \in Nat

(* A cron schedule always has a next slot. *)
ASSUME SpecsAssumption ==
    /\ \A spec \in Specs :
          /\ spec.valid \in BOOLEAN /\ spec.slots \subseteq Nat
          /\ spec.forbid \in BOOLEAN /\ spec.deadline \in Nat /\ spec.suspend \in BOOLEAN
          /\ spec.keepSucceeded \in Nat /\ spec.keepFailed \in Nat
    /\ \A spec \in Specs, t \in Times :
          \E s \in spec.slots : s > t /\ \A u \in spec.slots : u > t => s <= u

----------------------------------------------------------------------------
(* Slots.                                                                   *)

(* The next slot of the schedule after t. *)
NextSlot(spec, t) ==
    CHOOSE s \in spec.slots : s > t /\ \A u \in spec.slots : u > t => s <= u

(* The slots that have come by now, from the one the status waits for.      *)
DueSlots(spec, first, now) ==
    {s \in {first} \cup spec.slots : first <= s /\ s <= now}

Mut_OldestDue(spec, first, now) == IF first > now THEN Zero ELSE first

LatestDue(spec, first, now) ==
    IF first > now THEN Zero
    ELSE CHOOSE s \in DueSlots(spec, first, now) :
             \A u \in DueSlots(spec, first, now) : u <= s

----------------------------------------------------------------------------
(* Runs are named after their slot, so a run's name is its slot here.  A    *)
(* run is the Agent's or, under the same name, a stranger's.                *)

RunType ==
    [owner : {"nobody", "agent", "stranger"}, phase : {"active", "Succeeded", "Failed"},
     seq : 0..MaxRunSuffix]
NoRun == [owner |-> "nobody", phase |-> "active", seq |-> 0]
NewRun(owner, seq) == [owner |-> owner, phase |-> "active", seq |-> seq]
NoRuns == [s \in Times |-> NoRun]

Owned(runs) == {s \in Times : runs[s].owner = "agent"}
OwnRuns(runs) == [s \in Times |-> IF s \in Owned(runs) THEN runs[s] ELSE NoRun]
HasActive(runs) == \E s \in Owned(runs) : runs[s].phase = "active"
MaxCount(runs) ==
    IF Owned(runs) = {} THEN 0
    ELSE LET counts == {runs[s].seq : s \in Owned(runs)}
         IN CHOOSE c \in counts : \A d \in counts : d <= c
Latest(runs) ==
    IF Owned(runs) = {} THEN Zero
    ELSE CHOOSE s \in Owned(runs) : \A u \in Owned(runs) : u <= s

(* Of the runs with this outcome all but the newest `limit` are too many.   *)
Mut_ExcessAnyPhase(runs, phase, limit) ==
    {s \in Owned(runs) : Cardinality({u \in Owned(runs) : u > s}) >= limit}

Excess(runs, phase, limit) ==
    LET group == {s \in Owned(runs) : runs[s].phase = phase}
    IN {s \in group : Cardinality({u \in group : u > s}) >= limit}

TooMany(runs, spec) ==
    Excess(runs, "Succeeded", spec.keepSucceeded) \cup Excess(runs, "Failed", spec.keepFailed)

Retained(runs, spec) ==
    [s \in Times |-> IF s \in TooMany(runs, spec) THEN NoRun ELSE runs[s]]

(* Successes are deleted before failures, newer runs before older ones.     *)
FirstToGo(doomed, runs) ==
    CHOOSE s \in doomed : \A u \in doomed :
        \/ runs[s].phase = "Succeeded" /\ runs[u].phase = "Failed"
        \/ runs[s].phase = runs[u].phase /\ u <= s

----------------------------------------------------------------------------
Reasons == {"unset", "InvalidSchedule", "ScheduleInitialized", "ScheduleUpdated", "Suspended",
            "WaitingForSchedule", "MissedDeadline", "OverlapSkipped", "RunCreated"}

StatusType ==
    [runsCreated : 0..MaxRunSuffix, lastRun : {Zero} \cup Times, lastSchedule : {Zero} \cup Times,
     nextSchedule : {Zero} \cup Nat, observedGeneration : Nat, reason : Reasons]

EmptyStatus ==
    [runsCreated |-> 0, lastRun |-> Zero, lastSchedule |-> Zero, nextSchedule |-> Zero,
     observedGeneration |-> 0, reason |-> "unset"]

VARIABLES
    agent,        \* the Agent in the API server: generation, spec and status
    agentCache,   \* the Agent the informer cache holds
    agentEvents,  \* later versions of it, on their way to the cache
    runs,         \* the AgentRuns in the API server, by slot
    runCache,     \* the AgentRuns the informer cache holds
    runEvents,    \* later versions of them, on their way to the cache
    worker,       \* the reconcile in progress
    dirty,        \* is the Agent's key in the work queue?
    timer,        \* when a delayed requeue adds the key (Zero: none waiting)
    clock,
    faults,       \* faults so far
    meddling,     \* runs deleted or created by hand so far
    changedAt,    \* history: when each generation of the spec was written
    made          \* history: the runs created, in order, and the time each reconcile read

caches == <<agentCache, agentEvents, runCache, runEvents>>
queue == <<dirty, timer>>
bounds == <<faults, meddling>>
vars == <<agent, agentCache, agentEvents, runs, runCache, runEvents, worker, dirty, timer,
          clock, faults, meddling, changedAt, made>>

AgentType == [generation : 1..MaxGeneration, spec : Specs, status : StatusType]
MadeType ==
    [slot : Times, seq : 0..MaxRunSuffix, at : Times, generation : 1..MaxGeneration, spec : Specs]
RunsType == [Times -> RunType]

(* A reconcile at work holds the Agent, the runs and the time it read, the  *)
(* runs it has still to delete, those it keeps, and the status to write.    *)
BusyType ==
    [pc : {"prune", "create", "verify", "patch"}, base : AgentType, now : Times, seen : RunsType,
     doomed : SUBSET Times, kept : RunsType, next : StatusType]
Idle == [pc |-> "idle"]

----------------------------------------------------------------------------
(* What a reconcile decides from what it read.                              *)

MergePatch(live, base, next) ==
    [f \in DOMAIN live |-> IF next[f] # base[f] THEN next[f] ELSE live[f]]

Larger(a, b) == IF a >= b THEN a ELSE b

Mut_BaseStatusForgetsCount(base, kept, count) ==
    [base.status EXCEPT
        !.runsCreated = count,
        !.observedGeneration = base.generation,
        !.lastRun = Latest(kept),
        !.lastSchedule = Larger(@, Latest(kept))]

Mut_BaseStatusForgetsRuns(base, kept, count) ==
    [base.status EXCEPT !.observedGeneration = base.generation]

(* What the runs say about the status: a count and a slot that a lost patch *)
(* did not record are recovered from them.                                  *)
ScheduledBaseStatus(base, kept, count) ==
    [base.status EXCEPT
        !.runsCreated = Larger(@, count),
        !.observedGeneration = base.generation,
        !.lastRun = Latest(kept),
        !.lastSchedule = Larger(@, Latest(kept))]

RecoverScheduledRunStatus(next, seq, slot, latestKept) ==
    [next EXCEPT
        !.runsCreated = Larger(@, seq),
        !.lastRun = IF slot >= latestKept THEN slot ELSE @,
        !.lastSchedule = Larger(@, slot)]

(* A new generation, or an Agent never seen, starts from the present.       *)
NeedsAnchor(base) ==
    base.status.observedGeneration # base.generation \/ base.status.nextSchedule = Zero

AnchorReason(base) ==
    IF base.spec.suspend THEN "Suspended"
    ELSE IF base.status.observedGeneration = 0 THEN "ScheduleInitialized"
    ELSE "ScheduleUpdated"

Waiting(w, status, nextSlot, reason) ==
    [w EXCEPT !.pc = "patch",
              !.next = [status EXCEPT !.nextSchedule = nextSlot, !.reason = reason]]

Created(w, status) ==
    [w EXCEPT !.pc = "patch", !.next = [status EXCEPT !.reason = "RunCreated"]]

Mut_OverlapAllowed(spec, kept) == FALSE

OverlapForbidden(spec, kept) == spec.forbid /\ HasActive(kept)

(* The slot the reconcile w looks at, and the status it has so far.         *)
Due(w) == LatestDue(w.base.spec, w.base.status.nextSchedule, w.now)
StatusFor(w, slot) ==
    [ScheduledBaseStatus(w.base, w.kept, MaxCount(w.seen)) EXCEPT !.nextSchedule = slot]

CounterExhausted(status) == status.runsCreated = MaxRunSuffix

(* After pruning: what the reconcile does about the slot that is due.       *)
Decide(w) ==
    LET spec == w.base.spec
        due == Due(w)
        future == NextSlot(spec, w.now)
        Wait(slot, reason) == Waiting(w, StatusFor(w, slot), slot, reason)
    IN IF NeedsAnchor(w.base) THEN Wait(future, AnchorReason(w.base))
       ELSE IF spec.suspend THEN Wait(future, "Suspended")
       ELSE IF due = Zero THEN Wait(w.base.status.nextSchedule, "WaitingForSchedule")
       ELSE IF w.now - due > spec.deadline THEN Wait(NextSlot(spec, due), "MissedDeadline")
       ELSE IF due \in Owned(w.kept)
            THEN Created(w, RecoverScheduledRunStatus(StatusFor(w, NextSlot(spec, due)),
                                                      w.kept[due].seq, due, Latest(w.kept)))
       ELSE IF OverlapForbidden(spec, w.kept) THEN Wait(NextSlot(spec, due), "OverlapSkipped")
       ELSE IF CounterExhausted(StatusFor(w, future)) THEN [w EXCEPT !.pc = "exhausted"]
       ELSE [w EXCEPT !.pc = "create"]

(* The reconcile of the Agent base with the runs seen, at the time now.     *)
Begin(base, seen, now) ==
    LET w == [pc |-> "prune", base |-> base, now |-> now, seen |-> seen,
              doomed |-> TooMany(seen, base.spec), kept |-> Retained(seen, base.spec),
              next |-> EmptyStatus]
    IN IF base.spec.valid THEN w
       ELSE Waiting(w, ScheduledBaseStatus(base, seen, MaxCount(seen)),
                    base.status.nextSchedule, "InvalidSchedule")

----------------------------------------------------------------------------
(* Writes to the API server, the queue, and faults.                         *)

SetAgent(new) ==
    /\ agent' = new
    /\ agentEvents' = IF new = agent THEN agentEvents ELSE Append(agentEvents, new)

SetRun(slot, new) ==
    /\ runs' = [runs EXCEPT ![slot] = new]
    /\ runEvents' = IF new = runs[slot] THEN runEvents ELSE Append(runEvents, runs')

(* The reconcile returns an error, or asks for an immediate requeue. *)
Retry ==
    /\ worker' = Idle
    /\ dirty' = TRUE
    /\ timer' = timer

Mut_FinishNoDelay(requeueAt) == worker' = Idle /\ dirty' = dirty /\ timer' = timer

(* The reconcile ends; the queue keeps the earliest of the delays asked for. *)
Finish(requeueAt) ==
    /\ worker' = Idle
    /\ dirty' = dirty
    /\ timer' = IF requeueAt = Zero \/ (timer # Zero /\ timer <= requeueAt)
                THEN timer ELSE requeueAt

GoOn(next) == worker' = next /\ UNCHANGED queue

Fault ==
    /\ faults < MaxFaults
    /\ faults' = faults + 1
    /\ meddling' = meddling

(* A call that took effect goes on, unless its reply is lost.               *)
Replied(continue) ==
    \/ continue /\ UNCHANGED bounds
    \/ Retry /\ Fault

----------------------------------------------------------------------------
(* The worker.                                                              *)

(* The clock, the Agent and its runs are read at the start. *)
ReconcileScheduled ==
    /\ worker = Idle
    /\ dirty
    /\ Len(agentEvents) <= AgentLag /\ Len(runEvents) <= ListLag
    /\ dirty' = FALSE
    /\ worker' = Begin(agentCache, OwnRuns(runCache), clock)
    /\ UNCHANGED <<agent, runs, caches, timer, clock, bounds, changedAt, made>>

(* A run that is already gone is not an error. *)
PruneRun ==
    /\ worker.pc = "prune" /\ worker.doomed # {}
    /\ LET slot == FirstToGo(worker.doomed, worker.seen) IN
       /\ SetRun(slot, NoRun)
       /\ Replied(GoOn([worker EXCEPT !.doomed = @ \ {slot}]))
    /\ UNCHANGED <<agent, agentCache, agentEvents, runCache, clock, changedAt, made>>

(* The run counter may be exhausted, which is an error. *)
DecideSlot ==
    /\ worker.pc = "prune" /\ worker.doomed = {}
    /\ LET next == Decide(worker) IN IF next.pc = "exhausted" THEN Retry ELSE GoOn(next)
    /\ UNCHANGED <<agent, runs, caches, clock, bounds, changedAt, made>>

CreateRun ==
    /\ worker.pc = "create"
    /\ LET due == Due(worker)
           status == StatusFor(worker, NextSlot(worker.base.spec, due))
           seq == status.runsCreated + 1
       IN IF runs[due] # NoRun
          THEN /\ GoOn([worker EXCEPT !.pc = "verify"])
               /\ UNCHANGED <<runs, runEvents, bounds, made>>
          ELSE /\ SetRun(due, NewRun("agent", seq))
               /\ made' = Append(made, [slot |-> due, seq |-> seq, at |-> worker.now,
                                        generation |-> worker.base.generation,
                                        spec |-> worker.base.spec])
               /\ Replied(GoOn(Created(worker,
                     [status EXCEPT !.runsCreated = seq, !.lastRun = due, !.lastSchedule = due])))
    /\ UNCHANGED <<agent, agentCache, agentEvents, runCache, clock, changedAt>>

(* The run that has the name already is read from the API server: if it is  *)
(* the Agent's the slot is done; if it is gone, or another's, try again.    *)
VerifyScheduledRun ==
    /\ worker.pc = "verify"
    /\ LET due == Due(worker)
           status == StatusFor(worker, NextSlot(worker.base.spec, due))
           found == RecoverScheduledRunStatus(status, runs[due].seq, due, Latest(worker.kept))
       IN IF due \in Owned(runs)
          THEN GoOn(Created(worker,
                    [found EXCEPT !.runsCreated = Larger(@, status.runsCreated + 1)]))
          ELSE Retry
    /\ UNCHANGED <<agent, runs, caches, clock, bounds, changedAt, made>>

SetAgentStatus ==
    /\ worker.pc = "patch"
    /\ SetAgent([agent EXCEPT !.status =
                    MergePatch(agent.status, worker.base.status, worker.next)])
    /\ Replied(Finish(IF worker.base.spec.valid /\ ~worker.base.spec.suspend
                      THEN worker.next.nextSchedule ELSE Zero))
    /\ UNCHANGED <<runs, agentCache, runCache, runEvents, clock, changedAt, made>>

----------------------------------------------------------------------------
(* Events, timers and faults of the controller.                             *)

DeliverAgentEvent ==
    /\ agentEvents # <<>>
    /\ agentCache' = Head(agentEvents)
    /\ agentEvents' = Tail(agentEvents)
    /\ dirty' = TRUE
    /\ UNCHANGED <<agent, runs, runCache, runEvents, worker, timer, clock, bounds,
                   changedAt, made>>

(* Owns(&AgentRun): only the Agent's runs wake it up. *)
DeliverRunEvent ==
    /\ runEvents # <<>>
    /\ runCache' = Head(runEvents)
    /\ runEvents' = Tail(runEvents)
    /\ dirty' = (dirty \/ \E s \in Owned(runCache) \cup Owned(runCache') :
                              runCache'[s] # runCache[s])
    /\ UNCHANGED <<agent, runs, agentCache, agentEvents, worker, timer, clock, bounds,
                   changedAt, made>>

RequeueAfter ==
    /\ timer # Zero
    /\ timer <= clock
    /\ dirty' = TRUE
    /\ timer' = Zero
    /\ UNCHANGED <<agent, runs, caches, worker, clock, bounds, changedAt, made>>

ApiCallFails ==
    /\ worker # Idle
    /\ Retry
    /\ Fault
    /\ UNCHANGED <<agent, runs, caches, clock, changedAt, made>>

(* The controller restarts, or another replica takes the lead. *)
Crash ==
    /\ Fault
    /\ worker' = Idle
    /\ agentCache' = agent /\ agentEvents' = <<>>
    /\ runCache' = runs /\ runEvents' = <<>>
    /\ dirty' = TRUE
    /\ timer' = Zero
    /\ UNCHANGED <<agent, runs, clock, changedAt, made>>

----------------------------------------------------------------------------
(* The surroundings (external).                                             *)

RunAction(slot, new) ==
    /\ SetRun(slot, new)
    /\ UNCHANGED <<agent, agentCache, agentEvents, runCache, worker, queue, clock,
                   changedAt, made>>

RunEnds(slot) ==
    /\ slot \in Owned(runs) /\ runs[slot].phase = "active"
    /\ \E phase \in {"Succeeded", "Failed"} : RunAction(slot, [runs[slot] EXCEPT !.phase = phase])
    /\ UNCHANGED bounds

Meddle == meddling < MaxMeddling /\ meddling' = meddling + 1 /\ faults' = faults

UserDeletesRun(slot) ==
    /\ Meddle
    /\ runs[slot] # NoRun
    /\ RunAction(slot, NoRun)

StrangerCreatesRun(slot) ==
    /\ Meddle
    /\ runs[slot] = NoRun
    /\ RunAction(slot, NewRun("stranger", 0))

UserUpdatesSpec ==
    /\ agent.generation < MaxGeneration
    /\ \E spec \in Specs \ {agent.spec} :
         SetAgent([agent EXCEPT !.generation = @ + 1, !.spec = spec])
    /\ changedAt' = [changedAt EXCEPT ![agent.generation + 1] = clock]
    /\ UNCHANGED <<runs, agentCache, runCache, runEvents, worker, queue, clock, bounds, made>>

Tick ==
    /\ clock < MaxTime
    /\ clock' = clock + 1
    /\ UNCHANGED <<agent, runs, caches, worker, queue, bounds, changedAt, made>>

----------------------------------------------------------------------------
(* An Agent has just been created and the caches have synced. *)
Init ==
    /\ \E spec \in Specs : agent = [generation |-> 1, spec |-> spec, status |-> EmptyStatus]
    /\ runs = NoRuns
    /\ agentCache = agent /\ agentEvents = <<>>
    /\ runCache = runs /\ runEvents = <<>>
    /\ worker = Idle /\ dirty = TRUE /\ timer = Zero
    /\ clock = 0 /\ faults = 0 /\ meddling = 0
    /\ changedAt = [g \in 1..MaxGeneration |-> 0]
    /\ made = <<>>

WorkerStep ==
    \/ ReconcileScheduled \/ PruneRun \/ DecideSlot
    \/ CreateRun \/ VerifyScheduledRun \/ SetAgentStatus

QueueStep == DeliverAgentEvent \/ DeliverRunEvent \/ RequeueAfter
RunStep(slot) == RunEnds(slot) \/ UserDeletesRun(slot) \/ StrangerCreatesRun(slot)

Next ==
    \/ WorkerStep \/ QueueStep
    \/ ApiCallFails \/ Crash
    \/ \E slot \in Times : RunStep(slot)
    \/ UserUpdatesSpec \/ Tick

Spec == Init /\ [][Next]_vars

(* Workers, watch streams and the clock keep going. *)
Fairness ==
    /\ WF_vars(WorkerStep)
    /\ WF_vars(DeliverAgentEvent) /\ WF_vars(DeliverRunEvent) /\ WF_vars(RequeueAfter)
    /\ WF_vars(Tick)

FairSpec == Spec /\ Fairness

----------------------------------------------------------------------------
(* Properties.                                                              *)

(* Every variable has its type. *)
TypeOK ==
    /\ agent \in AgentType /\ agentCache \in AgentType /\ agentEvents \in Seq(AgentType)
    /\ runs \in RunsType /\ runCache \in RunsType /\ runEvents \in Seq(RunsType)
    /\ worker = Idle \/ worker \in BusyType
    /\ dirty \in BOOLEAN /\ timer \in {Zero} \cup Nat /\ clock \in Times
    /\ faults \in 0..MaxFaults /\ meddling \in 0..MaxMeddling
    /\ changedAt \in [1..MaxGeneration -> Times]
    /\ made \in Seq(MadeType)

(* However late a reconcile comes, it mints one run for all the slots it missed:     *)
(* every later run is for a slot that was still to come when it looked at the clock. *)
(* The same slot is only minted twice if its run is gone by then: because somebody   *)
(* deleted it, or because the history limit is 0 and the pruning that comes first    *)
(* removes a run that ended before it was recorded.  Nor is a run made for a slot    *)
(* from before its spec was written: changing the spec moves the anchor to the       *)
(* present.                                                                          *)
KeepsHistory(spec) == spec.keepSucceeded > 0 /\ spec.keepFailed > 0

NeverBackfills ==
    /\ meddling = 0 =>
          \A i, j \in DOMAIN made :
              i < j => \/ made[j].slot > made[i].at
                       \/ made[j].slot = made[i].slot /\ ~KeepsHistory(made[j].spec)
    /\ \A i \in DOMAIN made : made[i].slot > changedAt[made[i].generation]

(* Under Forbid no run is created while a run of the Agent is active. *)
ForbidMeansNoOverlap ==
    [][Len(made') > Len(made) /\ worker.base.spec.forbid => ~HasActive(runs)]_made

(* The creation count and the last slot in the status never go back, although each   *)
(* is recomputed from whatever runs are left.                                        *)
ProgressIsKept ==
    [][/\ agent'.status.runsCreated >= agent.status.runsCreated
       /\ agent'.status.lastSchedule >= agent.status.lastSchedule]_agent

(* Pruning never removes a run that is active, and leaves the newest runs of each    *)
(* outcome up to its limit.                                                          *)
PruningIsSafe ==
    [][\A s \in Owned(runs) : runs'[s] = NoRun /\ meddling' = 0 =>
          LET newer == {u \in Owned(runs) : u > s /\ runs[u].phase = runs[s].phase}
              limit == IF runs[s].phase = "Succeeded" THEN worker.base.spec.keepSucceeded
                       ELSE worker.base.spec.keepFailed
          IN runs[s].phase # "active" /\ Cardinality(newer) >= limit]_runs

(* A slot that has come and was not dealt with. *)
Overdue ==
    /\ agent.spec.valid /\ ~agent.spec.suspend
    /\ agent.status.nextSchedule \in 0..clock

OutOfNumbers == \E i \in DOMAIN made : made[i].seq = MaxRunSuffix

(* No slot stays undealt with: nothing but a delayed requeue looks at the clock, and *)
(* a failed or interrupted reconcile comes back.  (A stranger's run of the same name *)
(* does hold up the schedule, and so does a counter at its limit.)                   *)
ScheduleMovesOn == []<>(~Overdue \/ meddling > 0 \/ OutOfNumbers)

(* Every run is recorded in the status in the end, also when the patch after its     *)
(* creation is lost and its starting deadline passes before the retry, unless        *)
(* somebody, or pruning to a limit of 0, deletes it first.                           *)
RunsAreRecorded ==
    []<>(\/ meddling > 0 \/ OutOfNumbers \/ ~KeepsHistory(agent.spec)
         \/ \A i \in DOMAIN made : /\ agent.status.lastSchedule >= made[i].slot
                                   /\ agent.status.runsCreated >= made[i].seq)
=============================================================================
