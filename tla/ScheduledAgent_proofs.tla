----------------------- MODULE ScheduledAgent_proofs -----------------------
(***************************************************************************)
(* Proofs about the Scheduled Agent's controller, for every set of specs,  *)
(* every clock, and any number of faults and interventions.  The state is  *)
(* well typed whatever the caches miss; the promises about the status need *)
(* an Agent that is read as it is (AgentLag = 0), those about the runs a   *)
(* list that is complete (ListLag = 0), and NeverBackfills needs both.     *)
(***************************************************************************)
EXTENDS ScheduledAgent, FiniteSetTheorems, WellFoundedInduction, TLAPS

----------------------------------------------------------------------------
(* The inductive invariant, whatever the caches miss.                      *)

(* The caches lag behind the API server by the events on their way.        *)
CacheInv ==
    /\ agentEvents = <<>> => agentCache = agent
    /\ agentEvents # <<>> => agentEvents[Len(agentEvents)] = agent
    /\ runEvents = <<>> => runCache = runs
    /\ runEvents # <<>> => runEvents[Len(runEvents)] = runs

(* No run of the Agent is there before its slot has come.                  *)
Past(rs, now) == \A s \in Owned(rs) : s <= now

PastInv ==
    /\ Past(runs, clock) /\ Past(runCache, clock)
    /\ \A i \in DOMAIN runEvents : Past(runEvents[i], clock)
    /\ \A i \in DOMAIN made : made[i].slot <= made[i].at /\ made[i].at <= clock
    /\ worker # Idle => Past(worker.seen, worker.now) /\ worker.now <= clock

(* A schedule that is followed waits for a slot after the last one done.   *)
Current(a) == a.status.observedGeneration = a.generation /\ a.spec.valid
Ahead(a) == Current(a) => a.status.lastSchedule < a.status.nextSchedule

Before == {"prune", "create", "verify"}

(* A reconcile that has not written anything works on what it has read.    *)
PlanOK(w) ==
    /\ w.base.spec.valid /\ w.kept = Retained(w.seen, w.base.spec)
    /\ w.doomed \subseteq TooMany(w.seen, w.base.spec)

(* One that is about to create a run has found a slot and a number for it. *)
ChoiceOK(w) ==
    /\ ~NeedsAnchor(w.base) /\ Due(w) # Zero /\ ~OverlapForbidden(w.base.spec, w.kept)
    /\ ~CounterExhausted(StatusFor(w, w.now))

(* The status it is about to write leaves what is past behind.             *)
PatchOK(w) ==
    /\ w.next.observedGeneration = w.base.generation
    /\ w.next.runsCreated >= w.base.status.runsCreated
    /\ Ahead(w.base) => w.next.lastSchedule >= w.base.status.lastSchedule
    /\ w.base.status.lastSchedule <= w.now => w.next.lastSchedule <= w.now
    /\ w.base.spec.valid => w.next.nextSchedule > w.now

WorkOK(w) ==
    /\ w.pc \in Before => PlanOK(w)
    /\ w.pc \in {"create", "verify"} => ChoiceOK(w)
    /\ w.pc = "patch" => PatchOK(w)

WorkInv == worker # Idle => WorkOK(worker)

Inv == TypeOK /\ CacheInv /\ PastInv /\ WorkInv

----------------------------------------------------------------------------
(* When the Agent is read as it is.                                        *)

(* A schedule that is followed waits for a slot after its spec was written. *)
Anchored(a, changed) == Current(a) => a.status.nextSchedule > changed[a.generation]

AgentOK(a, changed, now) ==
    /\ Ahead(a) /\ Anchored(a, changed) /\ a.status.lastSchedule <= now
    /\ a.status.observedGeneration <= a.generation

(* The worker alone writes the status; the spec may change under its feet. *)
AgentInv ==
    /\ AgentOK(agent, changedAt, clock)
    /\ \A g \in 1..MaxGeneration : changedAt[g] <= clock
    /\ \A i \in DOMAIN made : /\ made[i].slot > changedAt[made[i].generation]
                              /\ made[i].generation <= agent.generation
    /\ worker # Idle =>
          /\ worker.base.status = agent.status /\ worker.base.generation <= agent.generation
          /\ worker.base.generation = agent.generation => worker.base.spec = agent.spec
          /\ AgentOK(worker.base, changedAt, worker.now)
          /\ changedAt[worker.base.generation] <= worker.now

----------------------------------------------------------------------------
(* When the list of runs is complete.                                      *)

(* Until the reconcile creates a run, runs only end, or disappear.         *)
SeenInv ==
    worker # Idle /\ worker.pc \in Before =>
        /\ \A s \in Owned(runs) : runs[s].phase = "active" =>
              s \in Owned(worker.seen) /\ worker.seen[s].phase = "active"
        /\ meddling = 0 =>
              /\ \A s \in Owned(runs) :
                    s \in Owned(worker.seen) /\ (worker.seen[s].phase = "active"
                                                 \/ runs[s] = worker.seen[s])
              /\ \A s \in Owned(worker.seen) \ TooMany(worker.seen, worker.base.spec) :
                    worker.seen[s].phase # "active" => runs[s] = worker.seen[s]

----------------------------------------------------------------------------
(* The history of the runs made, when nothing is missed.                   *)

(* The status waits for a slot after the run m was made, or is to be       *)
(* anchored anew, or does not know of m yet and would find its slot again. *)
Unrecorded(a, m) ==
    /\ m.generation = a.generation /\ a.status.observedGeneration = a.generation
    /\ m.spec = a.spec /\ a.status.nextSchedule # Zero
    /\ m.slot = LatestDue(m.spec, a.status.nextSchedule, m.at)
Superseded(a, m) == m.generation < a.generation /\ ~Current(a)
Accounted(a, m) == a.status.nextSchedule > m.at \/ Superseded(a, m) \/ Unrecorded(a, m)

(* The last run made is still there to be found if history is kept.        *)
LastKept(a) ==
    meddling = 0 /\ made # <<>> /\ Unrecorded(a, made[Len(made)])
    /\ KeepsHistory(made[Len(made)].spec) => runs[made[Len(made)].slot].owner = "agent"

Reaches(a) == (\A i \in DOMAIN made : Accounted(a, made[i])) /\ LastKept(a)

MadeInv ==
    /\ \A i, j \in DOMAIN made : i < j => made[i].at <= made[j].at
    /\ \A i \in DOMAIN made :
          made[i].spec.valid /\ (made[i].generation = agent.generation => made[i].spec = agent.spec)
    /\ \A s \in Owned(runs) : \E i \in DOMAIN made : made[i].slot = s
    /\ meddling = 0 =>
          \A i, j \in DOMAIN made :
              i < j => \/ made[j].slot > made[i].at
                       \/ made[j].slot = made[i].slot /\ ~KeepsHistory(made[j].spec)
    /\ Reaches(agent)
    /\ worker # Idle =>
          /\ \A i \in DOMAIN made : /\ made[i].at <= worker.now
                                    /\ made[i].generation <= worker.base.generation
          /\ worker.pc \in Before =>
                /\ Reaches(worker.base)
                /\ \A s \in Owned(worker.seen) : \E i \in DOMAIN made : made[i].slot = s

----------------------------------------------------------------------------
(* Slots and runs.                                                         *)

(* Every set of naturals has a least element. *)
LEMMA LeastNatural ==
    ASSUME NEW T, T \subseteq Nat, T # {}
    PROVE  \E m \in T : \A n \in T : m <= n
<1>1. IsWellFoundedOn(OpToRel(<, Nat), Nat)
  BY NatLessThanWellFounded
<1>2. PICK m \in T : \A n \in T : ~(<<n, m>> \in OpToRel(<, Nat))
  BY <1>1, WFMin
<1>3. \A n \in T : ~(n < m)
  BY <1>2 DEF OpToRel
<1> QED
  BY <1>3

(* A bounded one has a largest element too. *)
LEMMA LargestExists ==
    ASSUME NEW S, S \subseteq Nat, S # {}, NEW n \in Nat, \A u \in S : u <= n
    PROVE  \E s \in S : \A u \in S : u <= s
<1> DEFINE limits == {k \in Nat : \A u \in S : u <= k}
<1>1. n \in limits
  OBVIOUS
<1>2. PICK m \in limits : \A k \in limits : m <= k
  BY <1>1, LeastNatural
<1>3. ASSUME m \notin S
      PROVE  FALSE
  <2>1. \A u \in S : u \in Nat /\ u <= m - 1
    BY <1>2, <1>3
  <2>2. m - 1 \in Nat
    <3>1. PICK u \in S : u \in Nat /\ u <= m - 1
      BY <2>1
    <3> QED
      BY <3>1
  <2>3. m - 1 \in limits
    BY <2>1, <2>2
  <2> QED
    BY <1>2, <2>2, <2>3
<1> QED
  BY <1>2, <1>3

(* What is left of a queue. *)
LEMMA TailIs ==
    ASSUME NEW S, NEW q \in Seq(S), q # <<>>
    PROVE  /\ Head(q) \in S /\ Tail(q) \in Seq(S)
           /\ Tail(q) = <<>> => Head(q) = q[Len(q)]
           /\ Tail(q) # <<>> => Tail(q)[Len(Tail(q))] = q[Len(q)]
<1>1. PICK n \in Nat \ {0} : n = Len(q)
  OBVIOUS
<1>2. /\ Head(q) \in S /\ Tail(q) \in Seq(S) /\ Len(Tail(q)) = n - 1
      /\ Head(q) = q[1] /\ \A i \in 1..(n - 1) : Tail(q)[i] = q[i + 1]
  BY <1>1
<1>3. PICK t : t = Tail(q)
  OBVIOUS
<1>4. t \in Seq(S) /\ Len(t) = n - 1
  BY <1>2, <1>3
<1>5. t = <<>> => n = 1
  <2>1. t = <<>> => Len(t) = 0
    OBVIOUS
  <2> QED
    BY <1>4, <2>1
<1>6. t # <<>> => n - 1 \in 1..(n - 1)
  <2>1. t # <<>> => Len(t) # 0 /\ Len(t) \in Nat
    BY <1>4
  <2> QED
    BY <1>4, <2>1
<1> QED
  BY <1>1, <1>2, <1>3, <1>4, <1>5, <1>6

(* A spec that is valid has a next slot at any time. *)
LEMMA NextSlotIs ==
    ASSUME NEW spec \in Specs, NEW t \in Times
    PROVE  /\ NextSlot(spec, t) \in spec.slots /\ NextSlot(spec, t) \in Nat
           /\ NextSlot(spec, t) > t
           /\ \A u \in spec.slots : u > t => NextSlot(spec, t) <= u
<1>1. \E s \in spec.slots : s > t /\ \A u \in spec.slots : u > t => s <= u
  BY SpecsAssumption
<1>2. spec.slots \subseteq Nat
  BY SpecsAssumption
<1> QED
  BY <1>1, <1>2 DEF NextSlot

(* Times are numbers. *)
LEMMA TimesAre == Times \subseteq Nat /\ \A t \in Times : \A u \in Nat : u <= t => u \in Times
BY BoundsAssumption DEF Times

(* The slot that is due is the last that has come since the first one      *)
(* waited for.                                                             *)
LEMMA LatestDueIs ==
    ASSUME NEW spec \in Specs, NEW first \in Nat, NEW now \in Times
    PROVE  /\ first > now => LatestDue(spec, first, now) = Zero
           /\ first <= now =>
                 /\ LatestDue(spec, first, now) \in Times
                 /\ first <= LatestDue(spec, first, now)
                 /\ LatestDue(spec, first, now) <= now
                 /\ LatestDue(spec, first, now) \in {first} \cup spec.slots
                 /\ \A u \in {first} \cup spec.slots :
                       first <= u /\ u <= now => u <= LatestDue(spec, first, now)
<1>0. now \in Nat /\ spec.slots \subseteq Nat
  BY TimesAre, SpecsAssumption
<1>1. ASSUME first <= now
      PROVE  /\ LatestDue(spec, first, now) \in DueSlots(spec, first, now)
             /\ \A u \in DueSlots(spec, first, now) : u <= LatestDue(spec, first, now)
  <2>1. /\ DueSlots(spec, first, now) \subseteq Nat /\ first \in DueSlots(spec, first, now)
        /\ \A u \in DueSlots(spec, first, now) : u <= now
    BY <1>0, <1>1 DEF DueSlots
  <2>2. \E s \in DueSlots(spec, first, now) : \A u \in DueSlots(spec, first, now) : u <= s
    BY <1>0, <2>1, LargestExists
  <2>3. LatestDue(spec, first, now)
          = CHOOSE s \in DueSlots(spec, first, now) : \A u \in DueSlots(spec, first, now) : u <= s
    BY <1>0, <1>1 DEF LatestDue
  <2> QED
    BY <2>2, <2>3
<1>2. first > now => LatestDue(spec, first, now) = Zero
  BY DEF LatestDue
<1>3. ASSUME first <= now
      PROVE  /\ LatestDue(spec, first, now) \in {first} \cup spec.slots
             /\ first <= LatestDue(spec, first, now) /\ LatestDue(spec, first, now) <= now
             /\ \A u \in {first} \cup spec.slots :
                   first <= u /\ u <= now => u <= LatestDue(spec, first, now)
  BY <1>1, <1>3 DEF DueSlots
<1>4. ASSUME first <= now
      PROVE  LatestDue(spec, first, now) \in Times
  <2>1. LatestDue(spec, first, now) \in Nat
    BY <1>0, <1>3, <1>4
  <2> QED
    BY <1>3, <1>4, <2>1, TimesAre
<1> QED
  BY <1>2, <1>3, <1>4

(* The slot after it is still to come. *)
LEMMA AfterDue ==
    ASSUME NEW spec \in Specs, NEW first \in Nat, NEW now \in Times, first <= now
    PROVE  NextSlot(spec, LatestDue(spec, first, now)) > now
<1>1. PICK d \in Times : d = LatestDue(spec, first, now)
  BY LatestDueIs
<1>2. first <= d /\ \A u \in spec.slots : first <= u /\ u <= now => u <= d
  BY <1>1, LatestDueIs
<1>3. NextSlot(spec, d) \in spec.slots /\ NextSlot(spec, d) \in Nat /\ NextSlot(spec, d) > d
  BY NextSlotIs
<1>4. now \in Nat /\ d \in Nat
  BY TimesAre
<1> QED
  BY <1>1, <1>2, <1>3, <1>4

(* A reconcile that looks later finds the same slot, or one that came after *)
(* the earlier look.                                                       *)
LEMMA LaterDue ==
    ASSUME NEW spec \in Specs, NEW first \in Nat, NEW t \in Times, NEW now \in Times,
           first <= t, t <= now
    PROVE  \/ LatestDue(spec, first, now) = LatestDue(spec, first, t)
           \/ LatestDue(spec, first, now) > t
<1>0. t \in Nat /\ now \in Nat /\ first <= now
  BY TimesAre
<1>1. PICK d \in Times : d = LatestDue(spec, first, t)
  BY LatestDueIs
<1>2. PICK e \in Times : e = LatestDue(spec, first, now)
  BY <1>0, LatestDueIs
<1>3. /\ first <= d /\ d <= t /\ d \in {first} \cup spec.slots
      /\ \A u \in {first} \cup spec.slots : first <= u /\ u <= t => u <= d
  BY <1>1, LatestDueIs
<1>4. /\ first <= e /\ e <= now /\ e \in {first} \cup spec.slots
      /\ \A u \in {first} \cup spec.slots : first <= u /\ u <= now => u <= e
  BY <1>0, <1>2, LatestDueIs
<1>5. d \in Nat /\ e \in Nat
  BY TimesAre
<1>6. d <= e
  BY <1>0, <1>3, <1>4, <1>5
<1>7. e <= t => e <= d
  BY <1>3, <1>4, <1>5
<1> QED
  BY <1>0, <1>1, <1>2, <1>5, <1>6, <1>7

(* The newest of the Agent's runs. *)
LEMMA LatestIs ==
    ASSUME NEW rs \in RunsType
    PROVE  /\ Owned(rs) = {} => Latest(rs) = Zero
           /\ Owned(rs) # {} => Latest(rs) \in Owned(rs) /\ \A u \in Owned(rs) : u <= Latest(rs)
           /\ Latest(rs) \in {Zero} \cup Times
           /\ \A now \in Nat : Past(rs, now) => Latest(rs) <= now
<1>1. Owned(rs) \subseteq Times
  BY DEF Owned
<1>2. ASSUME Owned(rs) # {}
      PROVE  \E s \in Owned(rs) : \A u \in Owned(rs) : u <= s
  <2>1. Owned(rs) \subseteq Nat /\ \A u \in Owned(rs) : u <= MaxTime
    BY <1>1, TimesAre DEF Times
  <2> QED
    BY <1>2, <2>1, LargestExists, BoundsAssumption
<1>3. /\ Owned(rs) = {} => Latest(rs) = Zero
      /\ Owned(rs) # {} => Latest(rs) \in Owned(rs) /\ \A u \in Owned(rs) : u <= Latest(rs)
  BY <1>2 DEF Latest
<1>4. \A now \in Nat : Zero <= now
  BY DEF Zero
<1> QED
  BY <1>1, <1>3, <1>4 DEF Past

(* The largest of their numbers. *)
LEMMA MaxCountIs ==
    ASSUME NEW rs \in RunsType
    PROVE  MaxCount(rs) \in 0..MaxRunSuffix
<1>1. CASE Owned(rs) = {}
  BY <1>1, BoundsAssumption DEF MaxCount
<1>2. CASE Owned(rs) # {}
  <2> DEFINE counts == {rs[s].seq : s \in Owned(rs)}
  <2>1. counts \subseteq 0..MaxRunSuffix /\ counts # {}
    BY <1>2 DEF Owned, RunsType, RunType
  <2>2. counts \subseteq Nat /\ \A u \in counts : u <= MaxRunSuffix
    BY <2>1, BoundsAssumption
  <2> HIDE DEF counts
  <2>3. \E c \in counts : \A d \in counts : d <= c
    BY <2>1, <2>2, LargestExists, BoundsAssumption
  <2>4. MaxCount(rs) = CHOOSE c \in counts : \A d \in counts : d <= c
    BY <1>2 DEF MaxCount, counts
  <2> QED
    BY <2>1, <2>3, <2>4
<1> QED
  BY <1>1, <1>2

(* No run. *)
LEMMA NoRunIs == NoRun \in RunType /\ NoRun.owner = "nobody"
BY BoundsAssumption DEF NoRun, RunType

(* A new run. *)
LEMMA NewRunIs ==
    ASSUME NEW owner \in {"agent", "stranger"}, NEW seq \in 0..MaxRunSuffix
    PROVE  NewRun(owner, seq) \in RunType /\ NewRun(owner, seq).owner = owner
BY DEF NewRun, RunType

(* The runs a list of the Agent's own runs returns. *)
LEMMA OwnRunsIs ==
    ASSUME NEW rs \in RunsType
    PROVE  /\ OwnRuns(rs) \in RunsType /\ Owned(OwnRuns(rs)) = Owned(rs)
           /\ \A s \in Owned(rs) : OwnRuns(rs)[s] = rs[s]
<1>1. \A s \in Times : OwnRuns(rs)[s] = IF s \in Owned(rs) THEN rs[s] ELSE NoRun
  BY DEF OwnRuns
<1>2. OwnRuns(rs) \in RunsType
  BY NoRunIs DEF OwnRuns, RunsType
<1> QED
  BY <1>1, <1>2, NoRunIs DEF Owned

(* Only runs that have ended are pruned; the others are kept as they are.  *)
LEMMA RetainedIs ==
    ASSUME NEW rs \in RunsType, NEW spec \in Specs
    PROVE  /\ TooMany(rs, spec) \subseteq Owned(rs)
           /\ \A s \in TooMany(rs, spec) : rs[s].phase # "active"
           /\ Retained(rs, spec) \in RunsType
           /\ Owned(Retained(rs, spec)) = Owned(rs) \ TooMany(rs, spec)
           /\ \A s \in Times \ TooMany(rs, spec) : Retained(rs, spec)[s] = rs[s]
           /\ \A now : Past(rs, now) => Past(Retained(rs, spec), now)
<1>1. /\ TooMany(rs, spec) \subseteq Owned(rs)
      /\ \A s \in TooMany(rs, spec) : rs[s].phase # "active"
  BY DEF TooMany, Excess
<1>2. Retained(rs, spec) \in RunsType
  BY NoRunIs DEF Retained, RunsType
<1>3. \A s \in Times : Retained(rs, spec)[s] = IF s \in TooMany(rs, spec) THEN NoRun ELSE rs[s]
  BY DEF Retained
<1>4. Owned(Retained(rs, spec)) = Owned(rs) \ TooMany(rs, spec)
  BY <1>1, <1>3, NoRunIs DEF Owned
<1> QED
  BY <1>1, <1>2, <1>3, <1>4 DEF Past

----------------------------------------------------------------------------
(* Statuses, and what a reconcile decides.                                 *)

(* The fields of a status. *)
LEMMA StatusFields ==
    ASSUME NEW s \in StatusType
    PROVE  /\ s.runsCreated \in 0..MaxRunSuffix /\ s.runsCreated \in Int
           /\ s.lastSchedule \in {Zero} \cup Times /\ s.lastSchedule \in Int
           /\ s.nextSchedule \in {Zero} \cup Nat /\ s.nextSchedule \in Int
           /\ s.observedGeneration \in Nat /\ s.lastRun \in {Zero} \cup Times
<1>1. /\ s.runsCreated \in 0..MaxRunSuffix /\ s.observedGeneration \in Nat
      /\ s.lastSchedule \in {Zero} \cup Times /\ s.nextSchedule \in {Zero} \cup Nat
      /\ s.lastRun \in {Zero} \cup Times
  BY DEF StatusType
<1>2. Times \subseteq Int /\ Nat \subseteq Int /\ Zero \in Int
  BY TimesAre DEF Zero
<1>3. s.runsCreated \in Int
  BY <1>1
<1> QED
  BY <1>1, <1>2, <1>3

(* The parts of an Agent. *)
LEMMA AgentFields ==
    ASSUME NEW a \in AgentType
    PROVE  /\ a.spec \in Specs /\ a.status \in StatusType /\ a.generation \in 1..MaxGeneration
           /\ a.generation \in Nat \ {0}
<1>1. a.spec \in Specs /\ a.status \in StatusType /\ a.generation \in 1..MaxGeneration
  BY DEF AgentType
<1> QED
  BY <1>1, BoundsAssumption

(* The parts of a reconcile. *)
LEMMA BusyFields ==
    ASSUME NEW w \in BusyType
    PROVE  /\ w.base \in AgentType /\ w.now \in Times /\ w.now \in Nat /\ w.seen \in RunsType
           /\ w.kept \in RunsType /\ w.next \in StatusType /\ w # Idle
           /\ w.pc \in {"prune", "create", "verify", "patch"}
<1>1. /\ w.base \in AgentType /\ w.now \in Times /\ w.seen \in RunsType
      /\ w.kept \in RunsType /\ w.next \in StatusType
      /\ w.pc \in {"prune", "create", "verify", "patch"}
  BY DEF BusyType
<1>2. w # Idle
  BY <1>1 DEF Idle
<1>3. w.now \in Nat
  BY <1>1, TimesAre
<1> QED
  BY <1>1, <1>2, <1>3

(* The parts of what is on record about the runs made. *)
LEMMA MadeFields ==
    ASSUME NEW q \in Seq(MadeType), NEW i \in DOMAIN q
    PROVE  /\ q[i] \in MadeType /\ q[i].slot \in Times /\ q[i].slot \in Nat
           /\ q[i].at \in Times /\ q[i].at \in Nat
           /\ q[i].generation \in 1..MaxGeneration /\ q[i].generation \in Nat
           /\ q[i].spec \in Specs
<1>1. q[i] \in MadeType
  OBVIOUS
<1>2. PICK m \in MadeType : m = q[i]
  BY <1>1
<1>3. /\ m.slot \in Times /\ m.at \in Times /\ m.generation \in 1..MaxGeneration
      /\ m.spec \in Specs
  BY DEF MadeType
<1>4. m.slot \in Nat /\ m.at \in Nat
  BY <1>3, TimesAre
<1>5. m.generation \in Nat
  BY <1>3, BoundsAssumption
<1> QED
  BY <1>2, <1>3, <1>4, <1>5

(* Statuses are merged field by field. *)
LEMMA MergePatchType ==
    ASSUME NEW live \in StatusType, NEW base \in StatusType, NEW next \in StatusType
    PROVE  MergePatch(live, base, next) \in StatusType
BY DEF MergePatch, StatusType

(* A patch on the status it was computed from makes it the one computed. *)
LEMMA MergePatchOnBase ==
    ASSUME NEW base \in StatusType, NEW next \in StatusType
    PROVE  MergePatch(base, base, next) = next
BY DEF MergePatch, StatusType

(* What the runs say about the status. *)
LEMMA BaseStatusIs ==
    ASSUME NEW base \in AgentType, NEW kept \in RunsType, NEW count \in 0..MaxRunSuffix
    PROVE  \E st \in StatusType :
              /\ st = ScheduledBaseStatus(base, kept, count)
              /\ st.runsCreated = Larger(base.status.runsCreated, count)
              /\ st.runsCreated >= base.status.runsCreated
              /\ st.observedGeneration = base.generation
              /\ st.nextSchedule = base.status.nextSchedule
              /\ st.lastSchedule >= base.status.lastSchedule
              /\ \A now \in Nat : Past(kept, now) /\ base.status.lastSchedule <= now =>
                    st.lastSchedule <= now
<1>1. PICK b \in StatusType : b = base.status
  BY AgentFields
<1>2. PICK l \in {Zero} \cup Times :
          l = Latest(kept) /\ \A now \in Nat : Past(kept, now) => l <= now
  BY LatestIs
<1>3. PICK sched \in {Zero} \cup Times :
          /\ sched = Larger(b.lastSchedule, l) /\ sched >= b.lastSchedule
          /\ \A now \in Nat : b.lastSchedule <= now /\ l <= now => sched <= now
  <2>1. b.lastSchedule \in {Zero} \cup Times /\ b.lastSchedule \in Int
    BY StatusFields
  <2>2. l \in Int
    BY <1>2, TimesAre DEF Zero
  <2> QED
    BY <1>2, <2>1, <2>2 DEF Larger
<1>4. PICK n \in 0..MaxRunSuffix : n = Larger(b.runsCreated, count) /\ n >= b.runsCreated
  <2>1. b.runsCreated \in 0..MaxRunSuffix
    BY StatusFields
  <2> QED
    BY <2>1, BoundsAssumption DEF Larger
<1>5. PICK g \in Nat : g = base.generation
  BY AgentFields
<1>6. PICK st : st = [b EXCEPT !.runsCreated = n, !.observedGeneration = g, !.lastRun = l,
                               !.lastSchedule = sched]
  OBVIOUS
<1>7. /\ st \in StatusType /\ st.runsCreated = n /\ st.observedGeneration = g
      /\ st.nextSchedule = b.nextSchedule /\ st.lastSchedule = sched
  BY <1>6 DEF StatusType
<1>8. st = ScheduledBaseStatus(base, kept, count)
  BY <1>1, <1>2, <1>3, <1>4, <1>5, <1>6 DEF ScheduledBaseStatus
<1> QED
  BY <1>1, <1>2, <1>3, <1>4, <1>5, <1>7, <1>8

(* The same with the next slot to wait for. *)
LEMMA StatusForIs ==
    ASSUME NEW w \in BusyType, NEW slot \in {Zero} \cup Nat
    PROVE  \E st \in StatusType :
              /\ st = StatusFor(w, slot)
              /\ st.runsCreated = Larger(w.base.status.runsCreated, MaxCount(w.seen))
              /\ st.runsCreated >= w.base.status.runsCreated
              /\ st.observedGeneration = w.base.generation
              /\ st.nextSchedule = slot
              /\ st.lastSchedule >= w.base.status.lastSchedule
              /\ Past(w.kept, w.now) /\ w.base.status.lastSchedule <= w.now =>
                    st.lastSchedule <= w.now
<1>1. /\ w.base \in AgentType /\ w.kept \in RunsType /\ w.seen \in RunsType /\ w.now \in Nat
      /\ MaxCount(w.seen) \in 0..MaxRunSuffix
  BY BusyFields, MaxCountIs
<1>2. PICK b \in StatusType :
              /\ b = ScheduledBaseStatus(w.base, w.kept, MaxCount(w.seen))
              /\ b.runsCreated = Larger(w.base.status.runsCreated, MaxCount(w.seen))
              /\ b.runsCreated >= w.base.status.runsCreated
              /\ b.observedGeneration = w.base.generation
              /\ b.lastSchedule >= w.base.status.lastSchedule
              /\ \A now \in Nat : Past(w.kept, now) /\ w.base.status.lastSchedule <= now =>
                    b.lastSchedule <= now
  BY <1>1, BaseStatusIs
<1>3. PICK st : st = [b EXCEPT !.nextSchedule = slot]
  OBVIOUS
<1>4. /\ st \in StatusType /\ st.runsCreated = b.runsCreated
      /\ st.observedGeneration = b.observedGeneration
      /\ st.nextSchedule = slot /\ st.lastSchedule = b.lastSchedule
  BY <1>3 DEF StatusType
<1>5. st = StatusFor(w, slot)
  BY <1>2, <1>3 DEF StatusFor
<1> QED
  BY <1>1, <1>2, <1>4, <1>5

(* The worker that is to write a status. *)
LEMMA WaitingIs ==
    ASSUME NEW w \in BusyType, NEW st \in StatusType, NEW slot \in {Zero} \cup Nat,
           NEW reason \in Reasons
    PROVE  \E v \in BusyType :
              /\ v = Waiting(w, st, slot, reason) /\ v.pc = "patch" /\ v.base = w.base
              /\ v.now = w.now /\ v.seen = w.seen
              /\ v.next.nextSchedule = slot /\ v.next.runsCreated = st.runsCreated
              /\ v.next.observedGeneration = st.observedGeneration
              /\ v.next.lastSchedule = st.lastSchedule
<1>1. PICK n : n = [st EXCEPT !.nextSchedule = slot, !.reason = reason]
  OBVIOUS
<1>2. /\ n \in StatusType /\ n.nextSchedule = slot /\ n.runsCreated = st.runsCreated
      /\ n.observedGeneration = st.observedGeneration /\ n.lastSchedule = st.lastSchedule
  BY <1>1 DEF StatusType
<1>3. PICK v : v = [w EXCEPT !.pc = "patch", !.next = n]
  OBVIOUS
<1>4. v \in BusyType /\ v.pc = "patch" /\ v.base = w.base /\ v.now = w.now /\ v.seen = w.seen
      /\ v.next = n
  BY <1>2, <1>3 DEF BusyType
<1>5. v = Waiting(w, st, slot, reason)
  BY <1>1, <1>3 DEF Waiting
<1> QED
  BY <1>2, <1>4, <1>5

(* The worker that is to record a run. *)
LEMMA CreatedIs ==
    ASSUME NEW w \in BusyType, NEW st \in StatusType
    PROVE  \E v \in BusyType :
              /\ v = Created(w, st) /\ v.pc = "patch" /\ v.base = w.base
              /\ v.now = w.now /\ v.seen = w.seen
              /\ v.next.nextSchedule = st.nextSchedule /\ v.next.runsCreated = st.runsCreated
              /\ v.next.observedGeneration = st.observedGeneration
              /\ v.next.lastSchedule = st.lastSchedule
<1>1. PICK n : n = [st EXCEPT !.reason = "RunCreated"]
  OBVIOUS
<1>2. /\ n \in StatusType /\ n.nextSchedule = st.nextSchedule /\ n.runsCreated = st.runsCreated
      /\ n.observedGeneration = st.observedGeneration /\ n.lastSchedule = st.lastSchedule
  BY <1>1 DEF StatusType, Reasons
<1>3. PICK v : v = [w EXCEPT !.pc = "patch", !.next = n]
  OBVIOUS
<1>4. v \in BusyType /\ v.pc = "patch" /\ v.base = w.base /\ v.now = w.now /\ v.seen = w.seen
      /\ v.next = n
  BY <1>2, <1>3 DEF BusyType
<1>5. v = Created(w, st)
  BY <1>1, <1>3 DEF Created
<1> QED
  BY <1>2, <1>4, <1>5

(* A status recovered from a run that is there. *)
LEMMA RecoverIs ==
    ASSUME NEW st \in StatusType, NEW seq \in 0..MaxRunSuffix, NEW slot \in Times,
           NEW kept \in {Zero} \cup Times
    PROVE  \E n \in StatusType :
              /\ n = RecoverScheduledRunStatus(st, seq, slot, kept)
              /\ n.runsCreated >= st.runsCreated /\ n.nextSchedule = st.nextSchedule
              /\ n.observedGeneration = st.observedGeneration
              /\ n.lastSchedule >= st.lastSchedule
              /\ \A now \in Nat : slot <= now /\ st.lastSchedule <= now => n.lastSchedule <= now
<1>1. PICK c \in 0..MaxRunSuffix : c = Larger(st.runsCreated, seq) /\ c >= st.runsCreated
  <2>1. st.runsCreated \in 0..MaxRunSuffix
    BY StatusFields
  <2> QED
    BY <2>1, BoundsAssumption DEF Larger
<1>2. PICK l \in {Zero} \cup Times :
          /\ l = Larger(st.lastSchedule, slot) /\ l >= st.lastSchedule
          /\ \A now \in Nat : slot <= now /\ st.lastSchedule <= now => l <= now
  <2>1. st.lastSchedule \in {Zero} \cup Times /\ st.lastSchedule \in Int /\ slot \in Int
    BY StatusFields, TimesAre
  <2> QED
    BY <2>1 DEF Larger
<1>3. PICK r \in {Zero} \cup Times : r = IF slot >= kept THEN slot ELSE st.lastRun
  BY StatusFields
<1>4. PICK n : n = [st EXCEPT !.runsCreated = c, !.lastRun = r, !.lastSchedule = l]
  OBVIOUS
<1>5. /\ n \in StatusType /\ n.nextSchedule = st.nextSchedule /\ n.runsCreated = c
      /\ n.observedGeneration = st.observedGeneration /\ n.lastSchedule = l
  BY <1>4 DEF StatusType
<1>6. n = RecoverScheduledRunStatus(st, seq, slot, kept)
  BY <1>1, <1>2, <1>3, <1>4 DEF RecoverScheduledRunStatus
<1> QED
  BY <1>1, <1>2, <1>5, <1>6

(* The slot a reconcile finds due, and the one after it. *)
LEMMA DueIs ==
    ASSUME NEW w \in BusyType, ~NeedsAnchor(w.base)
    PROVE  /\ w.base.status.nextSchedule \in Nat
           /\ w.base.status.observedGeneration = w.base.generation
           /\ Due(w) = Zero => w.base.status.nextSchedule > w.now
           /\ Due(w) # Zero =>
                 /\ w.base.status.nextSchedule <= w.now
                 /\ Due(w) \in Times /\ Due(w) \in Nat /\ Due(w) <= w.now
                 /\ w.base.status.nextSchedule <= Due(w)
                 /\ NextSlot(w.base.spec, Due(w)) \in Nat
                 /\ NextSlot(w.base.spec, Due(w)) > w.now
<1>1. w.base \in AgentType /\ w.now \in Times /\ w.now \in Nat
  BY BusyFields
<1>2. w.base.spec \in Specs /\ w.base.status \in StatusType
  BY <1>1, AgentFields
<1>3. PICK first \in Nat : first = w.base.status.nextSchedule
  BY <1>2, StatusFields DEF NeedsAnchor
<1>4. Due(w) = LatestDue(w.base.spec, first, w.now)
  BY <1>3 DEF Due
<1>5. ASSUME first <= w.now
      PROVE  /\ Due(w) \in Times /\ first <= Due(w) /\ Due(w) <= w.now
             /\ NextSlot(w.base.spec, Due(w)) > w.now
  BY <1>1, <1>2, <1>4, <1>5, LatestDueIs, AfterDue
<1>6. first > w.now => Due(w) = Zero
  BY <1>1, <1>2, <1>4, LatestDueIs
<1>7. \A t \in Times : t \in Nat /\ t # Zero /\ NextSlot(w.base.spec, t) \in Nat
  BY <1>2, TimesAre, NextSlotIs DEF Zero
<1> QED
  BY <1>1, <1>3, <1>5, <1>6, <1>7 DEF NeedsAnchor

(* Waiting for a slot still to come leaves what is past behind. *)
LEMMA WaitOK ==
    ASSUME NEW w \in BusyType, Past(w.kept, w.now), NEW slot \in Nat, slot > w.now,
           NEW reason \in Reasons
    PROVE  \E v \in BusyType :
              /\ v = Waiting(w, StatusFor(w, slot), slot, reason) /\ v.pc = "patch"
              /\ v.base = w.base /\ v.now = w.now /\ v.seen = w.seen /\ WorkOK(v)
<1>1. PICK st \in StatusType :
              /\ st = StatusFor(w, slot)
              /\ st.runsCreated >= w.base.status.runsCreated
              /\ st.observedGeneration = w.base.generation
              /\ st.lastSchedule >= w.base.status.lastSchedule
              /\ w.base.status.lastSchedule <= w.now => st.lastSchedule <= w.now
  BY StatusForIs
<1>2. PICK v \in BusyType :
              /\ v = Waiting(w, st, slot, reason) /\ v.pc = "patch" /\ v.base = w.base
              /\ v.now = w.now /\ v.seen = w.seen
              /\ v.next.nextSchedule = slot /\ v.next.runsCreated = st.runsCreated
              /\ v.next.observedGeneration = st.observedGeneration
              /\ v.next.lastSchedule = st.lastSchedule
  BY WaitingIs
<1>3. PatchOK(v)
  BY <1>1, <1>2 DEF PatchOK
<1>4. WorkOK(v)
  BY <1>2, <1>3 DEF WorkOK, Before
<1> QED
  BY <1>1, <1>2, <1>4

(* So does recording a run for the slot that is due. *)
LEMMA RecordOK ==
    ASSUME NEW w \in BusyType, NEW st \in StatusType, st.nextSchedule > w.now,
           st.runsCreated >= w.base.status.runsCreated,
           st.observedGeneration = w.base.generation,
           Ahead(w.base) => st.lastSchedule >= w.base.status.lastSchedule,
           w.base.status.lastSchedule <= w.now => st.lastSchedule <= w.now
    PROVE  \E v \in BusyType :
              /\ v = Created(w, st) /\ v.pc = "patch"
              /\ v.base = w.base /\ v.now = w.now /\ v.seen = w.seen /\ WorkOK(v)
<1>1. PICK v \in BusyType :
              /\ v = Created(w, st) /\ v.pc = "patch" /\ v.base = w.base
              /\ v.now = w.now /\ v.seen = w.seen
              /\ v.next.nextSchedule = st.nextSchedule /\ v.next.runsCreated = st.runsCreated
              /\ v.next.observedGeneration = st.observedGeneration
              /\ v.next.lastSchedule = st.lastSchedule
  BY CreatedIs
<1>2. PatchOK(v)
  BY <1>1 DEF PatchOK
<1>3. WorkOK(v)
  BY <1>1, <1>2 DEF WorkOK, Before
<1> QED
  BY <1>1, <1>3

(* The decision after pruning. *)
LEMMA DecideOK ==
    ASSUME NEW w \in BusyType, w.pc = "prune", PlanOK(w), Past(w.seen, w.now)
    PROVE  \/ Decide(w).pc = "exhausted"
           \/ \E v \in BusyType :
                 /\ v = Decide(w) /\ v.pc \in {"create", "patch"}
                 /\ v.base = w.base /\ v.now = w.now /\ v.seen = w.seen /\ WorkOK(v)
<1> DEFINE spec == w.base.spec
           due == Due(w)
           future == NextSlot(spec, w.now)
           Wait(slot, reason) == Waiting(w, StatusFor(w, slot), slot, reason)
           Good(v) == /\ v \in BusyType /\ v.pc \in {"create", "patch"}
                      /\ v.base = w.base /\ v.now = w.now /\ v.seen = w.seen /\ WorkOK(v)
<1>1. /\ w.base \in AgentType /\ spec \in Specs /\ w.now \in Times /\ w.now \in Nat
      /\ w.kept \in RunsType /\ w.seen \in RunsType
  BY BusyFields, AgentFields
<1>2. Past(w.kept, w.now)
  BY <1>1, RetainedIs DEF PlanOK
<1>3. future \in Nat /\ future > w.now
  BY <1>1, NextSlotIs
<1>4. ASSUME NEW slot \in Nat, slot > w.now, NEW reason \in Reasons
      PROVE  Good(Wait(slot, reason))
  BY <1>2, <1>4, WaitOK
<1>5. Decide(w) =
        IF NeedsAnchor(w.base) THEN Wait(future, AnchorReason(w.base))
        ELSE IF spec.suspend THEN Wait(future, "Suspended")
        ELSE IF due = Zero THEN Wait(w.base.status.nextSchedule, "WaitingForSchedule")
        ELSE IF w.now - due > spec.deadline THEN Wait(NextSlot(spec, due), "MissedDeadline")
        ELSE IF due \in Owned(w.kept)
             THEN Created(w, RecoverScheduledRunStatus(StatusFor(w, NextSlot(spec, due)),
                                                       w.kept[due].seq, due, Latest(w.kept)))
        ELSE IF OverlapForbidden(spec, w.kept) THEN Wait(NextSlot(spec, due), "OverlapSkipped")
        ELSE IF CounterExhausted(StatusFor(w, future)) THEN [w EXCEPT !.pc = "exhausted"]
        ELSE [w EXCEPT !.pc = "create"]
  BY DEF Decide
<1>6. /\ AnchorReason(w.base) \in Reasons /\ "Suspended" \in Reasons
      /\ "WaitingForSchedule" \in Reasons /\ "MissedDeadline" \in Reasons
      /\ "OverlapSkipped" \in Reasons
  BY DEF Reasons, AnchorReason
<1>7. ASSUME ~NeedsAnchor(w.base)
      PROVE  /\ w.base.status.nextSchedule \in Nat
             /\ due = Zero => w.base.status.nextSchedule > w.now
             /\ due # Zero => /\ due \in Times /\ due <= w.now
                              /\ NextSlot(spec, due) \in Nat /\ NextSlot(spec, due) > w.now
  BY <1>7, DueIs
<1>8. ASSUME ~NeedsAnchor(w.base), due # Zero, due \in Owned(w.kept)
      PROVE  Good(Created(w, RecoverScheduledRunStatus(StatusFor(w, NextSlot(spec, due)),
                                                       w.kept[due].seq, due, Latest(w.kept))))
  <2>1. due \in Times /\ due <= w.now /\ NextSlot(spec, due) \in Nat /\ NextSlot(spec, due) > w.now
    BY <1>7, <1>8
  <2>2. PICK st \in StatusType :
              /\ st = StatusFor(w, NextSlot(spec, due))
              /\ st.runsCreated >= w.base.status.runsCreated
              /\ st.observedGeneration = w.base.generation
              /\ st.nextSchedule = NextSlot(spec, due)
              /\ st.lastSchedule >= w.base.status.lastSchedule
              /\ w.base.status.lastSchedule <= w.now => st.lastSchedule <= w.now
    BY <1>2, <2>1, StatusForIs
  <2>3. w.kept[due].seq \in 0..MaxRunSuffix
    BY <1>1, <2>1 DEF RunsType, RunType
  <2>4. Latest(w.kept) \in {Zero} \cup Times
    BY <1>1, LatestIs
  <2>5. PICK n \in StatusType :
              /\ n = RecoverScheduledRunStatus(st, w.kept[due].seq, due, Latest(w.kept))
              /\ n.runsCreated >= st.runsCreated /\ n.nextSchedule = st.nextSchedule
              /\ n.observedGeneration = st.observedGeneration
              /\ n.lastSchedule >= st.lastSchedule
              /\ \A now \in Nat : due <= now /\ st.lastSchedule <= now => n.lastSchedule <= now
    BY <2>1, <2>3, <2>4, RecoverIs
  <2>6. /\ w.base.status.runsCreated \in Int /\ st.runsCreated \in Int /\ n.runsCreated \in Int
        /\ w.base.status.lastSchedule \in Int /\ st.lastSchedule \in Int /\ n.lastSchedule \in Int
    BY <1>1, AgentFields, StatusFields
  <2>7. /\ n.runsCreated >= w.base.status.runsCreated /\ n.nextSchedule > w.now
        /\ n.observedGeneration = w.base.generation
        /\ n.lastSchedule >= w.base.status.lastSchedule
        /\ w.base.status.lastSchedule <= w.now => n.lastSchedule <= w.now
    BY <1>1, <2>1, <2>2, <2>5, <2>6
  <2>8. \E v \in BusyType :
              /\ v = Created(w, n) /\ v.pc = "patch"
              /\ v.base = w.base /\ v.now = w.now /\ v.seen = w.seen /\ WorkOK(v)
    BY <2>7, RecordOK
  <2> QED
    BY <2>2, <2>5, <2>8
<1>9. ASSUME ~NeedsAnchor(w.base), due # Zero, ~OverlapForbidden(spec, w.kept),
             ~CounterExhausted(StatusFor(w, future))
      PROVE  Good([w EXCEPT !.pc = "create"])
  <2>1. PICK v : v = [w EXCEPT !.pc = "create"]
    OBVIOUS
  <2>2. /\ v \in BusyType /\ v.pc = "create" /\ v.base = w.base /\ v.now = w.now
        /\ v.seen = w.seen /\ v.kept = w.kept /\ v.doomed = w.doomed
    BY <2>1 DEF BusyType
  <2>3. PlanOK(v)
    BY <2>2 DEF PlanOK
  <2>4. StatusFor(w, future).runsCreated = StatusFor(w, w.now).runsCreated
    BY <1>1, <1>3, StatusForIs
  <2>5. Due(v) = due /\ StatusFor(v, v.now) = StatusFor(w, w.now)
    BY <2>2 DEF Due, StatusFor
  <2>6. ChoiceOK(v)
    BY <1>9, <2>2, <2>4, <2>5 DEF ChoiceOK, CounterExhausted
  <2>7. WorkOK(v)
    BY <2>2, <2>3, <2>6 DEF WorkOK, Before
  <2> QED
    BY <2>1, <2>2, <2>7
<1>10. [w EXCEPT !.pc = "exhausted"].pc = "exhausted"
  BY DEF BusyType
<1> HIDE DEF Good, Wait, due, future, spec
<1>11. Decide(w).pc = "exhausted" \/ Good(Decide(w))
  <2>1. CASE NeedsAnchor(w.base)
    BY <1>3, <1>4, <1>5, <1>6, <2>1
  <2>2. CASE ~NeedsAnchor(w.base) /\ spec.suspend
    BY <1>3, <1>4, <1>5, <1>6, <2>2
  <2>3. CASE ~NeedsAnchor(w.base) /\ ~spec.suspend /\ due = Zero
    BY <1>4, <1>5, <1>6, <1>7, <2>3
  <2>4. CASE ~NeedsAnchor(w.base) /\ ~spec.suspend /\ due # Zero
    <3>1. CASE w.now - due > spec.deadline
      BY <1>4, <1>5, <1>6, <1>7, <2>4, <3>1
    <3>2. CASE ~(w.now - due > spec.deadline) /\ due \in Owned(w.kept)
      BY <1>5, <1>8, <2>4, <3>2
    <3>3. CASE ~(w.now - due > spec.deadline) /\ due \notin Owned(w.kept)
      <4>1. CASE OverlapForbidden(spec, w.kept)
        BY <1>4, <1>5, <1>6, <1>7, <2>4, <3>3, <4>1
      <4>2. CASE ~OverlapForbidden(spec, w.kept) /\ CounterExhausted(StatusFor(w, future))
        BY <1>5, <1>10, <2>4, <3>3, <4>2
      <4>3. CASE ~OverlapForbidden(spec, w.kept) /\ ~CounterExhausted(StatusFor(w, future))
        BY <1>5, <1>9, <2>4, <3>3, <4>3
      <4> QED
        BY <4>1, <4>2, <4>3
    <3> QED
      BY <3>1, <3>2, <3>3
  <2> QED
    BY <2>1, <2>2, <2>3, <2>4
<1> QED
  BY <1>11 DEF Good

(* A reconcile starts with a plan, or reports a schedule it cannot parse. *)
LEMMA BeginOK ==
    ASSUME NEW base \in AgentType, NEW seen \in RunsType, NEW now \in Times, Past(seen, now)
    PROVE  \E v \in BusyType :
              /\ v = Begin(base, seen, now) /\ v.pc \in {"prune", "patch"}
              /\ v.base = base /\ v.now = now /\ v.seen = seen /\ WorkOK(v)
<1>1. base.spec \in Specs /\ now \in Nat /\ base.status \in StatusType
  BY AgentFields, TimesAre
<1>2. PICK w : w = [pc |-> "prune", base |-> base, now |-> now, seen |-> seen,
                    doomed |-> TooMany(seen, base.spec), kept |-> Retained(seen, base.spec),
                    next |-> EmptyStatus]
  OBVIOUS
<1>3. EmptyStatus \in StatusType
  BY BoundsAssumption DEF EmptyStatus, StatusType, Reasons
<1>4. TooMany(seen, base.spec) \subseteq Times /\ Retained(seen, base.spec) \in RunsType
  BY <1>1, RetainedIs DEF Owned
<1>5. /\ w \in BusyType /\ w.pc = "prune" /\ w.base = base /\ w.now = now /\ w.seen = seen
      /\ w.doomed = TooMany(seen, base.spec) /\ w.kept = Retained(seen, base.spec)
  BY <1>2, <1>3, <1>4 DEF BusyType
<1>6. CASE base.spec.valid
  <2>1. WorkOK(w)
    BY <1>5, <1>6 DEF WorkOK, PlanOK
  <2>2. w = Begin(base, seen, now)
    BY <1>2, <1>6 DEF Begin
  <2> QED
    BY <1>5, <2>1, <2>2
<1>7. CASE ~base.spec.valid
  <2>1. MaxCount(seen) \in 0..MaxRunSuffix
    BY MaxCountIs
  <2>2. PICK st \in StatusType :
              /\ st = ScheduledBaseStatus(base, seen, MaxCount(seen))
              /\ st.runsCreated >= base.status.runsCreated
              /\ st.observedGeneration = base.generation
              /\ st.lastSchedule >= base.status.lastSchedule
              /\ base.status.lastSchedule <= now => st.lastSchedule <= now
    BY <1>1, <2>1, BaseStatusIs
  <2>3. base.status.nextSchedule \in {Zero} \cup Nat /\ "InvalidSchedule" \in Reasons
    BY <1>1, StatusFields DEF Reasons
  <2>4. PICK v \in BusyType :
              /\ v = Waiting(w, st, base.status.nextSchedule, "InvalidSchedule")
              /\ v.pc = "patch" /\ v.base = w.base
              /\ v.now = w.now /\ v.seen = w.seen
              /\ v.next.runsCreated = st.runsCreated
              /\ v.next.observedGeneration = st.observedGeneration
              /\ v.next.lastSchedule = st.lastSchedule
    BY <1>5, <2>3, WaitingIs
  <2>5. PatchOK(v)
    BY <1>5, <1>7, <2>2, <2>4 DEF PatchOK
  <2>6. WorkOK(v)
    BY <2>4, <2>5 DEF WorkOK, Before
  <2>7. v = Begin(base, seen, now)
    BY <1>2, <1>7, <2>2, <2>4 DEF Begin
  <2> QED
    BY <1>5, <2>4, <2>6, <2>7
<1> QED
  BY <1>6, <1>7

----------------------------------------------------------------------------
(* Steps, whatever the caches miss.                                        *)

(* What Inv asks of the worker. *)
WorkerOK(w, now) ==
    w = Idle \/ (w \in BusyType /\ Past(w.seen, w.now) /\ w.now <= now /\ WorkOK(w))
QueueTyped == dirty' \in BOOLEAN /\ timer' \in {Zero} \cup Nat
BoundsTyped == faults' \in 0..MaxFaults /\ meddling' \in 0..MaxMeddling
MadeOK(m, now) ==
    /\ m \in Seq(MadeType)
    /\ \A i \in DOMAIN m : m[i].slot <= m[i].at /\ m[i].at <= now

(* The worker before a step. *)
LEMMA WorkerIs == ASSUME Inv PROVE WorkerOK(worker, clock)
BY DEF Inv, TypeOK, PastInv, WorkInv, WorkerOK

(* One with a program counter of its own is at work. *)
LEMMA NotIdle ==
    ASSUME Inv, worker.pc # "idle"
    PROVE  /\ worker # Idle /\ worker \in BusyType /\ Past(worker.seen, worker.now)
           /\ worker.now <= clock /\ WorkOK(worker)
BY WorkerIs DEF Idle, WorkerOK

(* The ends of a reconcile, and faults. *)
LEMMA EndTypes ==
    ASSUME Inv
    PROVE  /\ Retry => QueueTyped /\ worker' = Idle
           /\ \A at \in {Zero} \cup Nat : Finish(at) => QueueTyped /\ worker' = Idle
           /\ UNCHANGED queue => QueueTyped
           /\ Fault => BoundsTyped
           /\ Meddle => BoundsTyped
           /\ UNCHANGED bounds => BoundsTyped
<1> USE BoundsAssumption
<1>1. (Retry => QueueTyped /\ worker' = Idle) /\ (UNCHANGED queue => QueueTyped)
  BY DEF Retry, QueueTyped, queue, Inv, TypeOK
<1>2. ASSUME NEW at \in {Zero} \cup Nat, Finish(at)
      PROVE  QueueTyped /\ worker' = Idle
  <2>1. timer' \in {Zero} \cup Nat
    BY <1>2 DEF Finish, Inv, TypeOK
  <2> QED
    BY <1>2, <2>1 DEF Finish, QueueTyped, Inv, TypeOK
<1>3. (Fault => BoundsTyped) /\ (Meddle => BoundsTyped) /\ (UNCHANGED bounds => BoundsTyped)
  BY DEF Fault, Meddle, bounds, BoundsTyped, Inv, TypeOK
<1> QED
  BY <1>1, <1>2, <1>3

(* A reply that is lost makes the reconcile start again. *)
LEMMA RepliedIs ==
    ASSUME Inv, NEW w, Replied(GoOn(w))
    PROVE  /\ worker' = w \/ worker' = Idle
           /\ QueueTyped /\ BoundsTyped /\ meddling' = meddling
<1>1. CASE GoOn(w) /\ UNCHANGED bounds
  BY <1>1, EndTypes DEF GoOn, bounds
<1>2. CASE Retry /\ Fault
  BY <1>2, EndTypes DEF Fault
<1> QED
  BY <1>1, <1>2 DEF Replied

(* Steps of the worker alone. *)
LEMMA WorkerStepOK ==
    ASSUME Inv, UNCHANGED <<agent, runs, caches, clock, changedAt, made>>,
           WorkerOK(worker', clock), QueueTyped, BoundsTyped
    PROVE  Inv'
<1>1. /\ agent' = agent /\ runs' = runs /\ agentCache' = agentCache /\ agentEvents' = agentEvents
      /\ runCache' = runCache /\ runEvents' = runEvents /\ clock' = clock
      /\ changedAt' = changedAt /\ made' = made
  BY DEF caches
<1>2. TypeOK'
  BY <1>1 DEF Inv, TypeOK, WorkerOK, QueueTyped, BoundsTyped
<1>3. CacheInv'
  BY <1>1 DEF Inv, CacheInv
<1>4. PastInv'
  BY <1>1 DEF Inv, PastInv, WorkerOK
<1>5. WorkInv'
  BY DEF WorkInv, WorkerOK
<1> QED
  BY <1>2, <1>3, <1>4, <1>5 DEF Inv

(* Steps that write a run. *)
LEMMA RunStepOK ==
    ASSUME Inv, NEW slot \in Times, NEW new \in RunType, SetRun(slot, new),
           new.owner = "agent" => slot <= clock,
           UNCHANGED <<agent, agentCache, agentEvents, runCache, clock, changedAt>>,
           WorkerOK(worker', clock), QueueTyped, BoundsTyped, MadeOK(made', clock)
    PROVE  /\ Inv' /\ runs' \in RunsType /\ runs'[slot] = new
           /\ \A s \in Times : s # slot => runs'[s] = runs[s]
<1>1. runs \in RunsType /\ runEvents \in Seq(RunsType)
  BY DEF Inv, TypeOK
<1>2. /\ runs' = [runs EXCEPT ![slot] = new] /\ runs' \in RunsType /\ runs'[slot] = new
      /\ \A s \in Times : s # slot => runs'[s] = runs[s]
  BY <1>1 DEF SetRun, RunsType
<1>3. \/ runs' = runs /\ runEvents' = runEvents
      \/ runEvents' = Append(runEvents, runs')
  BY <1>1, <1>2 DEF SetRun, RunsType
<1>4. /\ runEvents' \in Seq(RunsType)
      /\ runEvents' = <<>> => runCache = runs'
      /\ runEvents' # <<>> => runEvents'[Len(runEvents')] = runs'
  <2>1. CASE runs' = runs /\ runEvents' = runEvents
    BY <1>1, <2>1 DEF Inv, CacheInv
  <2>2. CASE runEvents' = Append(runEvents, runs')
    BY <1>1, <1>2, <2>2
  <2> QED
    BY <1>3, <2>1, <2>2
<1>5. TypeOK'
  BY <1>2, <1>4 DEF Inv, TypeOK, WorkerOK, QueueTyped, BoundsTyped, MadeOK
<1>6. CacheInv'
  BY <1>4 DEF Inv, CacheInv
<1>7. Past(runs', clock)
  BY <1>2 DEF Inv, PastInv, Past, Owned
<1>8. \A i \in DOMAIN runEvents' : Past(runEvents'[i], clock)
  <2>1. CASE runs' = runs /\ runEvents' = runEvents
    BY <2>1 DEF Inv, PastInv
  <2>2. CASE runEvents' = Append(runEvents, runs')
    <3>1. \A i \in DOMAIN runEvents' : \/ i \in DOMAIN runEvents /\ runEvents'[i] = runEvents[i]
                                       \/ runEvents'[i] = runs'
      BY <1>1, <1>2, <2>2
    <3> QED
      BY <1>7, <3>1 DEF Inv, PastInv
  <2> QED
    BY <1>3, <2>1, <2>2
<1>9. PastInv'
  <2>1. /\ Past(runCache', clock') /\ Past(runs', clock')
        /\ \A i \in DOMAIN runEvents' : Past(runEvents'[i], clock')
    BY <1>7, <1>8 DEF Inv, PastInv
  <2>2. \A i \in DOMAIN made' : made'[i].slot <= made'[i].at /\ made'[i].at <= clock'
    BY DEF MadeOK
  <2>3. worker' # Idle => Past(worker'.seen, worker'.now) /\ worker'.now <= clock'
    BY DEF WorkerOK
  <2> QED
    BY <2>1, <2>2, <2>3 DEF PastInv
<1>10. WorkInv'
  BY DEF WorkInv, WorkerOK
<1> QED
  BY <1>2, <1>5, <1>6, <1>9, <1>10 DEF Inv

(* Steps that write the Agent. *)
LEMMA AgentStepOK ==
    ASSUME Inv, NEW new \in AgentType, SetAgent(new),
           UNCHANGED <<runs, agentCache, runCache, runEvents, clock, made>>,
           changedAt' \in [1..MaxGeneration -> Times],
           WorkerOK(worker', clock), QueueTyped, BoundsTyped
    PROVE  Inv'
<1>1. agent \in AgentType /\ agentEvents \in Seq(AgentType)
  BY DEF Inv, TypeOK
<1>2. /\ agentEvents' \in Seq(AgentType) /\ agent' = new
      /\ agentEvents' = <<>> => agentCache = agent'
      /\ agentEvents' # <<>> => agentEvents'[Len(agentEvents')] = agent'
  <2>1. CASE new = agent
    BY <1>1, <2>1 DEF Inv, CacheInv, SetAgent
  <2>2. CASE new # agent
    BY <1>1, <2>2 DEF SetAgent
  <2> QED
    BY <2>1, <2>2
<1>3. TypeOK'
  BY <1>2 DEF Inv, TypeOK, WorkerOK, QueueTyped, BoundsTyped
<1>4. CacheInv'
  BY <1>2 DEF Inv, CacheInv
<1>5. PastInv'
  BY DEF Inv, PastInv, WorkerOK
<1>6. WorkInv'
  BY DEF WorkInv, WorkerOK
<1> QED
  BY <1>3, <1>4, <1>5, <1>6 DEF Inv

(* The same reconcile, further on. *)
Same(v, w) == v \in BusyType /\ v.base = w.base /\ v.now = w.now /\ v.seen = w.seen

(* A reconcile starts. *)
LEMMA ReconcileStep ==
    ASSUME Inv, ReconcileScheduled
    PROVE  /\ Inv' /\ worker' \in BusyType /\ worker'.base = agentCache /\ worker'.now = clock
           /\ worker'.seen = OwnRuns(runCache) /\ worker = Idle
           /\ UNCHANGED <<agent, runs, clock, changedAt, made, meddling>>
<1>1. /\ agentCache \in AgentType /\ runCache \in RunsType /\ clock \in Times /\ clock \in Nat
      /\ Past(runCache, clock)
  BY TimesAre DEF Inv, TypeOK, PastInv
<1>2. OwnRuns(runCache) \in RunsType /\ Past(OwnRuns(runCache), clock)
  BY <1>1, OwnRunsIs DEF Past
<1>3. PICK v \in BusyType :
              /\ v = Begin(agentCache, OwnRuns(runCache), clock)
              /\ v.base = agentCache /\ v.now = clock /\ v.seen = OwnRuns(runCache) /\ WorkOK(v)
  BY <1>1, <1>2, BeginOK
<1>4. worker' = v
  BY <1>3 DEF ReconcileScheduled
<1>5. WorkerOK(worker', clock)
  BY <1>1, <1>2, <1>3, <1>4 DEF WorkerOK
<1>6. QueueTyped /\ BoundsTyped /\ meddling' = meddling
  BY EndTypes DEF ReconcileScheduled, QueueTyped, Inv, TypeOK, bounds
<1> QED
  BY <1>3, <1>4, <1>5, <1>6, WorkerStepOK DEF ReconcileScheduled

(* There is always a first one to prune. *)
LEMMA FirstToGoIs ==
    ASSUME NEW w \in BusyType, PlanOK(w), w.doomed # {}
    PROVE  FirstToGo(w.doomed, w.seen) \in w.doomed
<1>1. w.base \in AgentType /\ w.seen \in RunsType /\ w.base.spec \in Specs
  BY BusyFields, AgentFields
<1>2. w.doomed \subseteq Times /\ \A s \in w.doomed : w.seen[s].phase \in {"Succeeded", "Failed"}
  <2>1. /\ w.doomed \subseteq Owned(w.seen) /\ \A s \in w.doomed : w.seen[s].phase # "active"
    BY <1>1, RetainedIs DEF PlanOK
  <2>2. \A s \in Times : w.seen[s].phase \in {"active", "Succeeded", "Failed"}
    BY <1>1 DEF RunsType, RunType
  <2> QED
    BY <2>1, <2>2 DEF Owned
<1> DEFINE Group(phase) == {s \in w.doomed : w.seen[s].phase = phase}
<1>3. ASSUME NEW phase, Group(phase) # {}
      PROVE  \E s \in Group(phase) : \A u \in Group(phase) : u <= s
  <2>1. Group(phase) \subseteq Nat /\ \A u \in Group(phase) : u <= MaxTime
    BY <1>2, TimesAre DEF Times
  <2> QED
    BY <1>3, <2>1, LargestExists, BoundsAssumption
<1> DEFINE First(s) == \A u \in w.doomed :
                          \/ w.seen[s].phase = "Succeeded" /\ w.seen[u].phase = "Failed"
                          \/ w.seen[s].phase = w.seen[u].phase /\ u <= s
<1>4. \E s \in w.doomed : First(s)
  <2>1. CASE Group("Succeeded") # {}
    <3>1. PICK s \in Group("Succeeded") : \A u \in Group("Succeeded") : u <= s
      BY <1>3, <2>1
    <3> QED
      BY <1>2, <3>1
  <2>2. CASE Group("Succeeded") = {}
    <3>1. Group("Failed") # {}
      BY <1>2, <2>2
    <3>2. PICK s \in Group("Failed") : \A u \in Group("Failed") : u <= s
      BY <1>3, <3>1
    <3> QED
      BY <1>2, <2>2, <3>2
  <2> QED
    BY <2>1, <2>2
<1> QED
  BY <1>4 DEF FirstToGo

(* A run is pruned. *)
LEMMA PruneStep ==
    ASSUME Inv, PruneRun
    PROVE  /\ Inv' /\ worker # Idle /\ worker.pc = "prune"
           /\ \E slot \in worker.doomed : /\ slot \in Times /\ runs'[slot] = NoRun
                                          /\ \A s \in Times : s # slot => runs'[s] = runs[s]
           /\ worker' = Idle \/ (Same(worker', worker) /\ worker'.pc = "prune")
           /\ UNCHANGED <<agent, clock, changedAt, made, meddling>>
<1>1. /\ worker # Idle /\ worker \in BusyType /\ Past(worker.seen, worker.now)
      /\ worker.now <= clock /\ WorkOK(worker) /\ worker.pc = "prune" /\ PlanOK(worker)
  BY NotIdle DEF PruneRun, WorkOK, Before
<1>2. PICK slot \in worker.doomed : slot = FirstToGo(worker.doomed, worker.seen)
  BY <1>1, FirstToGoIs DEF PruneRun
<1>3. slot \in Times
  BY <1>1 DEF BusyType
<1>4. PICK v : v = [worker EXCEPT !.doomed = @ \ {slot}]
  OBVIOUS
<1>5. /\ v \in BusyType /\ v.pc = "prune" /\ v.base = worker.base /\ v.now = worker.now
      /\ v.seen = worker.seen /\ v.kept = worker.kept /\ v.doomed \subseteq worker.doomed
  BY <1>1, <1>4 DEF BusyType
<1>6. WorkOK(v)
  BY <1>1, <1>5 DEF WorkOK, PlanOK
<1>7. /\ SetRun(slot, NoRun) /\ Replied(GoOn(v))
      /\ UNCHANGED <<agent, agentCache, agentEvents, runCache, clock, changedAt, made>>
  BY <1>2, <1>4 DEF PruneRun, Replied, GoOn
<1>8. (worker' = v \/ worker' = Idle) /\ QueueTyped /\ BoundsTyped /\ meddling' = meddling
  BY <1>7, RepliedIs
<1>9. WorkerOK(worker', clock)
  BY <1>1, <1>5, <1>6, <1>8 DEF WorkerOK
<1>10. MadeOK(made', clock)
  BY <1>7 DEF MadeOK, Inv, TypeOK, PastInv
<1>11. Inv' /\ runs'[slot] = NoRun /\ \A s \in Times : s # slot => runs'[s] = runs[s]
  <2>1. NoRun \in RunType /\ (NoRun.owner = "agent" => slot <= clock)
    BY NoRunIs
  <2> QED
    BY <1>3, <1>7, <1>8, <1>9, <1>10, <2>1, RunStepOK
<1> QED
  BY <1>1, <1>3, <1>5, <1>7, <1>8, <1>11 DEF Same

(* What is due is decided. *)
LEMMA DecideStep ==
    ASSUME Inv, DecideSlot
    PROVE  /\ Inv' /\ worker # Idle /\ worker.pc = "prune"
           /\ worker' = Idle \/ Same(worker', worker)
           /\ UNCHANGED <<agent, runs, clock, changedAt, made, meddling>>
<1>1. /\ worker # Idle /\ worker \in BusyType /\ Past(worker.seen, worker.now)
      /\ worker.now <= clock /\ WorkOK(worker) /\ worker.pc = "prune" /\ PlanOK(worker)
  BY NotIdle DEF DecideSlot, WorkOK, Before
<1>2. UNCHANGED <<agent, runs, caches, clock, bounds, changedAt, made>>
  BY DEF DecideSlot
<1>3. (worker' = Idle \/ (Same(worker', worker) /\ WorkOK(worker'))) /\ QueueTyped
  <2>1. CASE Decide(worker).pc = "exhausted"
    BY <2>1, EndTypes DEF DecideSlot
  <2>2. CASE Decide(worker).pc # "exhausted"
    <3>1. PICK v \in BusyType :
                 /\ v = Decide(worker)
                 /\ v.base = worker.base /\ v.now = worker.now /\ v.seen = worker.seen /\ WorkOK(v)
      BY <1>1, <2>2, DecideOK
    <3>2. GoOn(v)
      BY <2>2, <3>1 DEF DecideSlot
    <3> QED
      BY <3>1, <3>2, EndTypes DEF GoOn, Same
  <2> QED
    BY <2>1, <2>2
<1>4. WorkerOK(worker', clock)
  BY <1>1, <1>3 DEF WorkerOK, Same
<1>5. BoundsTyped /\ meddling' = meddling
  BY <1>2, EndTypes DEF bounds
<1> QED
  BY <1>1, <1>2, <1>3, <1>4, <1>5, WorkerStepOK

(* The slot and the status of a reconcile that has chosen. *)
LEMMA ChoiceIs ==
    ASSUME NEW w \in BusyType, PlanOK(w), ChoiceOK(w), Past(w.seen, w.now)
    PROVE  /\ Due(w) \in Times /\ Due(w) \in Nat /\ Due(w) <= w.now
           /\ w.base.status.nextSchedule <= Due(w)
           /\ Latest(w.kept) \in {Zero} \cup Times
           /\ \E st \in StatusType :
                 /\ st = StatusFor(w, NextSlot(w.base.spec, Due(w)))
                 /\ st.runsCreated >= w.base.status.runsCreated
                 /\ st.runsCreated + 1 \in 0..MaxRunSuffix
                 /\ st.observedGeneration = w.base.generation
                 /\ st.nextSchedule > w.now
                 /\ st.lastSchedule >= w.base.status.lastSchedule
                 /\ w.base.status.lastSchedule <= w.now => st.lastSchedule <= w.now
<1>1. /\ w.base \in AgentType /\ w.base.spec \in Specs /\ w.now \in Times /\ w.now \in Nat
      /\ w.kept \in RunsType /\ w.seen \in RunsType
  BY BusyFields, AgentFields
<1>2. Past(w.kept, w.now)
  BY <1>1, RetainedIs DEF PlanOK
<1>3. /\ Due(w) \in Times /\ Due(w) \in Nat /\ Due(w) <= w.now
      /\ w.base.status.nextSchedule <= Due(w)
      /\ NextSlot(w.base.spec, Due(w)) \in Nat /\ NextSlot(w.base.spec, Due(w)) > w.now
  BY DueIs DEF ChoiceOK
<1>4. PICK st \in StatusType :
                 /\ st = StatusFor(w, NextSlot(w.base.spec, Due(w)))
                 /\ st.runsCreated = Larger(w.base.status.runsCreated, MaxCount(w.seen))
                 /\ st.runsCreated >= w.base.status.runsCreated
                 /\ st.observedGeneration = w.base.generation
                 /\ st.nextSchedule = NextSlot(w.base.spec, Due(w))
                 /\ st.lastSchedule >= w.base.status.lastSchedule
                 /\ w.base.status.lastSchedule <= w.now => st.lastSchedule <= w.now
  BY <1>2, <1>3, StatusForIs
<1>5. StatusFor(w, w.now).runsCreated = st.runsCreated
  BY <1>1, <1>4, StatusForIs
<1>6. st.runsCreated + 1 \in 0..MaxRunSuffix
  <2>1. st.runsCreated \in 0..MaxRunSuffix /\ st.runsCreated # MaxRunSuffix
    BY <1>5, StatusFields DEF ChoiceOK, CounterExhausted
  <2> QED
    BY <2>1, BoundsAssumption
<1>7. Latest(w.kept) \in {Zero} \cup Times
  BY <1>1, LatestIs
<1> QED
  BY <1>3, <1>4, <1>6, <1>7

(* With a schedule that is followed, the slot due is after the last one. *)
LEMMA DueIsLater ==
    ASSUME NEW w \in BusyType, PlanOK(w), ChoiceOK(w), Past(w.seen, w.now), Ahead(w.base)
    PROVE  Due(w) >= w.base.status.lastSchedule
<1>1. Due(w) \in Nat /\ w.base.status.nextSchedule <= Due(w) /\ w.base \in AgentType
  BY ChoiceIs, BusyFields
<1>2. w.base.status.nextSchedule \in Int /\ w.base.status.lastSchedule \in Int
  BY <1>1, AgentFields, StatusFields
<1>3. Current(w.base)
  BY DEF Current, PlanOK, ChoiceOK, NeedsAnchor
<1> QED
  BY <1>1, <1>2, <1>3 DEF Ahead

(* What a new run goes on record with. *)
Record(w) ==
    [slot |-> Due(w), seq |-> StatusFor(w, NextSlot(w.base.spec, Due(w))).runsCreated + 1,
     at |-> w.now, generation |-> w.base.generation, spec |-> w.base.spec]

(* The name of the run is taken, or the run is created. *)
LEMMA CreateStep ==
    ASSUME Inv, CreateRun
    PROVE  /\ Inv' /\ worker # Idle /\ worker.pc = "create"
           /\ UNCHANGED <<agent, clock, changedAt, meddling>>
           /\ \/ Same(worker', worker) /\ UNCHANGED <<runs, made>>
              \/ /\ worker' = Idle \/ (Same(worker', worker) /\ worker'.pc = "patch")
                 /\ runs[Due(worker)] = NoRun /\ runs'[Due(worker)].owner = "agent"
                 /\ \A s \in Times : s # Due(worker) => runs'[s] = runs[s]
                 /\ Record(worker) \in MadeType /\ made' = Append(made, Record(worker))
<1>1. /\ worker # Idle /\ worker \in BusyType /\ Past(worker.seen, worker.now)
      /\ worker.now <= clock /\ WorkOK(worker) /\ worker.pc = "create"
  BY NotIdle DEF CreateRun
<1>2. PlanOK(worker) /\ ChoiceOK(worker)
  BY <1>1 DEF WorkOK, Before
<1>3. /\ worker.base \in AgentType /\ worker.base.spec \in Specs
      /\ worker.base.generation \in 1..MaxGeneration
      /\ worker.now \in Times /\ worker.now \in Nat /\ clock \in Nat
  BY <1>1, BusyFields, AgentFields, TimesAre DEF Inv, TypeOK
<1>4. PICK due \in Times : due = Due(worker) /\ due \in Nat /\ due <= worker.now
  BY <1>1, <1>2, ChoiceIs
<1>5. PICK st \in StatusType :
                 /\ st = StatusFor(worker, NextSlot(worker.base.spec, due))
                 /\ st.runsCreated >= worker.base.status.runsCreated
                 /\ st.runsCreated + 1 \in 0..MaxRunSuffix
                 /\ st.observedGeneration = worker.base.generation
                 /\ st.nextSchedule > worker.now
                 /\ st.lastSchedule >= worker.base.status.lastSchedule
  BY <1>1, <1>2, <1>4, ChoiceIs
<1>6. PICK seq \in 0..MaxRunSuffix : seq = st.runsCreated + 1
  BY <1>5
<1>7. UNCHANGED <<agent, agentCache, agentEvents, runCache, clock, changedAt>>
  BY DEF CreateRun
<1>8. CASE runs[due] # NoRun
  <2>1. PICK v : v = [worker EXCEPT !.pc = "verify"]
    OBVIOUS
  <2>2. /\ v \in BusyType /\ v.pc = "verify" /\ v.base = worker.base /\ v.now = worker.now
        /\ v.seen = worker.seen /\ v.kept = worker.kept /\ v.doomed = worker.doomed
    BY <1>1, <2>1 DEF BusyType
  <2>3. WorkOK(v)
    <3>1. PlanOK(v)
      BY <1>2, <2>2 DEF PlanOK
    <3>2. Due(v) = Due(worker) /\ StatusFor(v, v.now) = StatusFor(worker, worker.now)
      BY <2>2 DEF Due, StatusFor
    <3>3. ChoiceOK(v)
      BY <1>2, <2>2, <3>2 DEF ChoiceOK
    <3> QED
      BY <2>2, <3>1, <3>3 DEF WorkOK
  <2>4. /\ GoOn(v) /\ UNCHANGED <<runs, runEvents, bounds, made>>
    BY <1>4, <1>8, <2>1 DEF CreateRun
  <2>5. /\ WorkerOK(worker', clock) /\ QueueTyped /\ BoundsTyped
        /\ Same(worker', worker) /\ meddling' = meddling
    BY <1>1, <2>2, <2>3, <2>4, EndTypes DEF WorkerOK, GoOn, Same, bounds
  <2>6. Inv'
    BY <1>7, <2>4, <2>5, WorkerStepOK DEF caches
  <2> QED
    BY <1>1, <1>7, <2>4, <2>5, <2>6
<1>9. CASE runs[due] = NoRun
  <2>1. PICK n : n = [st EXCEPT !.runsCreated = seq, !.lastRun = due, !.lastSchedule = due]
    OBVIOUS
  <2>2. /\ n \in StatusType /\ n.runsCreated = seq /\ n.lastSchedule = due
        /\ n.nextSchedule = st.nextSchedule /\ n.observedGeneration = st.observedGeneration
    BY <2>1 DEF StatusType
  <2>3. /\ n.runsCreated >= worker.base.status.runsCreated
        /\ n.lastSchedule <= worker.now
        /\ Ahead(worker.base) => n.lastSchedule >= worker.base.status.lastSchedule
    <3>1. st.runsCreated \in Int /\ worker.base.status.runsCreated \in Int
      BY <1>3, AgentFields, StatusFields
    <3>2. Ahead(worker.base) => due >= worker.base.status.lastSchedule
      BY <1>1, <1>2, <1>4, DueIsLater
    <3> QED
      BY <1>4, <1>5, <1>6, <2>2, <3>1, <3>2
  <2>4. PICK v \in BusyType :
              /\ v = Created(worker, n) /\ v.pc = "patch"
              /\ v.base = worker.base /\ v.now = worker.now /\ v.seen = worker.seen /\ WorkOK(v)
    BY <1>1, <1>5, <2>2, <2>3, RecordOK
  <2>5. PICK m : m = Record(worker)
    OBVIOUS
  <2>6. /\ m \in MadeType /\ m.slot = due /\ m.at = worker.now
    BY <1>3, <1>4, <1>5, <1>6, <2>5 DEF Record, MadeType
  <2>7. PICK new \in RunType : new = NewRun("agent", seq) /\ new.owner = "agent"
    BY NewRunIs
  <2>8. m = [slot |-> due, seq |-> seq, at |-> worker.now,
             generation |-> worker.base.generation, spec |-> worker.base.spec]
    BY <1>4, <1>5, <1>6, <2>5 DEF Record
  <2>9. SetRun(due, new) /\ made' = Append(made, m) /\ Replied(GoOn(v))
    BY <1>4, <1>5, <1>6, <1>9, <2>1, <2>4, <2>7, <2>8 DEF CreateRun, Replied, GoOn
  <2>10. (worker' = v \/ worker' = Idle) /\ QueueTyped /\ BoundsTyped /\ meddling' = meddling
    BY <2>9, RepliedIs
  <2>11. WorkerOK(worker', clock)
    BY <1>1, <2>4, <2>10 DEF WorkerOK
  <2>12. MadeOK(made', clock)
    <3>1. /\ made \in Seq(MadeType)
          /\ \A i \in DOMAIN made : made[i].slot <= made[i].at /\ made[i].at <= clock
      BY DEF Inv, TypeOK, PastInv
    <3>2. made' \in Seq(MadeType) /\ \A i \in DOMAIN made' :
                                        \/ i \in DOMAIN made /\ made'[i] = made[i]
                                        \/ made'[i] = m
      BY <2>6, <2>9, <3>1
    <3> QED
      BY <1>1, <1>4, <2>6, <3>1, <3>2 DEF MadeOK
  <2>13. due <= clock
    BY <1>1, <1>3, <1>4
  <2>14. Inv' /\ runs'[due] = new /\ \A s \in Times : s # due => runs'[s] = runs[s]
    BY <1>7, <2>7, <2>9, <2>10, <2>11, <2>12, <2>13, RunStepOK
  <2>15. worker' = Idle \/ (Same(worker', worker) /\ worker'.pc = "patch")
    BY <2>4, <2>10 DEF Same
  <2> QED
    BY <1>1, <1>4, <1>7, <1>9, <2>5, <2>6, <2>7, <2>9, <2>10, <2>14, <2>15
<1> QED
  BY <1>8, <1>9

(* The run that has the name is found, or not. *)
LEMMA VerifyStep ==
    ASSUME Inv, VerifyScheduledRun
    PROVE  /\ Inv' /\ worker # Idle /\ worker.pc = "verify"
           /\ worker' = Idle \/ (Same(worker', worker) /\ worker'.pc = "patch")
           /\ UNCHANGED <<agent, runs, clock, changedAt, made, meddling>>
<1>1. /\ worker # Idle /\ worker \in BusyType /\ Past(worker.seen, worker.now)
      /\ worker.now <= clock /\ WorkOK(worker) /\ worker.pc = "verify"
  BY NotIdle DEF VerifyScheduledRun
<1>2. PlanOK(worker) /\ ChoiceOK(worker)
  BY <1>1 DEF WorkOK, Before
<1>3. worker.base \in AgentType /\ worker.now \in Nat
  BY <1>1, BusyFields
<1>4. PICK due \in Times : due = Due(worker) /\ due \in Nat /\ due <= worker.now
  BY <1>1, <1>2, ChoiceIs
<1>5. PICK st \in StatusType :
                 /\ st = StatusFor(worker, NextSlot(worker.base.spec, due))
                 /\ st.runsCreated >= worker.base.status.runsCreated
                 /\ st.runsCreated + 1 \in 0..MaxRunSuffix
                 /\ st.observedGeneration = worker.base.generation
                 /\ st.nextSchedule > worker.now
                 /\ st.lastSchedule >= worker.base.status.lastSchedule
                 /\ worker.base.status.lastSchedule <= worker.now => st.lastSchedule <= worker.now
  BY <1>1, <1>2, <1>4, ChoiceIs
<1>6. runs[due].seq \in 0..MaxRunSuffix
  BY DEF Inv, TypeOK, RunsType, RunType
<1>7. Latest(worker.kept) \in {Zero} \cup Times
  BY <1>1, <1>2, ChoiceIs
<1>8. PICK f \in StatusType :
              /\ f = RecoverScheduledRunStatus(st, runs[due].seq, due, Latest(worker.kept))
              /\ f.runsCreated >= st.runsCreated /\ f.nextSchedule = st.nextSchedule
              /\ f.observedGeneration = st.observedGeneration
              /\ f.lastSchedule >= st.lastSchedule
              /\ \A now \in Nat : due <= now /\ st.lastSchedule <= now => f.lastSchedule <= now
  BY <1>6, <1>7, RecoverIs
<1>9. PICK c \in 0..MaxRunSuffix : /\ c = Larger(f.runsCreated, st.runsCreated + 1)
                                   /\ c >= f.runsCreated
  <2>1. f.runsCreated \in 0..MaxRunSuffix
    BY StatusFields
  <2> QED
    BY <1>5, <2>1, BoundsAssumption DEF Larger
<1>10. PICK n : n = [f EXCEPT !.runsCreated = c]
  OBVIOUS
<1>11. /\ n \in StatusType /\ n.runsCreated = c /\ n.lastSchedule = f.lastSchedule
       /\ n.nextSchedule = f.nextSchedule /\ n.observedGeneration = f.observedGeneration
  BY <1>10 DEF StatusType
<1>12. /\ n.runsCreated >= worker.base.status.runsCreated /\ n.nextSchedule > worker.now
       /\ n.observedGeneration = worker.base.generation
       /\ n.lastSchedule >= worker.base.status.lastSchedule
       /\ worker.base.status.lastSchedule <= worker.now => n.lastSchedule <= worker.now
  <2>1. /\ worker.base.status.runsCreated \in Int /\ st.runsCreated \in Int
        /\ f.runsCreated \in Int
        /\ worker.base.status.lastSchedule \in Int /\ st.lastSchedule \in Int
        /\ f.lastSchedule \in Int
    BY <1>3, AgentFields, StatusFields
  <2> QED
    BY <1>3, <1>4, <1>5, <1>8, <1>9, <1>11, <2>1
<1>13. PICK v \in BusyType :
              /\ v = Created(worker, n) /\ v.pc = "patch"
              /\ v.base = worker.base /\ v.now = worker.now /\ v.seen = worker.seen /\ WorkOK(v)
  BY <1>1, <1>11, <1>12, RecordOK
<1>14. GoOn(v) \/ Retry
  BY <1>4, <1>5, <1>8, <1>9, <1>10, <1>13 DEF VerifyScheduledRun
<1>15. (worker' = v \/ worker' = Idle) /\ QueueTyped
  BY <1>14, EndTypes DEF GoOn
<1>16. WorkerOK(worker', clock)
  BY <1>1, <1>13, <1>15 DEF WorkerOK
<1>17. /\ UNCHANGED <<agent, runs, caches, clock, changedAt, made>>
       /\ BoundsTyped /\ meddling' = meddling
  BY EndTypes DEF VerifyScheduledRun, bounds
<1>18. Inv'
  BY <1>15, <1>16, <1>17, WorkerStepOK
<1> QED
  BY <1>1, <1>13, <1>15, <1>17, <1>18 DEF Same

(* The status is written. *)
LEMMA SetStatusStep ==
    ASSUME Inv, SetAgentStatus
    PROVE  /\ Inv' /\ worker # Idle /\ worker' = Idle /\ worker.pc = "patch" /\ PatchOK(worker)
           /\ agent'.spec = agent.spec /\ agent'.generation = agent.generation
           /\ agent'.status = MergePatch(agent.status, worker.base.status, worker.next)
           /\ UNCHANGED <<runs, clock, changedAt, made, meddling>>
<1>1. /\ worker # Idle /\ worker \in BusyType /\ worker.pc = "patch" /\ PatchOK(worker)
  BY NotIdle DEF SetAgentStatus, WorkOK
<1>2. /\ worker.base \in AgentType /\ worker.next \in StatusType /\ agent \in AgentType
      /\ worker.base.status \in StatusType /\ agent.status \in StatusType
  BY <1>1, BusyFields, AgentFields DEF Inv, TypeOK
<1>3. PICK st \in StatusType : st = MergePatch(agent.status, worker.base.status, worker.next)
  BY <1>2, MergePatchType
<1>4. PICK new : new = [agent EXCEPT !.status = st]
  OBVIOUS
<1>5. /\ new \in AgentType /\ new.status = st /\ new.spec = agent.spec
      /\ new.generation = agent.generation
  BY <1>2, <1>4 DEF AgentType
<1>6. PICK at \in {Zero} \cup Nat : at = IF worker.base.spec.valid /\ ~worker.base.spec.suspend
                                         THEN worker.next.nextSchedule ELSE Zero
  BY <1>2, StatusFields
<1>7. /\ SetAgent(new) /\ Replied(Finish(at))
      /\ UNCHANGED <<runs, agentCache, runCache, runEvents, clock, changedAt, made>>
  BY <1>3, <1>4, <1>6 DEF SetAgentStatus, Replied, Finish
<1>8. worker' = Idle /\ QueueTyped /\ BoundsTyped /\ meddling' = meddling
  <2>1. CASE Finish(at) /\ UNCHANGED bounds
    BY <2>1, EndTypes DEF bounds
  <2>2. CASE Retry /\ Fault
    BY <2>2, EndTypes DEF Fault
  <2> QED
    BY <1>7, <2>1, <2>2 DEF Replied
<1>9. WorkerOK(worker', clock) /\ changedAt' \in [1..MaxGeneration -> Times]
  BY <1>7, <1>8 DEF WorkerOK, Inv, TypeOK
<1>10. Inv'
  BY <1>5, <1>7, <1>8, <1>9, AgentStepOK
<1> QED
  BY <1>1, <1>3, <1>5, <1>7, <1>8, <1>10 DEF SetAgent

(* The events, timers and faults of the controller. *)
LEMMA DeliverAgentStep ==
    ASSUME Inv, DeliverAgentEvent
    PROVE  Inv' /\ UNCHANGED <<agent, runs, worker, clock, changedAt, made, meddling>>
<1>1. /\ agentEvents \in Seq(AgentType) /\ agentEvents # <<>> /\ agent \in AgentType
      /\ agentCache' = Head(agentEvents) /\ agentEvents' = Tail(agentEvents) /\ dirty' = TRUE
      /\ UNCHANGED <<agent, runs, runCache, runEvents, worker, timer, clock, bounds,
                     changedAt, made>>
  BY DEF Inv, TypeOK, DeliverAgentEvent
<1>2. agentEvents[Len(agentEvents)] = agent
  BY <1>1 DEF Inv, CacheInv
<1>3. /\ agentCache' \in AgentType /\ agentEvents' \in Seq(AgentType)
      /\ agentEvents' = <<>> => agentCache' = agent
      /\ agentEvents' # <<>> => agentEvents'[Len(agentEvents')] = agent
  BY <1>1, <1>2, TailIs
<1>4. TypeOK'
  BY <1>1, <1>3 DEF Inv, TypeOK, bounds
<1>5. CacheInv'
  BY <1>1, <1>3 DEF Inv, CacheInv
<1>6. PastInv' /\ WorkInv'
  BY <1>1 DEF Inv, PastInv, WorkInv
<1> QED
  BY <1>1, <1>4, <1>5, <1>6 DEF Inv, bounds

(* The same for the runs. *)
LEMMA DeliverRunStep ==
    ASSUME Inv, DeliverRunEvent
    PROVE  Inv' /\ UNCHANGED <<agent, runs, worker, clock, changedAt, made, meddling>>
<1>1. /\ runEvents \in Seq(RunsType) /\ runEvents # <<>> /\ runs \in RunsType
      /\ runCache' = Head(runEvents) /\ runEvents' = Tail(runEvents)
      /\ UNCHANGED <<agent, runs, agentCache, agentEvents, worker, timer, clock, bounds,
                     changedAt, made>>
  BY DEF Inv, TypeOK, DeliverRunEvent
<1>2. runEvents[Len(runEvents)] = runs /\ \A i \in DOMAIN runEvents : Past(runEvents[i], clock)
  BY <1>1 DEF Inv, CacheInv, PastInv
<1>3. dirty' \in BOOLEAN
  BY DEF DeliverRunEvent, Inv, TypeOK
<1>4. /\ runCache' \in RunsType /\ runEvents' \in Seq(RunsType)
      /\ runEvents' = <<>> => runCache' = runs
      /\ runEvents' # <<>> => runEvents'[Len(runEvents')] = runs
  BY <1>1, <1>2, TailIs
<1>5. Past(runCache', clock) /\ \A i \in DOMAIN runEvents' : Past(runEvents'[i], clock)
  <2>1. 1 \in DOMAIN runEvents /\ runCache' = runEvents[1]
    BY <1>1
  <2>2. \A i \in DOMAIN runEvents' : i + 1 \in DOMAIN runEvents /\ runEvents'[i] = runEvents[i + 1]
    BY <1>1
  <2> QED
    BY <1>2, <2>1, <2>2
<1>6. TypeOK'
  BY <1>1, <1>3, <1>4 DEF Inv, TypeOK, bounds
<1>7. CacheInv'
  BY <1>1, <1>4 DEF Inv, CacheInv
<1>8. PastInv' /\ WorkInv'
  BY <1>1, <1>5 DEF Inv, PastInv, WorkInv
<1> QED
  BY <1>1, <1>6, <1>7, <1>8 DEF Inv, bounds

(* A requeue falls due, or a call fails. *)
LEMMA AsideStep ==
    ASSUME Inv, RequeueAfter \/ ApiCallFails
    PROVE  /\ Inv' /\ (worker' = worker \/ worker' = Idle)
           /\ UNCHANGED <<agent, runs, clock, changedAt, made, meddling>>
<1>1. CASE RequeueAfter
  <2>1. WorkerOK(worker', clock) /\ QueueTyped /\ BoundsTyped
    BY <1>1, WorkerIs, EndTypes DEF RequeueAfter, QueueTyped
  <2> QED
    BY <1>1, <2>1, WorkerStepOK DEF RequeueAfter, bounds
<1>2. CASE ApiCallFails
  <2>1. WorkerOK(worker', clock) /\ QueueTyped /\ BoundsTyped /\ worker' = Idle
    BY <1>2, EndTypes DEF ApiCallFails, WorkerOK
  <2> QED
    BY <1>2, <2>1, WorkerStepOK DEF ApiCallFails, Fault
<1> QED
  BY <1>1, <1>2

(* The controller restarts with caches that are up to date. *)
LEMMA CrashStep ==
    ASSUME Inv, Crash
    PROVE  Inv' /\ worker' = Idle /\ UNCHANGED <<agent, runs, clock, changedAt, made, meddling>>
<1>1. /\ worker' = Idle /\ agentCache' = agent /\ agentEvents' = <<>>
      /\ runCache' = runs /\ runEvents' = <<>> /\ dirty' = TRUE /\ timer' = Zero
      /\ UNCHANGED <<agent, runs, clock, changedAt, made>> /\ BoundsTyped /\ meddling' = meddling
  BY EndTypes DEF Crash, Fault
<1>2. TypeOK'
  BY <1>1 DEF Inv, TypeOK, BoundsTyped
<1>3. CacheInv'
  BY <1>1 DEF CacheInv
<1>4. PastInv' /\ WorkInv'
  BY <1>1 DEF Inv, PastInv, WorkInv
<1> QED
  BY <1>1, <1>2, <1>3, <1>4 DEF Inv

(* The surroundings write a run. *)
LEMMA RunsStep ==
    ASSUME Inv, NEW slot \in Times, RunStep(slot)
    PROVE  /\ Inv' /\ UNCHANGED <<agent, worker, clock, changedAt, made>>
           /\ \A s \in Times : s # slot => runs'[s] = runs[s]
           /\ \/ /\ slot \in Owned(runs) /\ runs[slot].phase = "active"
                 /\ slot \in Owned(runs') /\ runs'[slot].phase # "active" /\ meddling' = meddling
              \/ slot \notin Owned(runs') /\ meddling' # 0
<1>1. \E new \in RunType :
         /\ RunAction(slot, new) /\ BoundsTyped
         /\ new.owner = "agent" => slot <= clock
         /\ \/ /\ slot \in Owned(runs) /\ runs[slot].phase = "active"
               /\ new.owner = "agent" /\ new.phase # "active" /\ meddling' = meddling
            \/ new.owner # "agent" /\ meddling' # 0
  <2>1. CASE RunEnds(slot)
    <3>1. PICK phase \in {"Succeeded", "Failed"} :
              RunAction(slot, [runs[slot] EXCEPT !.phase = phase])
      BY <2>1 DEF RunEnds
    <3>2. PICK new : new = [runs[slot] EXCEPT !.phase = phase]
      OBVIOUS
    <3>3. runs[slot] \in RunType /\ runs[slot].owner = "agent"
      BY <2>1 DEF Inv, TypeOK, RunsType, RunEnds, Owned
    <3>4. new \in RunType /\ new.owner = "agent" /\ new.phase # "active"
      BY <3>2, <3>3 DEF RunType
    <3>5. slot <= clock
      BY <2>1 DEF RunEnds, Inv, PastInv, Past
    <3>6. BoundsTyped /\ meddling' = meddling
      BY <2>1, EndTypes DEF RunEnds, bounds
    <3> QED
      BY <2>1, <3>1, <3>2, <3>4, <3>5, <3>6 DEF RunEnds
  <2>2. CASE UserDeletesRun(slot)
    <3>1. BoundsTyped /\ meddling' # 0
      BY <2>2, EndTypes DEF UserDeletesRun, Meddle, Inv, TypeOK
    <3> QED
      BY <2>2, <3>1, NoRunIs DEF UserDeletesRun
  <2>3. CASE StrangerCreatesRun(slot)
    <3>1. BoundsTyped /\ meddling' # 0
      BY <2>3, EndTypes DEF StrangerCreatesRun, Meddle, Inv, TypeOK
    <3>2. NewRun("stranger", 0) \in RunType /\ NewRun("stranger", 0).owner = "stranger"
      BY NewRunIs, BoundsAssumption
    <3> QED
      BY <2>3, <3>1, <3>2 DEF StrangerCreatesRun
  <2> QED
    BY <2>1, <2>2, <2>3 DEF RunStep
<1>2. PICK new \in RunType :
         /\ RunAction(slot, new) /\ BoundsTyped
         /\ new.owner = "agent" => slot <= clock
         /\ \/ /\ slot \in Owned(runs) /\ runs[slot].phase = "active"
               /\ new.owner = "agent" /\ new.phase # "active" /\ meddling' = meddling
            \/ new.owner # "agent" /\ meddling' # 0
  BY <1>1
<1>3. /\ SetRun(slot, new)
      /\ UNCHANGED <<agent, agentCache, agentEvents, runCache, worker, queue, clock,
                     changedAt, made>>
  BY <1>2 DEF RunAction
<1>4. WorkerOK(worker', clock) /\ QueueTyped /\ MadeOK(made', clock)
  BY <1>3, WorkerIs, EndTypes DEF MadeOK, Inv, TypeOK, PastInv
<1>5. Inv' /\ runs'[slot] = new /\ \A s \in Times : s # slot => runs'[s] = runs[s]
  BY <1>2, <1>3, <1>4, RunStepOK
<1> QED
  BY <1>2, <1>3, <1>5 DEF Owned

(* The user changes the spec. *)
LEMMA UpdateStep ==
    ASSUME Inv, UserUpdatesSpec
    PROVE  /\ Inv' /\ UNCHANGED <<runs, worker, clock, made, meddling>>
           /\ agent.generation + 1 \in 1..MaxGeneration
           /\ agent'.generation = agent.generation + 1 /\ agent'.status = agent.status
           /\ changedAt'[agent.generation + 1] = clock
           /\ \A g \in 1..MaxGeneration : g # agent.generation + 1 => changedAt'[g] = changedAt[g]
<1>1. /\ agent \in AgentType /\ agent.generation \in 1..MaxGeneration
      /\ agent.generation + 1 \in 1..MaxGeneration /\ clock \in Times
      /\ changedAt \in [1..MaxGeneration -> Times]
  <2>1. agent \in AgentType /\ clock \in Times /\ changedAt \in [1..MaxGeneration -> Times]
    BY DEF Inv, TypeOK
  <2>2. agent.generation \in 1..MaxGeneration /\ agent.generation < MaxGeneration
    BY <2>1, AgentFields DEF UserUpdatesSpec
  <2> QED
    BY <2>1, <2>2, BoundsAssumption
<1>2. PICK spec \in Specs : SetAgent([agent EXCEPT !.generation = @ + 1, !.spec = spec])
  BY DEF UserUpdatesSpec
<1>3. PICK g \in 1..MaxGeneration : g = agent.generation + 1
  BY <1>1
<1>4. PICK new : new = [agent EXCEPT !.generation = g, !.spec = spec]
  OBVIOUS
<1>5. new \in AgentType /\ new.generation = g /\ new.status = agent.status
  BY <1>1, <1>4 DEF AgentType
<1>6. SetAgent(new)
  BY <1>1, <1>2, <1>3, <1>4 DEF AgentType
<1>7. /\ UNCHANGED <<runs, agentCache, runCache, runEvents, worker, queue, clock, bounds, made>>
      /\ changedAt' = [changedAt EXCEPT ![g] = clock]
  BY <1>3 DEF UserUpdatesSpec
<1>8. /\ changedAt' \in [1..MaxGeneration -> Times] /\ changedAt'[g] = clock
      /\ \A h \in 1..MaxGeneration : h # g => changedAt'[h] = changedAt[h]
  BY <1>1, <1>7
<1>9. WorkerOK(worker', clock) /\ QueueTyped /\ BoundsTyped
  BY <1>7, WorkerIs, EndTypes
<1>10. Inv'
  BY <1>5, <1>6, <1>7, <1>8, <1>9, AgentStepOK
<1> QED
  BY <1>1, <1>3, <1>5, <1>6, <1>7, <1>8, <1>10 DEF SetAgent, bounds

(* Time passes. *)
LEMMA TickStep ==
    ASSUME Inv, Tick
    PROVE  /\ Inv' /\ clock' = clock + 1 /\ clock \in Nat
           /\ UNCHANGED <<agent, runs, worker, changedAt, made, meddling>>
<1>1. /\ clock \in Nat /\ clock' = clock + 1 /\ clock' \in Times
      /\ UNCHANGED <<agent, runs, caches, worker, queue, bounds, changedAt, made>>
  <2>1. clock \in 0..MaxTime
    BY DEF Inv, TypeOK, Times
  <2> QED
    BY <2>1, BoundsAssumption DEF Tick, Times
<1>2. TypeOK'
  BY <1>1 DEF Inv, TypeOK, caches, queue, bounds
<1>3. CacheInv'
  BY <1>1 DEF Inv, CacheInv, caches
<1>4. ASSUME NEW n \in Int, n <= clock PROVE n <= clock'
  BY <1>1, <1>4
<1>5. \A rs : Past(rs, clock) => Past(rs, clock')
  BY <1>4, TimesAre DEF Past, Owned
<1>6. \A i \in DOMAIN made : made[i].at \in Int
  BY MadeFields DEF Inv, TypeOK
<1>7. worker # Idle => worker.now \in Int
  BY BusyFields DEF Inv, TypeOK
<1>8. PastInv'
  <2>1. Past(runs', clock') /\ Past(runCache', clock')
    BY <1>1, <1>5 DEF Inv, PastInv, caches
  <2>2. \A i \in DOMAIN runEvents' : Past(runEvents'[i], clock')
    BY <1>1, <1>5 DEF Inv, PastInv, caches
  <2>3. \A i \in DOMAIN made' : made'[i].slot <= made'[i].at /\ made'[i].at <= clock'
    BY <1>1, <1>4, <1>6 DEF Inv, PastInv
  <2>4. worker' # Idle => Past(worker'.seen, worker'.now) /\ worker'.now <= clock'
    BY <1>1, <1>4, <1>7 DEF Inv, PastInv
  <2> QED
    BY <2>1, <2>2, <2>3, <2>4 DEF PastInv
<1>9. WorkInv'
  BY <1>1 DEF Inv, WorkInv
<1> QED
  BY <1>1, <1>2, <1>3, <1>8, <1>9 DEF Inv, bounds

(* Inv holds at first. *)
LEMMA InitInv == Init => Inv
<1> SUFFICES ASSUME Init PROVE Inv
  OBVIOUS
<1> USE BoundsAssumption
<1>1. PICK spec \in Specs : agent = [generation |-> 1, spec |-> spec, status |-> EmptyStatus]
  BY DEF Init
<1>2. EmptyStatus \in StatusType
  BY DEF EmptyStatus, StatusType, Reasons
<1>3. agent \in AgentType
  BY <1>1, <1>2 DEF AgentType
<1>4. runs \in RunsType /\ Owned(runs) = {}
  BY NoRunIs DEF Init, NoRuns, RunsType, Owned
<1>5. 0 \in Times /\ Zero \in {Zero} \cup Nat
  BY DEF Times
<1>6. changedAt \in [1..MaxGeneration -> Times] /\ clock \in Times
  BY <1>5 DEF Init
<1>7. /\ agentCache = agent /\ runCache = runs /\ agentEvents = <<>> /\ runEvents = <<>>
      /\ made = <<>> /\ worker = Idle /\ dirty \in BOOLEAN /\ timer = Zero
      /\ faults \in 0..MaxFaults /\ meddling \in 0..MaxMeddling
  BY DEF Init
<1>8. TypeOK
  BY <1>3, <1>4, <1>5, <1>6, <1>7 DEF TypeOK
<1>9. CacheInv
  BY <1>7 DEF CacheInv
<1>10. PastInv /\ WorkInv
  BY <1>4, <1>7 DEF PastInv, Past, WorkInv
<1> QED
  BY <1>8, <1>9, <1>10 DEF Inv

(* Every step keeps it. *)
LEMMA InvStep == ASSUME Inv, [Next]_vars PROVE Inv'
<1>1. CASE WorkerStep
  BY <1>1, ReconcileStep, PruneStep, DecideStep, CreateStep, VerifyStep, SetStatusStep
     DEF WorkerStep
<1>2. CASE QueueStep
  BY <1>2, DeliverAgentStep, DeliverRunStep, AsideStep DEF QueueStep
<1>3. CASE ApiCallFails \/ Crash
  BY <1>3, AsideStep, CrashStep
<1>4. CASE \E slot \in Times : RunStep(slot)
  BY <1>4, RunsStep
<1>5. CASE UserUpdatesSpec \/ Tick
  BY <1>5, UpdateStep, TickStep
<1>6. CASE UNCHANGED vars
  BY <1>6 DEF vars, Inv, TypeOK, CacheInv, PastInv, WorkInv
<1> QED
  BY <1>1, <1>2, <1>3, <1>4, <1>5, <1>6 DEF Next

(* So Inv is an invariant, whatever the caches miss. *)
LEMMA Invariance == Spec => []Inv
BY InitInv, InvStep, PTL DEF Spec

(* Every variable of the scheduler's controller keeps its type: slots are  *)
(* found for every schedule, numbers stay within the counter's range, and  *)
(* a reconcile always has a run to prune next (scheduled.go).              *)
THEOREM TypeCorrect == Spec => []TypeOK
<1>1. Inv => TypeOK
  BY DEF Inv
<1> QED
  BY Invariance, <1>1, PTL

----------------------------------------------------------------------------
(* The status, when the Agent is read as it is.                            *)

(* When a generation of the spec was written. *)
LEMMA ChangedIs ==
    ASSUME Inv, NEW g \in 1..MaxGeneration PROVE changedAt[g] \in Int
<1>1. PICK t \in Times : t = changedAt[g]
  BY DEF Inv, TypeOK
<1>2. t \in Nat
  BY TimesAre
<1> QED
  BY <1>1, <1>2

(* A step that leaves the Agent, and what is on record about it, alone. *)
LEMMA AgentAside ==
    ASSUME Inv, AgentInv, UNCHANGED <<agent, changedAt, made>>, clock' = clock \/ clock' = clock + 1,
           \/ worker' = worker \/ worker' = Idle
           \/ worker # Idle /\ Same(worker', worker)
    PROVE  AgentInv'
<1>1. /\ clock \in Nat /\ agent \in AgentType /\ changedAt \in [1..MaxGeneration -> Times]
  BY TimesAre DEF Inv, TypeOK
<1>2. agent.status.lastSchedule \in Int /\ \A g \in 1..MaxGeneration : changedAt[g] \in Int
  BY <1>1, AgentFields, StatusFields, TimesAre
<1>3. ASSUME NEW n \in Int, n <= clock PROVE n <= clock'
  BY <1>1, <1>3
<1>4. AgentOK(agent', changedAt', clock')
  BY <1>2, <1>3 DEF AgentInv, AgentOK
<1>5. \A g \in 1..MaxGeneration : changedAt'[g] <= clock'
  BY <1>2, <1>3 DEF AgentInv
<1>6. worker' # Idle => worker # Idle /\ worker'.base = worker.base /\ worker'.now = worker.now
  BY DEF Same
<1> QED
  BY <1>4, <1>5, <1>6 DEF AgentInv

(* The reconcile starts from the Agent as it is. *)
LEMMA AgentReconcile ==
    ASSUME AgentLag = 0, Inv, AgentInv, ReconcileScheduled
    PROVE  AgentInv' /\ agentCache = agent
<1>1. /\ worker' \in BusyType /\ worker'.base = agentCache /\ worker'.now = clock
      /\ UNCHANGED <<agent, clock, changedAt, made>>
  BY ReconcileStep
<1>2. agentCache = agent
  <2>1. agentEvents \in Seq(AgentType) /\ Len(agentEvents) <= 0
    BY DEF ReconcileScheduled, Inv, TypeOK
  <2>2. agentEvents = <<>>
    BY <2>1
  <2> QED
    BY <2>2 DEF Inv, CacheInv
<1>3. agent.generation \in 1..MaxGeneration /\ agent.generation <= agent.generation
  <2>1. agent.generation \in 1..MaxGeneration /\ agent.generation \in Nat
    BY AgentFields DEF Inv, TypeOK
  <2> QED
    BY <2>1
<1>4. /\ worker'.base.status = agent'.status /\ worker'.base.generation <= agent'.generation
      /\ worker'.base.generation = agent'.generation => worker'.base.spec = agent'.spec
      /\ AgentOK(worker'.base, changedAt', worker'.now)
      /\ changedAt'[worker'.base.generation] <= worker'.now
  BY <1>1, <1>2, <1>3 DEF AgentInv
<1>5. AgentInv'
  BY <1>1, <1>4 DEF AgentInv
<1> QED
  BY <1>2, <1>5

(* The run that is created is for a slot after the spec was written. *)
LEMMA AgentCreate ==
    ASSUME Inv, AgentInv, CreateRun
    PROVE  AgentInv'
<1>1. /\ worker # Idle /\ worker.pc = "create" /\ UNCHANGED <<agent, clock, changedAt>>
      /\ worker' = Idle \/ Same(worker', worker)
      /\ \/ UNCHANGED made
         \/ Record(worker) \in MadeType /\ made' = Append(made, Record(worker))
  BY CreateStep
<1>2. CASE UNCHANGED made
  BY <1>1, <1>2, AgentAside
<1>3. CASE Record(worker) \in MadeType /\ made' = Append(made, Record(worker))
  <2>1. /\ worker \in BusyType /\ Past(worker.seen, worker.now) /\ PlanOK(worker)
        /\ ChoiceOK(worker)
    BY <1>1, NotIdle DEF WorkOK, Before
  <2>2. Due(worker) \in Nat /\ worker.base.status.nextSchedule <= Due(worker)
    BY <2>1, ChoiceIs
  <2>3. Current(worker.base)
    BY <2>1 DEF Current, PlanOK, ChoiceOK, NeedsAnchor
  <2>4. worker.base.status.nextSchedule > changedAt[worker.base.generation]
    BY <1>1, <2>3 DEF AgentInv, AgentOK, Anchored
  <2>5. /\ worker.base.generation \in 1..MaxGeneration /\ worker.base.status.nextSchedule \in Int
        /\ changedAt[worker.base.generation] \in Int
    <3>1. /\ worker.base \in AgentType /\ changedAt \in [1..MaxGeneration -> Times]
      BY <2>1, BusyFields DEF Inv, TypeOK
    <3>2. worker.base.generation \in 1..MaxGeneration /\ worker.base.status.nextSchedule \in Int
      BY <3>1, AgentFields, StatusFields
    <3> QED
      BY <3>2, ChangedIs
  <2>6. PICK m \in MadeType : m = Record(worker)
    BY <1>3
  <2>7. m.slot > changedAt[m.generation] /\ m.generation <= agent.generation
    BY <1>1, <2>2, <2>4, <2>5, <2>6 DEF Record, AgentInv
  <2>8. \A i \in DOMAIN made' : \/ i \in DOMAIN made /\ made'[i] = made[i]
                                \/ made'[i] = m
    BY <1>3, <2>6 DEF Inv, TypeOK
  <2>9. \A i \in DOMAIN made' : /\ made'[i].slot > changedAt'[made'[i].generation]
                                /\ made'[i].generation <= agent'.generation
    BY <1>1, <2>7, <2>8 DEF AgentInv
  <2>10. worker' # Idle => worker'.base = worker.base /\ worker'.now = worker.now
    BY <1>1 DEF Same
  <2> QED
    BY <1>1, <2>9, <2>10 DEF AgentInv
<1> QED
  BY <1>1, <1>2, <1>3

(* The status becomes what the reconcile computed from it. *)
LEMMA AgentWrite ==
    ASSUME Inv, AgentInv, SetAgentStatus
    PROVE  /\ AgentInv' /\ agent'.status = worker.next /\ worker.base.status = agent.status
           /\ PatchOK(worker) /\ worker # Idle /\ worker.pc = "patch" /\ worker' = Idle
           /\ agent'.spec = agent.spec /\ agent'.generation = agent.generation
           /\ UNCHANGED <<runs, clock, changedAt, made, meddling>>
<1>1. /\ worker # Idle /\ worker' = Idle /\ worker.pc = "patch" /\ PatchOK(worker)
      /\ agent'.spec = agent.spec /\ agent'.generation = agent.generation
      /\ agent'.status = MergePatch(agent.status, worker.base.status, worker.next)
      /\ UNCHANGED <<runs, clock, changedAt, made, meddling>>
  BY SetStatusStep
<1>2. /\ worker \in BusyType /\ worker.now <= clock /\ worker.now \in Nat /\ clock \in Nat
      /\ worker.next \in StatusType /\ worker.base \in AgentType
  BY <1>1, NotIdle, BusyFields, TimesAre DEF Inv, TypeOK
<1>3. worker.base.status = agent.status /\ worker.base.status \in StatusType
  BY <1>1, <1>2, AgentFields DEF AgentInv
<1>4. agent'.status = worker.next
  BY <1>1, <1>2, <1>3, MergePatchOnBase
<1>5. /\ worker.next.lastSchedule \in Int /\ worker.next.nextSchedule \in Int
      /\ worker.base.generation \in 1..MaxGeneration
  BY <1>2, StatusFields, AgentFields
<1>6. changedAt[worker.base.generation] \in Int
  BY <1>5, ChangedIs
<1>7. /\ worker.base.generation <= agent.generation
      /\ worker.base.generation = agent.generation => worker.base.spec = agent.spec
      /\ worker.base.status.lastSchedule <= worker.now
      /\ changedAt[worker.base.generation] <= worker.now
  BY <1>1 DEF AgentInv, AgentOK
<1>8. /\ worker.next.lastSchedule <= worker.now
      /\ worker.base.spec.valid => worker.next.nextSchedule > worker.now
      /\ worker.next.observedGeneration = worker.base.generation
  BY <1>1, <1>7 DEF PatchOK
<1>9. ASSUME Current(agent')
      PROVE  /\ worker.next.lastSchedule < worker.next.nextSchedule
             /\ worker.next.nextSchedule > changedAt[agent.generation]
  <2>1. worker.base.generation = agent.generation /\ worker.base.spec.valid
    BY <1>1, <1>4, <1>7, <1>8, <1>9 DEF Current
  <2> QED
    BY <1>2, <1>5, <1>6, <1>7, <1>8, <2>1
<1>10. AgentOK(agent', changedAt', clock')
  <2>1. worker.next.lastSchedule <= clock
    BY <1>2, <1>5, <1>8
  <2> QED
    BY <1>1, <1>4, <1>7, <1>8, <1>9, <2>1 DEF AgentOK, Ahead, Anchored
<1>11. AgentInv'
  BY <1>1, <1>10 DEF AgentInv
<1> QED
  BY <1>1, <1>3, <1>4, <1>11

(* A new spec is not followed before a reconcile has anchored it. *)
LEMMA AgentUpdate ==
    ASSUME Inv, AgentInv, UserUpdatesSpec
    PROVE  AgentInv' /\ ~Current(agent')
<1>1. /\ UNCHANGED <<worker, clock, made>>
      /\ agent.generation + 1 \in 1..MaxGeneration
      /\ agent'.generation = agent.generation + 1 /\ agent'.status = agent.status
      /\ changedAt'[agent.generation + 1] = clock
      /\ \A g \in 1..MaxGeneration : g # agent.generation + 1 => changedAt'[g] = changedAt[g]
  BY UpdateStep
<1>2. agent \in AgentType /\ agent.generation \in Nat /\ agent.status.observedGeneration \in Nat
  BY AgentFields, StatusFields DEF Inv, TypeOK
<1>3. ~Current(agent')
  BY <1>1, <1>2 DEF Current, AgentInv, AgentOK
<1>4. AgentOK(agent', changedAt', clock')
  BY <1>1, <1>2, <1>3 DEF AgentOK, Ahead, Anchored, AgentInv
<1>5. clock \in Nat /\ \A g \in 1..MaxGeneration : changedAt'[g] <= clock'
  <2>1. clock \in Nat
    BY TimesAre DEF Inv, TypeOK
  <2> QED
    BY <1>1, <2>1 DEF AgentInv
<1>6. \A g \in 1..MaxGeneration : g <= agent.generation =>
          changedAt'[g] = changedAt[g] /\ g <= agent'.generation /\ g # agent'.generation
  BY <1>1, <1>2
<1>7. \A i \in DOMAIN made' : /\ made'[i].slot > changedAt'[made'[i].generation]
                              /\ made'[i].generation <= agent'.generation
  <2>1. \A i \in DOMAIN made : made[i].generation \in 1..MaxGeneration
    BY MadeFields DEF Inv, TypeOK
  <2> QED
    BY <1>1, <1>6, <2>1 DEF AgentInv
<1>8. ASSUME worker' # Idle
      PROVE  /\ worker'.base.status = agent'.status /\ worker'.base.generation <= agent'.generation
             /\ worker'.base.generation = agent'.generation => worker'.base.spec = agent'.spec
             /\ AgentOK(worker'.base, changedAt', worker'.now)
             /\ changedAt'[worker'.base.generation] <= worker'.now
  <2>1. worker # Idle /\ worker' = worker
    BY <1>1, <1>8
  <2>2. worker.base \in AgentType /\ worker.base.generation \in 1..MaxGeneration
    BY <2>1, BusyFields, AgentFields DEF Inv, TypeOK
  <2>3. /\ worker.base.status = agent.status /\ worker.base.generation <= agent.generation
        /\ AgentOK(worker.base, changedAt, worker.now)
        /\ changedAt[worker.base.generation] <= worker.now
    BY <2>1 DEF AgentInv
  <2>4. /\ changedAt'[worker.base.generation] = changedAt[worker.base.generation]
        /\ worker.base.generation <= agent'.generation
        /\ worker.base.generation # agent'.generation
    BY <1>6, <2>2, <2>3
  <2>5. AgentOK(worker.base, changedAt', worker.now)
    BY <2>3, <2>4 DEF AgentOK, Anchored
  <2> QED
    BY <1>1, <2>1, <2>3, <2>4, <2>5
<1> QED
  BY <1>3, <1>4, <1>5, <1>7, <1>8 DEF AgentInv

(* Every step keeps AgentInv. *)
LEMMA AgentStep ==
    ASSUME AgentLag = 0, Inv, AgentInv, [Next]_vars PROVE AgentInv'
<1>1. CASE ReconcileScheduled
  BY <1>1, AgentReconcile
<1>2. CASE PruneRun
  BY <1>2, PruneStep, AgentAside
<1>3. CASE DecideSlot
  BY <1>3, DecideStep, AgentAside
<1>4. CASE CreateRun
  BY <1>4, AgentCreate
<1>5. CASE VerifyScheduledRun
  BY <1>5, VerifyStep, AgentAside
<1>6. CASE SetAgentStatus
  BY <1>6, AgentWrite
<1>7. CASE QueueStep \/ ApiCallFails \/ Crash
  <2>1. /\ worker' = worker \/ worker' = Idle
        /\ UNCHANGED <<agent, changedAt, made, clock>>
    BY <1>7, DeliverAgentStep, DeliverRunStep, AsideStep, CrashStep DEF QueueStep
  <2> QED
    BY <2>1, AgentAside
<1>8. CASE \E slot \in Times : RunStep(slot)
  <2>1. UNCHANGED <<agent, worker, clock, changedAt, made>>
    BY <1>8, RunsStep
  <2> QED
    BY <2>1, AgentAside
<1>9. CASE UserUpdatesSpec
  BY <1>9, AgentUpdate
<1>10. CASE Tick
  BY <1>10, TickStep, AgentAside
<1>11. CASE UNCHANGED vars
  BY <1>11, AgentAside DEF vars
<1> QED
  BY <1>1, <1>2, <1>3, <1>4, <1>5, <1>6, <1>7, <1>8, <1>9, <1>10, <1>11 DEF Next, WorkerStep

(* It holds at first. *)
LEMMA AgentInit == Init => AgentInv
<1> SUFFICES ASSUME Init PROVE AgentInv
  OBVIOUS
<1>1. PICK spec \in Specs : agent = [generation |-> 1, spec |-> spec, status |-> EmptyStatus]
  BY DEF Init
<1>2. /\ agent.generation = 1 /\ agent.status.observedGeneration = 0
      /\ agent.status.lastSchedule = Zero
  BY <1>1 DEF EmptyStatus
<1>3. AgentOK(agent, changedAt, clock)
  BY <1>2 DEF AgentOK, Ahead, Anchored, Current, Zero, Init
<1> QED
  BY <1>3, BoundsAssumption DEF AgentInv, Init

(* So it is an invariant of a controller that reads the Agent as it is. *)
LEMMA AgentInvariance ==
    ASSUME AgentLag = 0 PROVE Spec => [](Inv /\ AgentInv)
<1>1. Inv /\ AgentInv /\ [Next]_vars => Inv' /\ AgentInv'
  BY InvStep, AgentStep
<1> QED
  BY <1>1, InitInv, AgentInit, PTL DEF Spec

(* The creation count and the last slot in the status never go back, even  *)
(* when the list they are recomputed from misses runs, as long as the      *)
(* Agent itself is read as it is (scheduledBaseStatus).                    *)
THEOREM ProgressKept ==
    ASSUME AgentLag = 0 PROVE Spec => ProgressIsKept
<1> DEFINE Kept == /\ agent'.status.runsCreated >= agent.status.runsCreated
                   /\ agent'.status.lastSchedule >= agent.status.lastSchedule
<1>1. ASSUME Inv, AgentInv, [Next]_vars PROVE [Kept]_agent
  <2>1. agent.status.runsCreated \in Int /\ agent.status.lastSchedule \in Int
    BY <1>1, AgentFields, StatusFields DEF Inv, TypeOK
  <2>2. CASE SetAgentStatus
    <3>1. /\ agent'.status = worker.next /\ worker.base.status = agent.status
          /\ PatchOK(worker) /\ worker # Idle
      BY <1>1, <2>2, AgentWrite
    <3>2. Ahead(worker.base)
      BY <1>1, <3>1 DEF AgentInv, AgentOK
    <3> QED
      BY <3>1, <3>2 DEF PatchOK
  <2>3. CASE UserUpdatesSpec
    BY <1>1, <2>1, <2>3, UpdateStep
  <2>4. CASE ReconcileScheduled \/ PruneRun \/ DecideSlot \/ CreateRun \/ VerifyScheduledRun
    BY <1>1, <2>4, ReconcileStep, PruneStep, DecideStep, CreateStep, VerifyStep
  <2>5. CASE QueueStep \/ ApiCallFails \/ Crash \/ Tick
    BY <1>1, <2>5, DeliverAgentStep, DeliverRunStep, AsideStep, CrashStep, TickStep DEF QueueStep
  <2>6. CASE \E slot \in Times : RunStep(slot)
    BY <1>1, <2>6, RunsStep
  <2>7. CASE UNCHANGED vars
    BY <2>7 DEF vars
  <2> QED
    BY <1>1, <2>2, <2>3, <2>4, <2>5, <2>6, <2>7 DEF Next, WorkerStep
<1>2. Inv /\ AgentInv /\ [Next]_vars => [Kept]_agent
  BY <1>1
<1> QED
  BY <1>2, AgentInvariance, PTL DEF Spec, ProgressIsKept

----------------------------------------------------------------------------
(* The runs, when the list of them is complete.                            *)

(* A step that leaves the runs alone. *)
LEMMA SeenAside ==
    ASSUME SeenInv, runs' = runs, meddling' = 0 => meddling = 0,
           \/ worker' = worker \/ worker' = Idle
           \/ worker # Idle /\ worker.pc \in Before /\ Same(worker', worker)
    PROVE  SeenInv'
<1>1. CASE worker' = worker \/ worker' = Idle
  BY <1>1 DEF SeenInv, Owned
<1>2. CASE worker # Idle /\ worker.pc \in Before /\ Same(worker', worker)
  <2>1. /\ \A s \in Owned(runs) : runs[s].phase = "active" =>
              s \in Owned(worker.seen) /\ worker.seen[s].phase = "active"
        /\ meddling = 0 =>
              /\ \A s \in Owned(runs) :
                    s \in Owned(worker.seen) /\ (worker.seen[s].phase = "active"
                                                 \/ runs[s] = worker.seen[s])
              /\ \A s \in Owned(worker.seen) \ TooMany(worker.seen, worker.base.spec) :
                    worker.seen[s].phase # "active" => runs[s] = worker.seen[s]
    BY <1>2 DEF SeenInv
  <2>2. worker'.seen = worker.seen /\ worker'.base = worker.base
    BY <1>2 DEF Same
  <2> QED
    BY <2>1, <2>2 DEF SeenInv, Owned
<1> QED
  BY <1>1, <1>2

(* A reconcile starts from all the runs there are. *)
LEMMA SeenReconcile ==
    ASSUME ListLag = 0, Inv, ReconcileScheduled
    PROVE  /\ SeenInv' /\ worker' \in BusyType /\ worker'.seen \in RunsType
           /\ Owned(worker'.seen) = Owned(runs)
<1>1. worker' \in BusyType /\ worker'.seen = OwnRuns(runCache) /\ runs' = runs
  BY ReconcileStep
<1>2. runCache = runs /\ runs \in RunsType
  <2>1. runEvents \in Seq(RunsType) /\ Len(runEvents) <= 0
    BY DEF ReconcileScheduled, Inv, TypeOK
  <2>2. runEvents = <<>>
    BY <2>1
  <2> QED
    BY <2>2 DEF Inv, CacheInv, TypeOK
<1>3. /\ worker'.seen \in RunsType /\ Owned(worker'.seen) = Owned(runs)
      /\ \A s \in Owned(runs) : worker'.seen[s] = runs[s]
  BY <1>1, <1>2, OwnRunsIs
<1>4. SeenInv'
  BY <1>1, <1>3 DEF SeenInv, Owned
<1> QED
  BY <1>1, <1>3, <1>4

(* Pruning takes away only what it set out to. *)
LEMMA SeenPrune ==
    ASSUME Inv, SeenInv, PruneRun
    PROVE  SeenInv'
<1>1. /\ worker # Idle /\ worker.pc = "prune" /\ meddling' = meddling
      /\ worker' = Idle \/ Same(worker', worker)
  BY PruneStep
<1>2. PICK slot \in worker.doomed : /\ slot \in Times /\ runs'[slot] = NoRun
                                    /\ \A s \in Times : s # slot => runs'[s] = runs[s]
  BY PruneStep
<1>3. slot \in TooMany(worker.seen, worker.base.spec)
  BY <1>1, NotIdle DEF WorkOK, PlanOK, Before
<1>4. worker' # Idle => worker'.seen = worker.seen /\ worker'.base = worker.base
  BY <1>1 DEF Same
<1>5. Owned(runs') = Owned(runs) \ {slot}
  BY <1>2, NoRunIs DEF Owned
<1>6. \A s \in Owned(worker.seen) : s \in Times
  BY DEF Owned
<1>7. /\ \A s \in Owned(runs') : runs'[s].phase = "active" =>
            s \in Owned(worker.seen) /\ worker.seen[s].phase = "active"
      /\ meddling' = 0 =>
            /\ \A s \in Owned(runs') :
                  s \in Owned(worker.seen) /\ (worker.seen[s].phase = "active"
                                               \/ runs'[s] = worker.seen[s])
            /\ \A s \in Owned(worker.seen) \ TooMany(worker.seen, worker.base.spec) :
                  worker.seen[s].phase # "active" => runs'[s] = worker.seen[s]
  <2>1. \A s \in Owned(runs') : s \in Owned(runs) /\ runs'[s] = runs[s]
    BY <1>2, <1>5 DEF Owned
  <2>2. \A s \in Owned(worker.seen) \ TooMany(worker.seen, worker.base.spec) : runs'[s] = runs[s]
    BY <1>2, <1>3, <1>6
  <2> QED
    BY <1>1, <2>1, <2>2 DEF SeenInv, Before
<1> QED
  BY <1>4, <1>7 DEF SeenInv

(* Runs end, or users take them away. *)
LEMMA SeenRuns ==
    ASSUME Inv, SeenInv, NEW slot \in Times, RunStep(slot)
    PROVE  SeenInv'
<1>1. /\ worker' = worker /\ \A s \in Times : s # slot => runs'[s] = runs[s]
      /\ \/ /\ slot \in Owned(runs) /\ runs[slot].phase = "active"
            /\ slot \in Owned(runs') /\ runs'[slot].phase # "active" /\ meddling' = meddling
         \/ slot \notin Owned(runs') /\ meddling' # 0
  BY RunsStep
<1> SUFFICES ASSUME worker # Idle, worker.pc \in Before
             PROVE  /\ \A s \in Owned(runs') : runs'[s].phase = "active" =>
                          s \in Owned(worker.seen) /\ worker.seen[s].phase = "active"
                    /\ meddling' = 0 =>
                          /\ \A s \in Owned(runs') :
                                s \in Owned(worker.seen) /\ (worker.seen[s].phase = "active"
                                                             \/ runs'[s] = worker.seen[s])
                          /\ \A s \in Owned(worker.seen)
                                         \ TooMany(worker.seen, worker.base.spec) :
                                worker.seen[s].phase # "active" => runs'[s] = worker.seen[s]
  BY <1>1 DEF SeenInv
<1>2. \A s \in Owned(runs') : s # slot => s \in Owned(runs) /\ runs'[s] = runs[s]
  BY <1>1 DEF Owned
<1>3. \A s \in Owned(worker.seen) : s \in Times
  BY DEF Owned
<1>4. CASE slot \notin Owned(runs') /\ meddling' # 0
  BY <1>2, <1>4 DEF SeenInv
<1>5. CASE /\ slot \in Owned(runs) /\ runs[slot].phase = "active"
           /\ slot \in Owned(runs') /\ runs'[slot].phase # "active" /\ meddling' = meddling
  <2>1. slot \in Owned(worker.seen) /\ worker.seen[slot].phase = "active"
    BY <1>5 DEF SeenInv
  <2>2. \A s \in Owned(worker.seen) : s # slot => runs'[s] = runs[s]
    BY <1>1, <1>3
  <2> QED
    BY <1>2, <1>5, <2>1, <2>2 DEF SeenInv
<1> QED
  BY <1>1, <1>4, <1>5

(* Every step keeps SeenInv. *)
LEMMA SeenStep ==
    ASSUME ListLag = 0, Inv, SeenInv, [Next]_vars PROVE SeenInv'
<1>1. CASE ReconcileScheduled
  BY <1>1, SeenReconcile
<1>2. CASE PruneRun
  BY <1>2, SeenPrune
<1>3. CASE DecideSlot
  BY <1>3, DecideStep, SeenAside DEF Before
<1>4. CASE CreateRun
  <2>1. /\ worker # Idle /\ worker.pc = "create" /\ meddling' = meddling
        /\ \/ Same(worker', worker) /\ UNCHANGED runs
           \/ worker' = Idle \/ (Same(worker', worker) /\ worker'.pc = "patch")
    BY <1>4, CreateStep
  <2>2. CASE Same(worker', worker) /\ UNCHANGED runs
    BY <2>1, <2>2, SeenAside DEF Before
  <2>3. CASE worker' = Idle \/ worker'.pc = "patch"
    BY <2>3 DEF SeenInv, Before
  <2> QED
    BY <2>1, <2>2, <2>3
<1>5. CASE VerifyScheduledRun
  BY <1>5, VerifyStep, SeenAside DEF Before
<1>6. CASE SetAgentStatus
  BY <1>6, SetStatusStep, SeenAside
<1>7. CASE QueueStep \/ ApiCallFails \/ Crash \/ UserUpdatesSpec \/ Tick
  <2>1. /\ worker' = worker \/ worker' = Idle
        /\ runs' = runs /\ meddling' = meddling
    BY <1>7, DeliverAgentStep, DeliverRunStep, AsideStep, CrashStep, UpdateStep, TickStep
       DEF QueueStep
  <2> QED
    BY <2>1, SeenAside
<1>8. CASE \E slot \in Times : RunStep(slot)
  BY <1>8, SeenRuns
<1>9. CASE UNCHANGED vars
  BY <1>9, SeenAside DEF vars
<1> QED
  BY <1>1, <1>2, <1>3, <1>4, <1>5, <1>6, <1>7, <1>8, <1>9 DEF Next, WorkerStep

(* So it is an invariant of a controller whose list of runs is complete. *)
LEMMA SeenInvariance ==
    ASSUME ListLag = 0 PROVE Spec => [](Inv /\ SeenInv)
<1>1. Inv /\ SeenInv /\ [Next]_vars => Inv' /\ SeenInv'
  BY InvStep, SeenStep
<1>2. Init => SeenInv
  BY DEF Init, SeenInv
<1> QED
  BY <1>1, <1>2, InitInv, PTL DEF Spec

(* Under Forbid no run is created while a run of the Agent is active: runs *)
(* may end after the list was read, but none begins (reconcileScheduled).  *)
THEOREM NoOverlap ==
    ASSUME ListLag = 0 PROVE Spec => ForbidMeansNoOverlap
<1> DEFINE Alone == Len(made') > Len(made) /\ worker.base.spec.forbid => ~HasActive(runs)
<1>1. ASSUME Inv, SeenInv, [Next]_vars PROVE [Alone]_made
  <2>1. CASE CreateRun
    <3>1. worker # Idle /\ worker.pc = "create"
      BY <1>1, <2>1, CreateStep
    <3>2. worker \in BusyType /\ PlanOK(worker) /\ ChoiceOK(worker)
      BY <1>1, <3>1, NotIdle DEF WorkOK, Before
    <3>3. ASSUME worker.base.spec.forbid, NEW s \in Owned(runs), runs[s].phase = "active"
          PROVE  FALSE
      <4>1. s \in Owned(worker.seen) /\ worker.seen[s].phase = "active" /\ s \in Times
        BY <1>1, <3>1, <3>3 DEF SeenInv, Before, Owned
      <4>2. worker.seen \in RunsType /\ worker.base.spec \in Specs
        BY <3>2, BusyFields, AgentFields
      <4>3. s \in Owned(worker.kept) /\ worker.kept[s].phase = "active"
        BY <3>2, <4>1, <4>2, RetainedIs DEF PlanOK
      <4> QED
        BY <3>2, <3>3, <4>3 DEF ChoiceOK, OverlapForbidden, HasActive
    <3> QED
      BY <3>3 DEF HasActive
  <2>2. CASE ReconcileScheduled \/ PruneRun \/ DecideSlot \/ VerifyScheduledRun \/ SetAgentStatus
    BY <1>1, <2>2, ReconcileStep, PruneStep, DecideStep, VerifyStep, SetStatusStep
  <2>3. CASE QueueStep \/ ApiCallFails \/ Crash \/ UserUpdatesSpec \/ Tick
    BY <1>1, <2>3, DeliverAgentStep, DeliverRunStep, AsideStep, CrashStep, UpdateStep, TickStep
       DEF QueueStep
  <2>4. CASE \E slot \in Times : RunStep(slot)
    BY <1>1, <2>4, RunsStep
  <2>5. CASE UNCHANGED vars
    BY <2>5 DEF vars
  <2> QED
    BY <1>1, <2>1, <2>2, <2>3, <2>4, <2>5 DEF Next, WorkerStep
<1>2. Inv /\ SeenInv /\ [Next]_vars => [Alone]_made
  BY <1>1
<1> QED
  BY <1>2, SeenInvariance, PTL DEF Spec, ForbidMeansNoOverlap


(* Above every run that is too many, at least as many stay as are kept. *)
LEMMA ExcessLeaves ==
    ASSUME NEW rs \in RunsType, NEW phase, NEW limit \in Nat, NEW s \in Excess(rs, phase, limit)
    PROVE  LET stay == {u \in Owned(rs) : /\ rs[u].phase = phase /\ u > s
                                          /\ u \notin Excess(rs, phase, limit)}
           IN  IsFiniteSet(stay) /\ Cardinality(stay) >= limit
<1> DEFINE group == {u \in Owned(rs) : rs[u].phase = phase}
           ex == Excess(rs, phase, limit)
           stay == {u \in Owned(rs) : rs[u].phase = phase /\ u > s /\ u \notin ex}
<1>1. ex = {u \in group : Cardinality({v \in group : v > u}) >= limit}
  BY DEF Excess
<1>2. group \subseteq Times /\ Times \subseteq Nat /\ \A u \in Times : u <= MaxTime
  BY TimesAre, BoundsAssumption DEF Owned, Times
<1>3. PICK t \in ex : \A u \in ex : u <= t
  <2>1. ex \subseteq Nat /\ ex # {} /\ \A u \in ex : u <= MaxTime
    BY <1>1, <1>2
  <2> HIDE DEF ex
  <2> QED
    BY <2>1, LargestExists, BoundsAssumption
<1> DEFINE above == {u \in group : u > t}
<1>4. t \in Nat /\ s \in Nat /\ s <= t /\ Cardinality(above) >= limit
  BY <1>1, <1>2, <1>3
<1>5. \A u \in group : u \in Nat /\ (u > t => u > s /\ u \notin ex)
  <2>1. ex \subseteq Nat /\ group \subseteq Nat
    BY <1>1, <1>2
  <2> HIDE DEF ex, group
  <2> QED
    BY <1>3, <1>4, <2>1
<1>6. above \subseteq stay
  BY <1>5
<1>7. IsFiniteSet(stay)
  <2>1. IsFiniteSet(0..MaxTime)
    BY FS_Interval, BoundsAssumption
  <2>2. stay \subseteq 0..MaxTime
    BY DEF Owned, Times
  <2> HIDE DEF stay
  <2> QED
    BY <2>1, <2>2, FS_Subset
<1>8. Cardinality(above) <= Cardinality(stay) /\ Cardinality(stay) \in Nat
      /\ Cardinality(above) \in Nat
  <2> HIDE DEF above, stay
  <2> QED
    BY <1>6, <1>7, FS_Subset, FS_CardinalityType
<1> QED
  BY <1>4, <1>7, <1>8

(* What the promise about pruning asks of one run. *)
Safe(s) ==
    LET newer == {u \in Owned(runs) : u > s /\ runs[u].phase = runs[s].phase}
        limit == IF runs[s].phase = "Succeeded" THEN worker.base.spec.keepSucceeded
                 ELSE worker.base.spec.keepFailed
    IN runs[s].phase # "active" /\ Cardinality(newer) >= limit

(* Unless somebody meddles, a run that is pruned is still as it was seen. *)
LEMMA PrunedIsSafe ==
    ASSUME Inv, SeenInv, worker # Idle, worker.pc = "prune", meddling = 0,
           NEW s \in Owned(runs), s \in worker.doomed
    PROVE  Safe(s)
<1> DEFINE spec == worker.base.spec
           seen == worker.seen
           phase == runs[s].phase
           limit == IF phase = "Succeeded" THEN spec.keepSucceeded ELSE spec.keepFailed
           newer == {u \in Owned(runs) : u > s /\ runs[u].phase = phase}
           stay == {u \in Owned(seen) : /\ seen[u].phase = phase /\ u > s
                                        /\ u \notin Excess(seen, phase, limit)}
<1>1. /\ worker \in BusyType /\ seen \in RunsType /\ spec \in Specs
      /\ s \in TooMany(seen, spec)
  BY NotIdle, BusyFields, AgentFields DEF WorkOK, PlanOK, Before
<1>2. seen[s].phase # "active" /\ s \in Owned(seen)
  BY <1>1, RetainedIs
<1>3. runs[s] = seen[s]
  BY <1>2 DEF SeenInv, Before
<1>4. s \in Excess(seen, phase, limit) /\ phase \in {"Succeeded", "Failed"}
  BY <1>1, <1>3 DEF TooMany, Excess
<1>5. limit \in Nat
  BY <1>1, SpecsAssumption
<1>6. IsFiniteSet(stay) /\ Cardinality(stay) >= limit
  <2> HIDE DEF limit, seen, phase
  <2> QED
    BY <1>1, <1>4, <1>5, ExcessLeaves
<1>7. stay \subseteq newer
  <2> SUFFICES ASSUME NEW u \in stay PROVE u \in newer
    OBVIOUS
  <2>1. u \in Owned(seen) /\ seen[u].phase = phase /\ u > s /\ u \in Times
    BY DEF Owned
  <2>2. u \notin TooMany(seen, spec)
    BY <1>4, <2>1 DEF TooMany, Excess
  <2>3. runs[u] = seen[u]
    BY <1>4, <2>1, <2>2 DEF SeenInv, Before
  <2> QED
    BY <2>1, <2>3 DEF Owned
<1>8. IsFiniteSet(newer)
  <2>1. IsFiniteSet(0..MaxTime)
    BY FS_Interval, BoundsAssumption
  <2>2. newer \subseteq 0..MaxTime
    BY DEF Owned, Times
  <2> HIDE DEF newer
  <2> QED
    BY <2>1, <2>2, FS_Subset
<1>9. Cardinality(newer) >= limit
  <2>1. Cardinality(stay) <= Cardinality(newer) /\ Cardinality(stay) \in Nat
        /\ Cardinality(newer) \in Nat
    <3> HIDE DEF stay, newer
    <3> QED
      BY <1>6, <1>7, <1>8, FS_Subset, FS_CardinalityType
  <2> HIDE DEF stay, newer, limit
  <2> QED
    BY <1>5, <1>6, <2>1
<1> QED
  BY <1>4, <1>9 DEF Safe

(* Pruning never removes a run that is active, and leaves the newest runs  *)
(* of each outcome up to its limit, although runs end while it works       *)
(* through a list it read before (pruneScheduledRuns).                     *)
THEOREM PruningSafe ==
    ASSUME ListLag = 0 PROVE Spec => PruningIsSafe
<1> DEFINE Pruned == \A s \in Owned(runs) : runs'[s] = NoRun /\ meddling' = 0 => Safe(s)
<1>1. ASSUME Inv, SeenInv, [Next]_vars PROVE [Pruned]_runs
  <2>1. CASE PruneRun
    <3>1. worker # Idle /\ worker.pc = "prune" /\ meddling' = meddling
      BY <1>1, <2>1, PruneStep
    <3>2. PICK slot \in worker.doomed : \A s \in Times : s # slot => runs'[s] = runs[s]
      BY <1>1, <2>1, PruneStep
    <3>3. ASSUME NEW s \in Owned(runs), runs'[s] = NoRun, meddling' = 0 PROVE Safe(s)
      <4>1. s = slot
        BY <3>2, <3>3, NoRunIs DEF Owned
      <4> QED
        BY <1>1, <3>1, <3>3, <4>1, PrunedIsSafe
    <3> QED
      BY <3>3
  <2>2. CASE CreateRun
    <3>1. \/ runs' = runs
          \/ /\ runs'[Due(worker)].owner = "agent"
             /\ \A s \in Times : s # Due(worker) => runs'[s] = runs[s]
      BY <1>1, <2>2, CreateStep
    <3>2. \A s \in Owned(runs) : runs'[s] # NoRun
      BY <3>1, NoRunIs DEF Owned
    <3> QED
      BY <3>2
  <2>3. CASE ReconcileScheduled \/ DecideSlot \/ VerifyScheduledRun \/ SetAgentStatus
    BY <1>1, <2>3, ReconcileStep, DecideStep, VerifyStep, SetStatusStep
  <2>4. CASE QueueStep \/ ApiCallFails \/ Crash \/ UserUpdatesSpec \/ Tick
    BY <1>1, <2>4, DeliverAgentStep, DeliverRunStep, AsideStep, CrashStep, UpdateStep, TickStep
       DEF QueueStep
  <2>5. CASE \E slot \in Times : RunStep(slot)
    <3>1. PICK slot \in Times : RunStep(slot)
      BY <2>5
    <3>2. /\ \A s \in Times : s # slot => runs'[s] = runs[s]
          /\ slot \in Owned(runs') \/ meddling' # 0
      BY <1>1, <3>1, RunsStep
    <3>3. \A s \in Owned(runs) : runs'[s] # NoRun \/ meddling' # 0
      BY <3>2, NoRunIs DEF Owned
    <3> QED
      BY <3>3
  <2>6. CASE UNCHANGED vars
    BY <2>6 DEF vars
  <2> QED
    BY <1>1, <2>1, <2>2, <2>3, <2>4, <2>5, <2>6 DEF Next, WorkerStep
<1>2. Inv /\ SeenInv /\ [Next]_vars => [Pruned]_runs
  BY <1>1
<1>3. [][Pruned]_runs => PruningIsSafe
  BY DEF PruningIsSafe, Safe
<1> QED
  BY <1>2, <1>3, SeenInvariance, PTL DEF Spec

----------------------------------------------------------------------------
(* The runs made, when nothing is missed.                                  *)

(* What a step has to leave of the last run made. *)
LastStays ==
    meddling' = 0 /\ made # <<>> /\ KeepsHistory(made[Len(made)].spec)
    /\ (\/ Unrecorded(agent, made[Len(made)])
        \/ worker # Idle /\ worker.pc \in Before /\ Unrecorded(worker.base, made[Len(made)]))
    /\ runs[made[Len(made)].slot].owner = "agent"
    => runs'[made[Len(made)].slot].owner = "agent"

(* A step that makes no run and does not touch the Agent. *)
LEMMA MadeAside ==
    ASSUME Inv, MadeInv, UNCHANGED <<agent, made>>, meddling' = 0 => meddling = 0,
           Owned(runs') \subseteq Owned(runs), LastStays,
           \/ worker' = worker \/ worker' = Idle
           \/ worker # Idle /\ worker.pc \in Before /\ Same(worker', worker)
    PROVE  MadeInv'
<1>1. /\ agent' = agent /\ made' = made
  OBVIOUS
<1>2. /\ \A i, j \in DOMAIN made' : i < j => made'[i].at <= made'[j].at
      /\ \A i \in DOMAIN made' : /\ made'[i].spec.valid
                                 /\ made'[i].generation = agent'.generation =>
                                       made'[i].spec = agent'.spec
  BY <1>1 DEF MadeInv
<1>3. \A s \in Owned(runs') : \E i \in DOMAIN made' : made'[i].slot = s
  BY <1>1 DEF MadeInv
<1>4. meddling' = 0 =>
          \A i, j \in DOMAIN made' :
              i < j => \/ made'[j].slot > made'[i].at
                       \/ made'[j].slot = made'[i].slot /\ ~KeepsHistory(made'[j].spec)
  BY <1>1 DEF MadeInv
<1>5. Reaches(agent)'
  <2>1. Reaches(agent)
    BY DEF MadeInv
  <2>2. \A i \in DOMAIN made' : Accounted(agent', made'[i])
    BY <1>1, <2>1 DEF Reaches
  <2>3. LastKept(agent)'
    BY <1>1, <2>1 DEF Reaches, LastKept, LastStays
  <2> QED
    BY <2>2, <2>3 DEF Reaches
<1>6. ASSUME worker' # Idle
      PROVE  /\ worker # Idle /\ worker'.base = worker.base /\ worker'.now = worker.now
             /\ worker'.seen = worker.seen /\ (worker'.pc \in Before => worker.pc \in Before)
  BY <1>6 DEF Same
<1>7. ASSUME worker' # Idle, worker'.pc \in Before
      PROVE  /\ Reaches(worker.base)'
             /\ \A s \in Owned(worker'.seen) : \E i \in DOMAIN made' : made'[i].slot = s
  <2>1. /\ Reaches(worker.base)
        /\ \A s \in Owned(worker.seen) : \E i \in DOMAIN made : made[i].slot = s
    BY <1>6, <1>7 DEF MadeInv
  <2>2. \A i \in DOMAIN made' : Accounted(worker'.base, made'[i])
    BY <1>1, <1>6, <1>7, <2>1 DEF Reaches
  <2>3. LastKept(worker.base)'
    BY <1>1, <1>6, <1>7, <2>1 DEF Reaches, LastKept, LastStays
  <2> QED
    BY <1>1, <1>6, <1>7, <2>1, <2>2, <2>3 DEF Reaches
<1>8. worker' # Idle =>
         \A i \in DOMAIN made' : /\ made'[i].at <= worker'.now
                                 /\ made'[i].generation <= worker'.base.generation
  BY <1>1, <1>6 DEF MadeInv
<1> QED
  BY <1>2, <1>3, <1>4, <1>5, <1>7, <1>8 DEF MadeInv

(* A step that leaves the runs alone as well. *)
LEMMA MadeQuiet ==
    ASSUME Inv, MadeInv, UNCHANGED <<agent, runs, made, meddling>>,
           \/ worker' = worker \/ worker' = Idle
           \/ worker # Idle /\ worker.pc \in Before /\ Same(worker', worker)
    PROVE  MadeInv'
<1>1. LastStays /\ Owned(runs') \subseteq Owned(runs)
  BY DEF LastStays
<1> QED
  BY <1>1, MadeAside

(* Runs end, or users take them away. *)
LEMMA MadeRuns ==
    ASSUME Inv, MadeInv, NEW slot \in Times, RunStep(slot)
    PROVE  MadeInv'
<1>1. /\ UNCHANGED <<agent, worker, made>>
      /\ \A s \in Times : s # slot => runs'[s] = runs[s]
      /\ \/ slot \in Owned(runs) /\ slot \in Owned(runs') /\ meddling' = meddling
         \/ slot \notin Owned(runs') /\ meddling' # 0
  BY RunsStep
<1>2. Owned(runs') \subseteq Owned(runs)
  BY <1>1 DEF Owned
<1>3. meddling' = 0 => \A s \in Times : runs[s].owner = "agent" => runs'[s].owner = "agent"
  BY <1>1 DEF Owned
<1>4. made # <<>> => made[Len(made)].slot \in Times
  <2>1. made \in Seq(MadeType)
    BY DEF Inv, TypeOK
  <2>2. made # <<>> => Len(made) \in DOMAIN made
    BY <2>1
  <2> QED
    BY <2>1, <2>2, MadeFields
<1>5. LastStays
  BY <1>3, <1>4 DEF LastStays
<1> QED
  BY <1>1, <1>2, <1>5, MadeAside

(* The slot of the last run made is the latest of them all. *)
LEMMA LastIsLatest ==
    ASSUME Inv, MadeInv, meddling = 0, made # <<>>, KeepsHistory(made[Len(made)].spec),
           NEW i \in DOMAIN made
    PROVE  /\ made[i].slot <= made[Len(made)].slot /\ Len(made) \in DOMAIN made
           /\ made[i].slot \in Nat /\ made[Len(made)].slot \in Nat
<1>1. made \in Seq(MadeType)
  BY DEF Inv, TypeOK
<1>2. Len(made) \in DOMAIN made /\ (i = Len(made) \/ i < Len(made))
  BY <1>1
<1>3. /\ made[i].slot \in Nat /\ made[i].at \in Nat /\ made[Len(made)].slot \in Nat
  BY <1>1, <1>2, MadeFields
<1>4. made[i].slot <= made[i].at
  BY DEF Inv, PastInv
<1>5. CASE i < Len(made)
  BY <1>2, <1>3, <1>4, <1>5 DEF MadeInv
<1> QED
  BY <1>2, <1>3, <1>5

(* Pruning leaves the last run made, if history is kept. *)
LEMMA MadePrune ==
    ASSUME Inv, AgentInv, MadeInv, PruneRun
    PROVE  MadeInv'
<1>1. /\ worker # Idle /\ worker.pc = "prune"
      /\ worker' = Idle \/ Same(worker', worker)
      /\ UNCHANGED <<agent, made, meddling>>
  BY PruneStep
<1>2. PICK slot \in worker.doomed : /\ slot \in Times /\ runs'[slot] = NoRun
                                    /\ \A s \in Times : s # slot => runs'[s] = runs[s]
  BY PruneStep
<1>3. Owned(runs') \subseteq Owned(runs)
  BY <1>2, NoRunIs DEF Owned
<1>4. worker.pc \in Before
  BY <1>1 DEF Before
<1>5. LastStays
  <2> DEFINE last == made[Len(made)]
             spec == worker.base.spec
  <2> SUFFICES ASSUME meddling = 0, made # <<>>, KeepsHistory(last.spec),
                      Unrecorded(agent, last) \/ Unrecorded(worker.base, last),
                      runs[last.slot].owner = "agent"
               PROVE  runs'[last.slot].owner = "agent"
    BY <1>1 DEF LastStays
  <2>1. made \in Seq(MadeType) /\ Len(made) \in DOMAIN made
    <3>1. made \in Seq(MadeType)
      BY DEF Inv, TypeOK
    <3> QED
      BY <3>1
  <2>2. /\ last.slot \in Times /\ last.slot \in Nat /\ last.generation \in Nat
    BY <2>1, MadeFields
  <2>3. last.spec = spec
    <3>1. worker.base.generation \in Nat /\ agent.generation \in Nat
      BY <1>1, NotIdle, BusyFields, AgentFields DEF Inv, TypeOK
    <3>2. last.generation <= worker.base.generation /\ worker.base.generation <= agent.generation
      BY <1>1, <2>1 DEF MadeInv, AgentInv
    <3>3. last.generation = agent.generation => worker.base.spec = agent.spec
      BY <1>1, <2>2, <3>1, <3>2 DEF AgentInv
    <3> QED
      BY <3>3 DEF Unrecorded
  <2>4. \A s \in Owned(worker.seen) : s \in Nat /\ s <= last.slot
    <3> SUFFICES ASSUME NEW s \in Owned(worker.seen) PROVE s \in Nat /\ s <= last.slot
      OBVIOUS
    <3>1. PICK i \in DOMAIN made : made[i].slot = s
      BY <1>1, <1>4 DEF MadeInv
    <3> QED
      BY <3>1, LastIsLatest
  <2>5. last.slot \notin TooMany(worker.seen, spec)
    <3> SUFFICES ASSUME NEW phase, NEW limit \in Nat, limit > 0,
                        last.slot \in Excess(worker.seen, phase, limit)
                 PROVE  FALSE
      <4>1. spec.keepSucceeded \in Nat /\ spec.keepFailed \in Nat
        BY <1>1, NotIdle, BusyFields, AgentFields, SpecsAssumption
      <4> QED
        BY <2>3, <4>1 DEF TooMany, KeepsHistory
    <3> DEFINE group == {u \in Owned(worker.seen) : worker.seen[u].phase = phase}
               newer == {u \in group : u > last.slot}
    <3>1. Cardinality(newer) >= limit
      BY DEF Excess
    <3>2. newer = {}
      BY <2>2, <2>4
    <3> HIDE DEF newer
    <3> QED
      BY <3>1, <3>2, FS_EmptySet
  <2>6. slot \in TooMany(worker.seen, spec)
    BY <1>1, <1>2, NotIdle DEF WorkOK, PlanOK, Before
  <2> QED
    BY <1>2, <2>2, <2>5, <2>6
<1> QED
  BY <1>1, <1>3, <1>4, <1>5, MadeAside

(* A reconcile starts from the Agent and the runs as they are. *)
LEMMA MadeReconcile ==
    ASSUME AgentLag = 0, ListLag = 0, Inv, AgentInv, MadeInv, ReconcileScheduled
    PROVE  MadeInv'
<1>1. /\ worker' \in BusyType /\ worker'.base = agent /\ worker'.now = clock
      /\ UNCHANGED <<agent, runs, made, meddling>>
  BY ReconcileStep, AgentReconcile
<1>2. Owned(worker'.seen) = Owned(runs)
  BY SeenReconcile
<1>3. \A i \in DOMAIN made : made[i].at <= clock /\ made[i].generation <= agent.generation
  BY DEF Inv, PastInv, AgentInv
<1>4. /\ Reaches(agent) /\ Reaches(agent)' /\ Reaches(worker.base)'
  <2>1. Reaches(agent)
    BY DEF MadeInv
  <2>2. Reaches(agent)'
    BY <1>1, <2>1 DEF Reaches, LastKept
  <2> QED
    BY <1>1, <2>1, <2>2 DEF Reaches, LastKept
<1>5. \A s \in Owned(worker'.seen) : \E i \in DOMAIN made' : made'[i].slot = s
  BY <1>1, <1>2 DEF MadeInv
<1>6. Owned(runs') = Owned(runs)
  BY <1>1
<1> QED
  BY <1>1, <1>3, <1>4, <1>5, <1>6 DEF MadeInv

(* A status that waits for a slot after the run m does not know m as due. *)
LEMMA AheadIsRecorded ==
    ASSUME NEW a \in AgentType, NEW m \in MadeType, a.status.nextSchedule > m.at
    PROVE  ~Unrecorded(a, m)
<1>1. m.at \in Times /\ m.at \in Nat /\ m.slot \in Times /\ m.slot \in Nat /\ m.spec \in Specs
  <2>1. m.at \in Times /\ m.slot \in Times /\ m.spec \in Specs
    BY DEF MadeType
  <2> QED
    BY <2>1, TimesAre
<1>2. a.status.nextSchedule \in {Zero} \cup Nat
  BY AgentFields, StatusFields
<1>3. a.status.nextSchedule \in Nat => LatestDue(m.spec, a.status.nextSchedule, m.at) = Zero
  BY <1>1, LatestDueIs
<1> QED
  BY <1>1, <1>2, <1>3 DEF Unrecorded, Zero

(* Whatever the reconcile has made is behind the status it writes. *)
LEMMA MadeWrite ==
    ASSUME Inv, AgentInv, MadeInv, SetAgentStatus
    PROVE  MadeInv'
<1>1. /\ agent'.status = worker.next /\ PatchOK(worker) /\ worker # Idle /\ worker' = Idle
      /\ agent'.spec = agent.spec /\ agent'.generation = agent.generation
      /\ UNCHANGED <<runs, made, meddling>>
  BY AgentWrite
<1>2. worker \in BusyType /\ made \in Seq(MadeType) /\ agent' \in AgentType /\ agent \in AgentType
  <2>1. Inv'
    BY SetStatusStep
  <2> QED
    BY <1>1, <2>1 DEF Inv, TypeOK
<1>3. /\ worker.now \in Nat /\ worker.base.generation \in Nat /\ agent.generation \in Nat
      /\ worker.next.nextSchedule \in Int
  BY <1>2, BusyFields, AgentFields, StatusFields
<1>4. ASSUME NEW i \in DOMAIN made
      PROVE  Accounted(agent', made[i]) /\ ~Unrecorded(agent', made[i])
  <2>1. /\ made[i] \in MadeType /\ made[i].at \in Nat /\ made[i].generation \in Nat
    BY <1>2, MadeFields
  <2>2. /\ made[i].at <= worker.now /\ made[i].generation <= worker.base.generation
        /\ worker.base.generation <= agent.generation
    BY <1>1 DEF MadeInv, AgentInv
  <2>3. CASE worker.base.spec.valid
    <3>1. agent'.status.nextSchedule > made[i].at
      BY <1>1, <1>3, <2>1, <2>2, <2>3 DEF PatchOK
    <3> QED
      BY <1>2, <2>1, <3>1, AheadIsRecorded DEF Accounted
  <2>4. CASE ~worker.base.spec.valid
    <3>1. /\ agent'.status.observedGeneration = worker.base.generation
          /\ worker.base.generation = agent.generation => ~agent.spec.valid
      BY <1>1, <2>4 DEF PatchOK, AgentInv
    <3>2. made[i].generation < agent.generation
      <4>1. made[i].generation = agent.generation => agent.spec.valid
        BY DEF MadeInv
      <4> QED
        BY <1>3, <2>1, <2>2, <3>1, <4>1
    <3>3. ~Current(agent')
      BY <1>1, <3>1 DEF Current
    <3> QED
      BY <1>1, <1>3, <2>1, <3>2, <3>3 DEF Accounted, Superseded, Unrecorded
  <2> QED
    BY <2>3, <2>4
<1>5. Reaches(agent)'
  <2>1. \A i \in DOMAIN made' : Accounted(agent', made'[i])
    BY <1>1, <1>4
  <2>2. made # <<>> => Len(made) \in DOMAIN made
    BY <1>2
  <2>3. LastKept(agent)'
    BY <1>1, <1>4, <2>2 DEF LastKept
  <2> QED
    BY <2>1, <2>3 DEF Reaches
<1>6. Owned(runs') = Owned(runs)
  BY <1>1
<1> QED
  BY <1>1, <1>5, <1>6 DEF MadeInv

(* A new spec supersedes all that was made under the old ones. *)
LEMMA MadeUpdate ==
    ASSUME Inv, AgentInv, MadeInv, UserUpdatesSpec
    PROVE  MadeInv'
<1>1. /\ UNCHANGED <<runs, worker, made, meddling>> /\ agent'.generation = agent.generation + 1
      /\ ~Current(agent')
  BY UpdateStep, AgentUpdate
<1>2. agent.generation \in Nat /\ made \in Seq(MadeType)
  BY AgentFields DEF Inv, TypeOK
<1>3. ASSUME NEW i \in DOMAIN made
      PROVE  /\ made[i].generation # agent'.generation
             /\ Accounted(agent', made[i]) /\ ~Unrecorded(agent', made[i])
  <2>1. made[i].generation \in Nat /\ made[i].generation <= agent.generation
    BY <1>2, MadeFields DEF AgentInv
  <2> QED
    BY <1>1, <1>2, <2>1 DEF Accounted, Superseded, Unrecorded
<1>4. Reaches(agent)'
  <2>1. \A i \in DOMAIN made' : Accounted(agent', made'[i])
    BY <1>1, <1>3
  <2>2. made # <<>> => Len(made) \in DOMAIN made
    BY <1>2
  <2>3. LastKept(agent)'
    BY <1>1, <1>3, <2>2 DEF LastKept
  <2> QED
    BY <2>1, <2>3 DEF Reaches
<1>5. Reaches(worker.base) => Reaches(worker.base)'
  BY <1>1 DEF Reaches, LastKept
<1>6. Owned(runs') = Owned(runs)
  BY <1>1
<1> QED
  BY <1>1, <1>3, <1>4, <1>5, <1>6 DEF MadeInv

(* A schedule that is followed finds the slot of the run m again, or one   *)
(* that came after m was made.                                             *)
LEMMA FindsAgain ==
    ASSUME NEW w \in BusyType, PlanOK(w), ChoiceOK(w), Past(w.seen, w.now),
           NEW m \in MadeType, m.at <= w.now, Accounted(w.base, m)
    PROVE  \/ Due(w) > m.at
           \/ Due(w) = m.slot /\ Unrecorded(w.base, m)
<1> DEFINE first == w.base.status.nextSchedule
<1>1. m.at \in Times /\ m.at \in Nat /\ m.slot \in Times /\ m.spec \in Specs
  <2>1. m.at \in Times /\ m.slot \in Times /\ m.spec \in Specs
    BY DEF MadeType
  <2> QED
    BY <2>1, TimesAre
<1>2. w.now \in Times /\ w.now \in Nat
  BY BusyFields
<1>3. first \in Nat /\ w.base.status.observedGeneration = w.base.generation
  BY DueIs DEF ChoiceOK
<1>4. Due(w) \in Nat /\ first <= Due(w) /\ Due(w) = LatestDue(w.base.spec, first, w.now)
  BY ChoiceIs DEF Due
<1>5. ~Superseded(w.base, m)
  BY <1>3 DEF Superseded, Current, PlanOK
<1>6. CASE first > m.at
  BY <1>1, <1>3, <1>4, <1>6
<1>7. CASE first <= m.at
  <2>1. Unrecorded(w.base, m)
    BY <1>1, <1>3, <1>5, <1>7 DEF Accounted
  <2>2. m.spec = w.base.spec /\ m.slot = LatestDue(m.spec, first, m.at)
    BY <2>1 DEF Unrecorded
  <2>3. \/ LatestDue(m.spec, first, w.now) = LatestDue(m.spec, first, m.at)
        \/ LatestDue(m.spec, first, w.now) > m.at
    BY <1>1, <1>2, <1>3, <1>7, LaterDue
  <2> QED
    BY <1>4, <2>1, <2>2, <2>3
<1> QED
  BY <1>1, <1>3, <1>6, <1>7

(* So the run created is for a slot that was still to come when the others *)
(* were made, or for one whose run has been pruned.                        *)
LEMMA NewIsLater ==
    ASSUME Inv, MadeInv, worker # Idle, worker.pc = "create", meddling = 0,
           runs[Due(worker)] = NoRun, NEW i \in DOMAIN made
    PROVE  \/ Due(worker) > made[i].at
           \/ Due(worker) = made[i].slot /\ ~KeepsHistory(worker.base.spec)
<1> DEFINE last == made[Len(made)]
           due == Due(worker)
<1>1. /\ worker \in BusyType /\ Past(worker.seen, worker.now) /\ PlanOK(worker)
      /\ ChoiceOK(worker)
  BY NotIdle DEF WorkOK, Before
<1>2. made \in Seq(MadeType) /\ Len(made) \in DOMAIN made /\ (i = Len(made) \/ i < Len(made))
      /\ made # <<>>
  <2>1. made \in Seq(MadeType)
    BY DEF Inv, TypeOK
  <2> QED
    BY <2>1
<1>3. made[i] \in MadeType /\ last \in MadeType /\ made[i].at \in Nat /\ last.at \in Nat
  BY <1>2, MadeFields
<1>4. made[i].at <= worker.now /\ last.at <= worker.now /\ Reaches(worker.base)
  BY <1>2 DEF MadeInv, Before
<1>5. Accounted(worker.base, made[i]) /\ Accounted(worker.base, last) /\ LastKept(worker.base)
  BY <1>2, <1>4 DEF Reaches
<1>6. due > made[i].at \/ due = made[i].slot
  BY <1>1, <1>3, <1>4, <1>5, FindsAgain
<1>7. due > last.at \/ (due = last.slot /\ Unrecorded(worker.base, last))
  BY <1>1, <1>3, <1>4, <1>5, FindsAgain
<1>8. made[i].at <= last.at
  BY <1>2, <1>3 DEF MadeInv
<1>9. due \in Nat
  BY <1>1, ChoiceIs
<1>10. CASE due > last.at
  BY <1>3, <1>8, <1>9, <1>10
<1>11. CASE due = last.slot /\ Unrecorded(worker.base, last)
  <2>1. last.spec = worker.base.spec /\ runs[last.slot].owner # "agent"
    BY <1>11, NoRunIs DEF Unrecorded
  <2>2. ~KeepsHistory(worker.base.spec)
    BY <1>2, <1>5, <1>11, <2>1 DEF LastKept
  <2> QED
    BY <1>6, <2>2
<1> QED
  BY <1>7, <1>10, <1>11

(* The new run is on record as one the status does not know of yet. *)
LEMMA NewIsAccounted ==
    ASSUME Inv, AgentInv, worker # Idle, worker.pc = "create", NEW m \in MadeType,
           m = Record(worker)
    PROVE  /\ m.slot = Due(worker) /\ m.at = worker.now /\ m.spec = worker.base.spec
           /\ m.generation = worker.base.generation /\ m.spec.valid
           /\ m.generation = agent.generation => m.spec = agent.spec
           /\ Accounted(agent, m)
<1>1. /\ worker \in BusyType /\ PlanOK(worker) /\ ChoiceOK(worker)
  BY NotIdle DEF WorkOK, Before
<1>2. /\ m.slot = Due(worker) /\ m.at = worker.now /\ m.spec = worker.base.spec
      /\ m.generation = worker.base.generation
  BY DEF Record
<1>3. /\ worker.base.status = agent.status /\ worker.base.generation <= agent.generation
      /\ worker.base.generation = agent.generation => worker.base.spec = agent.spec
  BY DEF AgentInv
<1>4. /\ agent.status.observedGeneration = worker.base.generation
      /\ agent.status.nextSchedule # Zero /\ worker.base.spec.valid
  BY <1>1, <1>3 DEF PlanOK, ChoiceOK, NeedsAnchor
<1>5. worker.base.generation \in Nat /\ agent.generation \in Nat
  BY <1>1, BusyFields, AgentFields DEF Inv, TypeOK
<1>6. CASE worker.base.generation < agent.generation
  BY <1>2, <1>3, <1>4, <1>5, <1>6 DEF Accounted, Superseded, Current
<1>7. CASE worker.base.generation = agent.generation
  BY <1>2, <1>3, <1>4, <1>7 DEF Accounted, Unrecorded, Due
<1> QED
  BY <1>2, <1>3, <1>4, <1>5, <1>6, <1>7

(* The run is created, or its name is taken. *)
LEMMA MadeCreate ==
    ASSUME Inv, AgentInv, MadeInv, CreateRun
    PROVE  MadeInv'
<1>1. /\ worker # Idle /\ worker.pc = "create" /\ UNCHANGED <<agent, meddling>>
      /\ \/ Same(worker', worker) /\ UNCHANGED <<runs, made>>
         \/ /\ worker' = Idle \/ (Same(worker', worker) /\ worker'.pc = "patch")
            /\ runs[Due(worker)] = NoRun /\ runs'[Due(worker)].owner = "agent"
            /\ \A s \in Times : s # Due(worker) => runs'[s] = runs[s]
            /\ Record(worker) \in MadeType /\ made' = Append(made, Record(worker))
  BY CreateStep
<1>2. CASE Same(worker', worker) /\ UNCHANGED <<runs, made>>
  BY <1>1, <1>2, MadeQuiet DEF Before
<1>3. CASE /\ worker' = Idle \/ (Same(worker', worker) /\ worker'.pc = "patch")
           /\ runs[Due(worker)] = NoRun /\ runs'[Due(worker)].owner = "agent"
           /\ \A s \in Times : s # Due(worker) => runs'[s] = runs[s]
           /\ Record(worker) \in MadeType /\ made' = Append(made, Record(worker))
  <2> DEFINE n == Len(made)
  <2>1. PICK m \in MadeType : m = Record(worker)
    BY <1>3
  <2>2. /\ m.slot = Due(worker) /\ m.at = worker.now /\ m.spec = worker.base.spec
        /\ m.generation = worker.base.generation /\ m.spec.valid
        /\ m.generation = agent.generation => m.spec = agent.spec
        /\ Accounted(agent, m)
    BY <1>1, <2>1, NewIsAccounted
  <2>3. worker.now \in Nat /\ worker.base.generation \in Nat
    BY <1>1, NotIdle, BusyFields, AgentFields
  <2>4. /\ n \in Nat /\ DOMAIN made = 1..n /\ DOMAIN made' = 1..(n + 1) /\ Len(made') = n + 1
        /\ made'[n + 1] = m /\ \A i \in 1..n : made'[i] = made[i]
    <3>1. made \in Seq(MadeType) /\ made' = Append(made, m)
      BY <1>3, <2>1 DEF Inv, TypeOK
    <3> QED
      BY <3>1
  <2>5. \A i \in DOMAIN made' : \/ i \in DOMAIN made /\ made'[i] = made[i]
                                \/ i = n + 1 /\ made'[i] = m
    BY <2>4
  <2>6. \A i \in DOMAIN made : made[i].at <= worker.now
                               /\ made[i].generation <= worker.base.generation
    BY <1>1 DEF MadeInv
  <2>7. \A i, j \in DOMAIN made' : i < j =>
            \/ i \in DOMAIN made /\ j \in DOMAIN made /\ made'[i] = made[i] /\ made'[j] = made[j]
            \/ i \in DOMAIN made /\ made'[i] = made[i] /\ made'[j] = m
    BY <2>4
  <2>8. \A i, j \in DOMAIN made' : i < j => made'[i].at <= made'[j].at
    BY <2>2, <2>6, <2>7 DEF MadeInv
  <2>9. \A i \in DOMAIN made' : /\ made'[i].spec.valid
                                /\ made'[i].generation = agent'.generation =>
                                      made'[i].spec = agent'.spec
    BY <1>1, <2>2, <2>5 DEF MadeInv
  <2>10. \A s \in Owned(runs') : \E i \in DOMAIN made' : made'[i].slot = s
    <3> SUFFICES ASSUME NEW s \in Owned(runs') PROVE \E i \in DOMAIN made' : made'[i].slot = s
      OBVIOUS
    <3>1. CASE s = Due(worker)
      BY <2>2, <2>4, <3>1
    <3>2. CASE s # Due(worker)
      <4>1. s \in Owned(runs)
        BY <1>3, <3>2 DEF Owned
      <4>2. PICK i \in DOMAIN made : made[i].slot = s
        BY <4>1 DEF MadeInv
      <4> QED
        BY <2>4, <4>2
    <3> QED
      BY <3>1, <3>2
  <2>11. meddling' = 0 =>
            \A i, j \in DOMAIN made' :
                i < j => \/ made'[j].slot > made'[i].at
                         \/ made'[j].slot = made'[i].slot /\ ~KeepsHistory(made'[j].spec)
    <3>1. meddling = 0 => \A i \in DOMAIN made :
              \/ m.slot > made[i].at
              \/ m.slot = made[i].slot /\ ~KeepsHistory(m.spec)
      BY <1>1, <1>3, <2>2, NewIsLater
    <3> QED
      BY <1>1, <2>7, <3>1 DEF MadeInv
  <2>12. Reaches(agent)'
    <3>1. \A i \in DOMAIN made' : Accounted(agent', made'[i])
      <4>1. \A i \in DOMAIN made : Accounted(agent, made[i])
        BY DEF MadeInv, Reaches
      <4> QED
        BY <1>1, <2>2, <2>5, <4>1
    <3>2. LastKept(agent)'
      BY <1>3, <2>2, <2>4 DEF LastKept
    <3> QED
      BY <3>1, <3>2 DEF Reaches
  <2>13. worker' # Idle =>
            /\ \A i \in DOMAIN made' : /\ made'[i].at <= worker'.now
                                       /\ made'[i].generation <= worker'.base.generation
            /\ worker'.pc \notin Before
    <3> SUFFICES ASSUME worker' # Idle
                 PROVE  /\ \A i \in DOMAIN made' : /\ made'[i].at <= worker'.now
                                       /\ made'[i].generation <= worker'.base.generation
                        /\ worker'.pc \notin Before
      OBVIOUS
    <3>1. worker'.now = worker.now /\ worker'.base = worker.base /\ worker'.pc = "patch"
      BY <1>3 DEF Same
    <3> QED
      BY <2>2, <2>3, <2>5, <2>6, <3>1 DEF Before
  <2> QED
    BY <2>8, <2>9, <2>10, <2>11, <2>12, <2>13 DEF MadeInv
<1> QED
  BY <1>1, <1>2, <1>3

(* Every step keeps MadeInv. *)
LEMMA MadeStep ==
    ASSUME AgentLag = 0, ListLag = 0, Inv, AgentInv, MadeInv, [Next]_vars PROVE MadeInv'
<1>1. CASE ReconcileScheduled
  BY <1>1, MadeReconcile
<1>2. CASE PruneRun
  BY <1>2, MadePrune
<1>3. CASE DecideSlot
  BY <1>3, DecideStep, MadeQuiet DEF Before
<1>4. CASE CreateRun
  BY <1>4, MadeCreate
<1>5. CASE VerifyScheduledRun
  BY <1>5, VerifyStep, MadeQuiet DEF Before
<1>6. CASE SetAgentStatus
  BY <1>6, MadeWrite
<1>7. CASE QueueStep \/ ApiCallFails \/ Crash \/ Tick
  <2>1. /\ worker' = worker \/ worker' = Idle
        /\ UNCHANGED <<agent, runs, made, meddling>>
    BY <1>7, DeliverAgentStep, DeliverRunStep, AsideStep, CrashStep, TickStep DEF QueueStep
  <2> QED
    BY <2>1, MadeQuiet
<1>8. CASE \E slot \in Times : RunStep(slot)
  BY <1>8, MadeRuns
<1>9. CASE UserUpdatesSpec
  BY <1>9, MadeUpdate
<1>10. CASE UNCHANGED vars
  BY <1>10, MadeQuiet DEF vars
<1> QED
  BY <1>1, <1>2, <1>3, <1>4, <1>5, <1>6, <1>7, <1>8, <1>9, <1>10 DEF Next, WorkerStep

(* However late a reconcile comes it makes one run for all the slots it    *)
(* missed, and none for a slot from before its spec: also when the patch   *)
(* that records a run is lost, when the spec changes while a reconcile is  *)
(* at work, and when the controller restarts (latestDueSlot).              *)
THEOREM NoBackfill ==
    ASSUME AgentLag = 0, ListLag = 0 PROVE Spec => []NeverBackfills
<1> DEFINE All == Inv /\ AgentInv /\ MadeInv
<1>1. Init => All
  <2>1. Init => MadeInv
    <3> SUFFICES ASSUME Init PROVE MadeInv
      OBVIOUS
    <3>1. made = <<>> /\ worker = Idle /\ DOMAIN made = {}
      BY DEF Init
    <3>2. Owned(runs) = {}
      BY NoRunIs DEF Init, NoRuns, Owned
    <3> QED
      BY <3>1, <3>2 DEF MadeInv, Reaches, LastKept
  <2> QED
    BY <2>1, InitInv, AgentInit
<1>2. All /\ [Next]_vars => All'
  BY InvStep, AgentStep, MadeStep
<1>3. All => NeverBackfills
  BY DEF AgentInv, MadeInv, NeverBackfills
<1> QED
  BY <1>1, <1>2, <1>3, PTL DEF Spec
=============================================================================
