---------------------- MODULE AgentRunDelivery_proofs ----------------------
(***************************************************************************)
(* Proofs about warm delivery, for every number of incarnations, standing  *)
(* runs, addresses, budgets and faults, and every window and backoff: the  *)
(* state is well typed whatever the cache misses, and when a reconcile     *)
(* starts from a cache that has caught up (RunLag = 0) an ended run keeps  *)
(* its outcome, only its target's answer counts, no run is cut off before  *)
(* its time, and delivery implements the AgentRun lifecycle.               *)
(***************************************************************************)
EXTENDS AgentRunDelivery, WellFoundedInduction, TLAPS

----------------------------------------------------------------------------
(* The inductive invariant.                                                *)

LiveRunType == [uid : Uids, limit : Limits, created : 0..MaxTime, status : StatusType]
Searching == {"agent", "standing", "pod", "secret"}

(* A standing run that has got its Pod: it never starts a second time, and *)
(* its Pod never changes its address nor comes back once it is gone.       *)
Started(svc, s) ==
    s \in StandingRuns /\ s <= svc.current /\ svc.standing[s] # "unready"

ServiceOK(svc) ==
    \A s \in StandingRuns :
        /\ s > svc.current => svc.standing[s] = "absent"
        /\ svc.pod[s] # "absent" => Started(svc, s)

KnownTarget(svc, t) == Started(svc, t.standing) /\ t.ip = svc.ip[t.standing]

(* What a reconcile is about to write follows from the run it works from.  *)
PatchOK(w) ==
    /\ w.next.reason = "protocol" => w.answer.by = w.target.standing
    /\ w.next.reason = "result" => w.next.output.uid = w.base.uid
    /\ w.next.start = w.base.status.start
    /\ w.base.status.completion = NoTime =>
          /\ IsTerminal(w.next.phase) \/ w.next.completion = NoTime
          /\ w.next.reason = "exceeded" =>
                w.next.completion >= w.base.status.start + w.base.limit
          /\ w.next.reason = "timeout" => w.next.completion >= w.base.created + Window

(* The answer is to the run worked from; a rejection by another Pod than   *)
(* the target's came after that Pod was gone for good.                     *)
AnswerOK(svc, w) ==
    /\ w.answer.uid = w.base.uid /\ w.answer.kind # "none"
    /\ (w.answer.kind = "rejected" /\ w.answer.by # w.target.standing) =>
          svc.pod[w.target.standing] = "absent"

WorkerOK(svc, w, now) ==
    /\ w.pc # "idle" => w.base \in LiveRunType /\ w.base.created <= now
    /\ w.pc \in {"standing", "pod", "secret"} => w.found.standing \in StandingRuns
    /\ w.pc = "secret" => KnownTarget(svc, w.found)
    /\ (w.pc \in {"running", "http", "latest"} \/ (w.pc \in Searching /\ w.stage # "first")) =>
          KnownTarget(svc, w.target)
    /\ (w.pc = "latest" \/ (w.pc \in Searching /\ w.stage = "after")) => AnswerOK(svc, w)
    /\ (w.pc = "secret" /\ w.stage = "after" /\ w.found.standing = w.target.standing
        /\ w.answer.kind = "rejected") => w.answer.by = w.target.standing
    /\ w.pc = "patch" => PatchOK(w)

(* The cache lags behind the API server by the events on their way.        *)
CacheInv ==
    /\ runEvents = <<>> => runCache = run
    /\ runEvents # <<>> => runEvents[Len(runEvents)] = run

(* Every version of the run, stored, cached or on its way, was created in  *)
(* the past and has a uid that was given out.                              *)
Old(r, last, now) == r.uid <= last /\ r.created <= now
PastInv ==
    /\ Old(run, lastUid, clock) /\ Old(runCache, lastUid, clock)
    /\ \A i \in DOMAIN runEvents : Old(runEvents[i], lastUid, clock)
    /\ Old(worker.base, lastUid, clock)

Inv == TypeOK /\ ServiceOK(service) /\ WorkerOK(service, worker, clock) /\ CacheInv /\ PastInv

(* When the cache has caught up: the run a reconcile works from is the one *)
(* in the API server, unless that is gone or a newer, untouched one.  The  *)
(* limit it keeps may be another's once a patch has landed on a newer run. *)
SameRun(r, base) ==
    /\ r.uid = base.uid /\ r.created = base.created /\ r.status = base.status
    /\ r.uid = 1 => r = base

OpenStatus(status) == ~IsTerminal(status.phase) => status.completion = NoTime

Fresh(w, r) ==
    w.pc # "idle" =>
        /\ ~IsTerminal(w.base.status.phase) /\ w.base.status.completion = NoTime
        /\ SameRun(r, w.base) \/ r = NoRun \/ (w.base.uid < r.uid /\ r.status = EmptyStatus)

Sent(w) ==
    (w.base.uid = 1 /\ (w.pc = "http" \/ (w.pc \in Searching /\ w.stage = "before"))) =>
        w.base.status.phase = "Running" /\ w.base.status.pod = w.target.standing

FreshInv == OpenStatus(run.status) /\ Fresh(worker, run) /\ Sent(worker) /\ CutOffInTime

----------------------------------------------------------------------------
(* Operators.                                                              *)

(* Every set of naturals has a least element. *)
LEMMA LeastNatural ==
    ASSUME NEW T, T \subseteq Nat, T # {}
    PROVE  \E m \in T : \A n \in T : m <= n
<1>1. IsWellFoundedOn(OpToRel(<, Nat), Nat)
  BY NatLessThanWellFounded
<1>2. PICK m \in T : \A n \in T : ~(<<n, m>> \in OpToRel(<, Nat))
  BY <1>1, WFMin
<1>3. \A n \in T : ~(n < m)
  BY <1>2 DEF OpToRel
<1> QED
  BY <1>3

(* The elements of a sequence. *)
LEMMA SeqElement ==
    ASSUME NEW S, NEW s \in Seq(S), NEW i \in 1..Len(s) PROVE s[i] \in S
OBVIOUS

(* The backoff table has an entry for every run already created, and its   *)
(* delay is positive.                                                      *)
LEMMA BackoffIsPositive ==
    ASSUME NEW aRun, aRun.created \in Nat, clock \in Nat, aRun.created <= clock
    PROVE  DeliveryBackoff(aRun) \in Nat \ {0}
<1> DEFINE due == {i \in DOMAIN BackoffTable : BackoffTable[i].after <= clock - aRun.created}
           bounds_ == {n \in Nat : \A i \in due : i <= n}
<1>1. PICK len \in Nat : len = Len(BackoffTable) /\ DOMAIN BackoffTable = 1..len /\ len >= 1
  BY BoundsAssumption
<1>2. 1 \in due
  BY <1>1, BoundsAssumption
<1>3. len \in bounds_
  BY <1>1
<1>4. PICK m \in bounds_ : \A n \in bounds_ : m <= n
  BY <1>3, LeastNatural
<1>5. m \in due
  <2> SUFFICES ASSUME m \notin due PROVE FALSE
    OBVIOUS
  <2>1. \A i \in due : i \in Nat /\ i >= 1 /\ i <= m - 1
    BY <1>1, <1>4
  <2>2. m - 1 \in Nat
    BY <1>2, <2>1
  <2>3. m - 1 \in bounds_
    BY <2>1, <2>2
  <2> QED BY <1>4, <2>2, <2>3
<1>6. \E i \in due : \A j \in due : j <= i
  BY <1>4, <1>5
<1> DEFINE k == CHOOSE i \in due : \A j \in due : j <= i
<1>7. k \in due
  BY <1>6
<1>8. DeliveryBackoff(aRun) = BackoffTable[k].delay
  BY DEF DeliveryBackoff
<1> HIDE DEF k
<1>9. BackoffTable[k] \in [after : Nat, delay : Nat \ {0}]
  <2>1. BackoffTable \in Seq([after : Nat, delay : Nat \ {0}])
    BY BoundsAssumption
  <2>2. k \in 1..Len(BackoffTable)
    BY <1>1, <1>7
  <2> QED BY <2>1, <2>2, SeqElement
<1> QED BY <1>8, <1>9

(* The fields of a run that exists, and what is left when it does not.     *)
LEMMA LiveRun ==
    ASSUME NEW r \in LiveRunType
    PROVE  /\ r.uid \in Uids /\ r.uid \in Nat \ {0} /\ r # NoRun
           /\ r.limit \in Limits /\ r.limit \in {NoLimit} \cup Nat
           /\ r.created \in 0..MaxTime /\ r.created \in Nat /\ r.status \in StatusType
<1>1. r.uid \in Uids /\ r.limit \in Limits /\ r.created \in 0..MaxTime /\ r.status \in StatusType
  BY DEF LiveRunType
<1>2. NoRun.uid = 0
  BY DEF NoRun
<1> QED BY <1>1, <1>2, BoundsAssumption DEF Uids

(* What the API server and the cache hold is no run, or one that lives.    *)
LEMMA SomeRun ==
    ASSUME NEW r \in RunType
    PROVE  /\ r = NoRun \/ r \in LiveRunType
           /\ r.uid # 0 => r \in LiveRunType
BY DEF RunType, LiveRunType, NoRun

(* The fields of a status, and that its times are numbers.                 *)
LEMMA StatusFields ==
    ASSUME NEW s \in StatusType
    PROVE  /\ s.phase \in {"unset", "Pending", "Running"} \cup TerminalPhases
           /\ s.pod \in {0} \cup StandingRuns /\ s.start \in Times /\ s.completion \in Times
           /\ s.output \in [uid : {0} \cup Uids, by : {0} \cup StandingRuns]
           /\ s.start \in Int /\ s.completion \in Int
<1>1. Times \subseteq Int
  BY BoundsAssumption DEF Times, NoTime
<1> QED BY <1>1 DEF StatusType

(* A run just created has a status.                                        *)
LEMMA EmptyStatusType == EmptyStatus \in StatusType
BY DEF EmptyStatus, StatusType, NoOutput, Times

(* The run that does not exist is the one with uid 0.                      *)
LEMMA NoRunType ==
    NoRun \in RunType /\ NoRun.uid = 0 /\ NoRun.created = 0 /\ NoRun.status = EmptyStatus
BY DEF RunType, NoRun

(* A merge patch of statuses is a status.                                  *)
LEMMA MergePatchType ==
    ASSUME NEW live \in StatusType, NEW base \in StatusType, NEW next \in StatusType
    PROVE  MergePatch(live, base, next) \in StatusType
BY DEF MergePatch, StatusType

(* A patch on the status it was computed from makes it the one computed.   *)
LEMMA MergePatchOnBase ==
    ASSUME NEW base \in StatusType, NEW next \in StatusType
    PROVE  MergePatch(base, base, next) = next
BY DEF MergePatch, StatusType

(* The statuses a reconcile writes.                                        *)
LEMMA WaitingIs ==
    ASSUME NEW s \in StatusType
    PROVE  /\ SetDeliveryWaiting(s) \in StatusType
           /\ SetDeliveryWaiting(s).reason = "waiting" /\ SetDeliveryWaiting(s).start = s.start
           /\ SetDeliveryWaiting(s).completion = NoTime
<1>1. NoTime \in Times
  BY DEF Times
<1> QED BY <1>1 DEF SetDeliveryWaiting, StatusType

(* A run marked Running names its standing run and keeps its start time.   *)
LEMMA RunningIs ==
    ASSUME NEW s \in StatusType, NEW standing \in StandingRuns, clock \in Times
    PROVE  /\ SetDeliveryRunning(s, standing) \in StatusType
           /\ SetDeliveryRunning(s, standing).phase = "Running"
           /\ SetDeliveryRunning(s, standing).pod = standing
           /\ SetDeliveryRunning(s, standing).completion = NoTime
           /\ SetDeliveryRunning(s, standing).reason = "delivering"
           /\ s.start # NoTime => SetDeliveryRunning(s, standing).start = s.start
<1>1. NoTime \in Times
  BY DEF Times
<1> QED BY <1>1 DEF SetDeliveryRunning, StatusType

EndReasons == {"invalid", "timeout", "exceeded", "protocol", "result"}

(* An ended run has the outcome decided on, and keeps a completion time it has. *)
LEMMA TransitionIs ==
    ASSUME NEW s \in StatusType, NEW phase \in TerminalPhases, clock \in Times,
           NEW reason \in EndReasons
    PROVE  /\ TransitionRun(s, phase, reason) \in StatusType
           /\ TransitionRun(s, phase, reason).phase = phase
           /\ TransitionRun(s, phase, reason).reason = reason
           /\ TransitionRun(s, phase, reason).start = s.start
           /\ TransitionRun(s, phase, reason).completion =
                 IF s.completion = NoTime THEN clock ELSE s.completion
BY DEF TransitionRun, StatusType, EndReasons

(* The deadline of a run that exists.                                      *)
LEMMA DeadlineIs ==
    ASSUME NEW r \in LiveRunType
    PROVE  /\ DeliveryDeadline(r).budget \in BOOLEAN
           /\ DeliveryDeadline(r).budget =>
                 r.limit \in Nat /\ DeliveryDeadline(r).at = r.status.start + r.limit
           /\ ~DeliveryDeadline(r).budget => DeliveryDeadline(r).at = r.created + Window
<1>1. r.limit \in {NoLimit} \cup Nat
  BY LiveRun
<1> QED BY <1>1 DEF DeliveryDeadline

----------------------------------------------------------------------------
(* What a reconcile does next.                                             *)

(* A reconcile about to patch.                                             *)
LEMMA PatchWithIs ==
    ASSUME NEW w \in WorkerType, w.base \in LiveRunType, w.base.created <= clock,
           NEW next \in StatusType, NEW again \in BOOLEAN, NEW svc
    PROVE  LET v == PatchWith(w, next, again) IN
           /\ v \in WorkerType /\ v.pc = "patch" /\ v.next = next /\ v.base = w.base
           /\ v.answer = w.answer /\ v.target = w.target /\ v.again = again
           /\ PatchOK(v) => WorkerOK(svc, v, clock)
<1>1. PICK v : v = PatchWith(w, next, again)
  OBVIOUS
<1>2. v \in WorkerType
  BY <1>1 DEF PatchWith, WorkerType
<1>3. /\ v.pc = "patch" /\ v.next = next /\ v.base = w.base
      /\ v.answer = w.answer /\ v.target = w.target /\ v.again = again
  BY <1>1 DEF PatchWith, WorkerType
<1>4. PatchOK(v) => WorkerOK(svc, v, clock)
  BY <1>3 DEF WorkerOK, Searching
<1> QED BY <1>1, <1>2, <1>3, <1>4

(* Waiting for a standing run is a patch that decides nothing.             *)
LEMMA UnavailableOK ==
    ASSUME NEW w \in WorkerType, w.base \in LiveRunType, w.base.created <= clock, NEW svc
    PROVE  /\ Unavailable(w) \in WorkerType /\ Unavailable(w).base = w.base
           /\ Unavailable(w).pc = "patch" /\ WorkerOK(svc, Unavailable(w), clock)
<1>1. PICK n : n = SetDeliveryWaiting(w.base.status)
  OBVIOUS
<1>2. /\ n \in StatusType /\ n.reason = "waiting" /\ n.start = w.base.status.start
      /\ n.completion = NoTime
  BY <1>1, LiveRun, WaitingIs
<1>3. PICK v : v = PatchWith(w, n, TRUE)
  OBVIOUS
<1>4. /\ v \in WorkerType /\ v.pc = "patch" /\ v.next = n /\ v.base = w.base
      /\ PatchOK(v) => WorkerOK(svc, v, clock)
  BY <1>2, <1>3, PatchWithIs
<1>5. PatchOK(v)
  BY <1>2, <1>4 DEF PatchOK
<1>6. Unavailable(w) = v
  BY <1>1, <1>3 DEF Unavailable
<1> QED BY <1>4, <1>5, <1>6

(* A reconcile that ends the run with a phase and a reason.                *)
LEMMA TransitionOK ==
    ASSUME NEW w \in WorkerType, w.base \in LiveRunType, w.base.created <= clock, NEW svc,
           clock \in Times, NEW phase \in TerminalPhases,
           NEW reason \in EndReasons, reason # "result",
           reason = "protocol" => w.answer.by = w.target.standing,
           reason = "exceeded" => clock >= w.base.status.start + w.base.limit,
           reason = "timeout" => clock >= w.base.created + Window
    PROVE  LET v == PatchWith(w, TransitionRun(w.base.status, phase, reason), FALSE) IN
           /\ v \in WorkerType /\ v.base = w.base /\ v.pc = "patch" /\ WorkerOK(svc, v, clock)
<1>1. PICK n : n = TransitionRun(w.base.status, phase, reason)
  OBVIOUS
<1>2. /\ n \in StatusType /\ n.phase = phase /\ n.reason = reason
      /\ n.start = w.base.status.start
      /\ n.completion = IF w.base.status.completion = NoTime
                        THEN clock ELSE w.base.status.completion
  <2>1. w.base.status \in StatusType
    BY LiveRun
  <2> QED BY <1>1, <2>1, TransitionIs
<1>3. PICK v : v = PatchWith(w, n, FALSE)
  OBVIOUS
<1>4. /\ v \in WorkerType /\ v.pc = "patch" /\ v.next = n /\ v.base = w.base
      /\ v.answer = w.answer /\ v.target = w.target
      /\ PatchOK(v) => WorkerOK(svc, v, clock)
  BY <1>2, <1>3, PatchWithIs
<1>5. PatchOK(v)
  BY <1>2, <1>4 DEF PatchOK, IsTerminal
<1> QED BY <1>1, <1>3, <1>4, <1>5

(* A run whose target can never be valid is ended as invalid.              *)
LEMMA MisconfiguredOK ==
    ASSUME NEW w \in WorkerType, w.base \in LiveRunType, w.base.created <= clock, NEW svc,
           clock \in Times
    PROVE  /\ Misconfigured(w) \in WorkerType /\ Misconfigured(w).base = w.base
           /\ Misconfigured(w).pc = "patch" /\ WorkerOK(svc, Misconfigured(w), clock)
<1>1. "Failed" \in TerminalPhases /\ "invalid" \in EndReasons
  BY DEF TerminalPhases, EndReasons
<1> QED BY <1>1, TransitionOK DEF Misconfigured

(* A run is given up only when its own deadline has passed.                *)
LEMMA GiveUpOK ==
    ASSUME NEW w \in WorkerType, w.base \in LiveRunType, w.base.created <= clock, NEW svc,
           clock \in Times, Expired(w.base)
    PROVE  /\ GiveUp(w) \in WorkerType /\ GiveUp(w).base = w.base
           /\ GiveUp(w).pc = "patch" /\ WorkerOK(svc, GiveUp(w), clock)
<1>0. /\ "Failed" \in TerminalPhases /\ "BudgetExceeded" \in TerminalPhases
      /\ "exceeded" \in EndReasons /\ "timeout" \in EndReasons
  BY DEF TerminalPhases, EndReasons
<1>1. CASE DeliveryDeadline(w.base).budget
  <2>1. clock >= w.base.status.start + w.base.limit
    BY <1>1, DeadlineIs DEF Expired
  <2>2. GiveUp(w) = PatchWith(w, TransitionRun(w.base.status, "BudgetExceeded", "exceeded"), FALSE)
    BY <1>1 DEF GiveUp
  <2>3. LET v == PatchWith(w, TransitionRun(w.base.status, "BudgetExceeded", "exceeded"), FALSE)
        IN v \in WorkerType /\ v.base = w.base /\ v.pc = "patch" /\ WorkerOK(svc, v, clock)
    BY <1>0, <2>1, TransitionOK
  <2> QED BY <2>2, <2>3
<1>2. CASE ~DeliveryDeadline(w.base).budget
  <2>1. clock >= w.base.created + Window
    BY <1>2, DeadlineIs DEF Expired
  <2>2. GiveUp(w) = PatchWith(w, TransitionRun(w.base.status, "Failed", "timeout"), FALSE)
    BY <1>2 DEF GiveUp
  <2>3. LET v == PatchWith(w, TransitionRun(w.base.status, "Failed", "timeout"), FALSE)
        IN v \in WorkerType /\ v.base = w.base /\ v.pc = "patch" /\ WorkerOK(svc, v, clock)
    BY <1>0, <2>1, TransitionOK
  <2> QED BY <2>2, <2>3
<1> QED BY <1>1, <1>2

(* The search for the target begins again.                                 *)
LEMMA SearchIs ==
    ASSUME NEW w \in WorkerType, w.base \in LiveRunType, w.base.created <= clock, NEW svc,
           NEW stage \in {"first", "before", "after"},
           stage # "first" => KnownTarget(svc, w.target),
           stage = "after" => AnswerOK(svc, w)
    PROVE  LET v == Search(w, stage) IN
           /\ v \in WorkerType /\ v.base = w.base /\ v.pc = "agent" /\ v.stage = stage
           /\ v.target = w.target /\ v.answer = w.answer /\ WorkerOK(svc, v, clock)
<1>1. PICK v : v = Search(w, stage)
  OBVIOUS
<1>2. Nowhere \in TargetType
  BY DEF Nowhere, TargetType
<1>3. v \in WorkerType
  BY <1>1, <1>2 DEF Search, WorkerType
<1>4. /\ v.base = w.base /\ v.pc = "agent" /\ v.stage = stage
      /\ v.target = w.target /\ v.answer = w.answer
  BY <1>1 DEF Search, WorkerType
<1>5. stage = "after" => AnswerOK(svc, v)
  BY <1>4 DEF AnswerOK
<1>6. WorkerOK(svc, v, clock)
  BY <1>4, <1>5 DEF WorkerOK, Searching
<1> QED BY <1>1, <1>3, <1>4, <1>6

(* A worker with no run in hand satisfies everything asked of a busy one.  *)
LEMMA IdleIs ==
    ASSUME NEW svc
    PROVE  /\ Idle \in WorkerType /\ Idle.pc = "idle" /\ Idle.base = NoRun
           /\ Idle.stage = "first" /\ WorkerOK(svc, Idle, clock)
<1>1. NoRun \in RunType /\ Nowhere \in TargetType /\ NoAnswer \in AnswerType
  BY DEF RunType, Nowhere, TargetType, NoAnswer, AnswerType
<1>2. PICK v : v = Idle
  OBVIOUS
<1>3. v \in WorkerType
  BY <1>1, <1>2, EmptyStatusType DEF Idle, WorkerType
<1>4. v.pc = "idle" /\ v.base = NoRun /\ v.stage = "first"
  BY <1>2 DEF Idle
<1>5. WorkerOK(svc, v, clock)
  BY <1>4 DEF WorkerOK, Searching
<1> QED BY <1>2, <1>3, <1>4, <1>5

(* A reconcile begins.                                                     *)
LEMMA BeginOK ==
    ASSUME NEW r \in RunType, r.uid # 0 => r.created <= clock, clock \in Times, NEW svc
    PROVE  /\ Begin(r) \in WorkerType /\ WorkerOK(svc, Begin(r), clock)
           /\ Begin(r) = Idle \/
                 (/\ Begin(r).base = r /\ r.uid # 0 /\ ~IsTerminal(r.status.phase)
                  /\ Begin(r).pc = "patch" \/ (Begin(r).pc = "agent" /\ Begin(r).stage = "first"))
<1>1. CASE r.uid = 0 \/ IsTerminal(r.status.phase)
  BY <1>1, IdleIs DEF Begin
<1>2. CASE r.uid # 0 /\ ~IsTerminal(r.status.phase)
  <2>1. PICK w : w = [Idle EXCEPT !.base = r]
    OBVIOUS
  <2>2. Idle \in WorkerType
    BY IdleIs
  <2>3. w \in WorkerType /\ w.base = r
    BY <2>1, <2>2 DEF WorkerType
  <2>4. r \in LiveRunType /\ r.created <= clock
    BY <1>2, SomeRun
  <2>5. Begin(r) = IF r.limit = BadLimit THEN Misconfigured(w)
                   ELSE IF Expired(r) THEN GiveUp(w) ELSE Search(w, "first")
    BY <1>2, <2>1 DEF Begin
  <2>6. CASE r.limit = BadLimit
    <3>1. PICK v : v = Misconfigured(w)
      OBVIOUS
    <3>2. v \in WorkerType /\ v.base = w.base /\ v.pc = "patch" /\ WorkerOK(svc, v, clock)
      BY <2>3, <2>4, <3>1, MisconfiguredOK
    <3>3. Begin(r) = v
      BY <2>5, <2>6, <3>1
    <3> QED BY <1>2, <2>3, <3>2, <3>3
  <2>7. CASE r.limit # BadLimit /\ Expired(r)
    <3>1. PICK v : v = GiveUp(w)
      OBVIOUS
    <3>2. v \in WorkerType /\ v.base = w.base /\ v.pc = "patch" /\ WorkerOK(svc, v, clock)
      BY <2>3, <2>4, <2>7, <3>1, GiveUpOK
    <3>3. Begin(r) = v
      BY <2>5, <2>7, <3>1
    <3> QED BY <1>2, <2>3, <3>2, <3>3
  <2>8. CASE r.limit # BadLimit /\ ~Expired(r)
    BY <1>2, <2>3, <2>4, <2>5, <2>8, SearchIs
  <2> QED BY <2>6, <2>7, <2>8
<1> QED BY <1>1, <1>2

(* The answer is looked at once the target is confirmed.                   *)
LEMMA ConcludeOK ==
    ASSUME NEW w \in WorkerType, w.base \in LiveRunType, w.base.created <= clock, NEW svc,
           clock \in Times, w.answer.uid = w.base.uid, w.answer.kind # "none",
           w.answer.kind = "rejected" => w.answer.by = w.target.standing
    PROVE  /\ Conclude(w) \in WorkerType /\ Conclude(w).base = w.base
           /\ Conclude(w).pc = "patch" /\ WorkerOK(svc, Conclude(w), clock)
<1>0. /\ "Failed" \in TerminalPhases /\ "Succeeded" \in TerminalPhases
      /\ "protocol" \in EndReasons /\ "result" \in EndReasons
  BY DEF TerminalPhases, EndReasons
<1>1. CASE w.answer.kind = "rejected"
  <2>1. Conclude(w) = PatchWith(w, TransitionRun(w.base.status, "Failed", "protocol"), FALSE)
    BY <1>1 DEF Conclude
  <2>2. LET v == PatchWith(w, TransitionRun(w.base.status, "Failed", "protocol"), FALSE)
        IN v \in WorkerType /\ v.base = w.base /\ v.pc = "patch" /\ WorkerOK(svc, v, clock)
    BY <1>0, <1>1, TransitionOK
  <2> QED BY <2>1, <2>2
<1>2. CASE w.answer.kind = "transport"
  <2>1. Conclude(w) = IF Expired(w.base) THEN GiveUp(w) ELSE Unavailable(w)
    BY <1>2 DEF Conclude
  <2> QED BY <2>1, GiveUpOK, UnavailableOK
<1>3. CASE w.answer.kind \notin {"rejected", "transport"}
  <2>0. w.answer \in AnswerType /\ w.target \in TargetType
    BY DEF WorkerType
  <2>1. w.answer.kind \in {"Succeeded", "Failed"} /\ w.answer.uid \in {0} \cup Uids
        /\ w.answer.by \in {0} \cup StandingRuns /\ w.target.standing \in {0} \cup StandingRuns
    BY <1>3, <2>0 DEF AnswerType, TargetType
  <2>2. PICK t : t = TransitionRun(w.base.status, w.answer.kind, "result")
    OBVIOUS
  <2>3. w.answer.kind \in TerminalPhases
    BY <1>0, <2>1
  <2>4. /\ t \in StatusType /\ t.phase = w.answer.kind /\ t.reason = "result"
        /\ t.start = w.base.status.start
    <3>1. w.base.status \in StatusType
      BY LiveRun
    <3>2. PICK kind \in TerminalPhases : kind = w.answer.kind
      BY <2>3
    <3>3. PICK s \in StatusType : s = w.base.status
      BY <3>1
    <3>4. t = TransitionRun(s, kind, "result")
      BY <2>2, <3>2, <3>3
    <3>5. t \in StatusType /\ t.phase = kind /\ t.reason = "result" /\ t.start = s.start
      <4>1. /\ TransitionRun(s, kind, "result") \in StatusType
            /\ TransitionRun(s, kind, "result").phase = kind
            /\ TransitionRun(s, kind, "result").reason = "result"
            /\ TransitionRun(s, kind, "result").start = s.start
        BY <1>0, TransitionIs
      <4> QED BY <3>4, <4>1
    <3> QED BY <3>2, <3>3, <3>5
  <2>5. PICK n : n = Completed(w)
    OBVIOUS
  <2>6. n = [t EXCEPT !.output = [uid |-> w.answer.uid, by |-> w.answer.by],
                      !.pod = w.target.standing]
    BY <2>2, <2>5 DEF Completed
  <2>7. t \in StatusType
    BY <2>4
  <2>8. n \in StatusType
    BY <2>1, <2>6, <2>7 DEF StatusType
  <2>9. /\ n.phase = w.answer.kind /\ n.reason = "result" /\ n.start = w.base.status.start
        /\ n.output.uid = w.base.uid
    BY <2>4, <2>6, <2>7 DEF StatusType
  <2>10. PICK v : v = PatchWith(w, n, FALSE)
    OBVIOUS
  <2>11. /\ v \in WorkerType /\ v.pc = "patch" /\ v.next = n /\ v.base = w.base
         /\ PatchOK(v) => WorkerOK(svc, v, clock)
    BY <2>8, <2>10, PatchWithIs
  <2>12. PatchOK(v)
    BY <2>3, <2>9, <2>11 DEF PatchOK, IsTerminal
  <2>13. Conclude(w) = v
    BY <1>3, <2>5, <2>10 DEF Conclude
  <2> QED BY <2>11, <2>12, <2>13
<1> QED BY <1>1, <1>2, <1>3

(* The target has been found.                                              *)
LEMMA ResolvedOK ==
    ASSUME NEW svc, NEW w \in WorkerType, w.pc = "secret", WorkerOK(svc, w, clock),
           clock \in Times
    PROVE  /\ Resolved(w) \in WorkerType /\ Resolved(w).base = w.base
           /\ WorkerOK(svc, Resolved(w), clock)
           /\ Resolved(w).pc \in {"patch", "running", "http"}
           /\ Resolved(w).pc = "http" => w.stage = "before" /\ Resolved(w).target = w.target
<1>0. /\ w.base \in LiveRunType /\ w.base.created <= clock /\ KnownTarget(svc, w.found)
      /\ w.found \in TargetType /\ w.stage \in {"first", "before", "after"}
  BY DEF WorkerOK, WorkerType
<1>1. CASE w.stage = "first"
  <2>1. PICK v : v = [w EXCEPT !.pc = "running", !.target = w.found]
    OBVIOUS
  <2>2. v \in WorkerType
    BY <1>0, <2>1 DEF WorkerType
  <2>3. v.pc = "running" /\ v.base = w.base /\ v.target = w.found
    BY <2>1 DEF WorkerType
  <2>4. WorkerOK(svc, v, clock)
    BY <1>0, <2>3 DEF WorkerOK, Searching
  <2>5. Resolved(w) = v
    BY <1>1, <2>1 DEF Resolved
  <2> QED BY <2>2, <2>3, <2>4, <2>5
<1>2. CASE w.stage # "first" /\ w.found # w.target
  <2>1. Resolved(w) = Unavailable(w)
    BY <1>2 DEF Resolved
  <2> QED BY <1>0, <2>1, UnavailableOK
<1>3. CASE w.stage = "before" /\ w.found = w.target
  <2>1. Resolved(w) = IF Expired(w.base) THEN GiveUp(w) ELSE [w EXCEPT !.pc = "http"]
    BY <1>3 DEF Resolved
  <2>2. CASE Expired(w.base)
    <3>1. Resolved(w) = GiveUp(w)
      BY <2>1, <2>2
    <3> QED BY <1>0, <2>2, <3>1, GiveUpOK
  <2>3. CASE ~Expired(w.base)
    <3>1. PICK v : v = [w EXCEPT !.pc = "http"]
      OBVIOUS
    <3>2. v \in WorkerType
      BY <3>1 DEF WorkerType
    <3>3. v.pc = "http" /\ v.base = w.base /\ v.target = w.target
      BY <3>1 DEF WorkerType
    <3>4. WorkerOK(svc, v, clock)
      BY <1>0, <1>3, <3>3 DEF WorkerOK, Searching
    <3>5. Resolved(w) = v
      BY <2>1, <2>3, <3>1
    <3> QED BY <1>3, <3>2, <3>3, <3>4, <3>5
  <2> QED BY <2>2, <2>3
<1>4. CASE w.stage = "after" /\ w.found = w.target
  <2>1. Resolved(w) = Conclude(w)
    BY <1>4 DEF Resolved
  <2>2. /\ w.answer.uid = w.base.uid /\ w.answer.kind # "none"
        /\ w.answer.kind = "rejected" => w.answer.by = w.target.standing
    BY <1>4 DEF WorkerOK, AnswerOK, Searching
  <2> QED BY <1>0, <2>1, <2>2, ConcludeOK
<1> QED BY <1>0, <1>1, <1>2, <1>3, <1>4

----------------------------------------------------------------------------
(* Steps.                                                                  *)

(* A step of the worker that leaves the run alone.                         *)
LEMMA WorkerStepOK ==
    ASSUME Inv, worker' \in WorkerType, WorkerOK(service, worker', clock),
           UNCHANGED <<stored, service, clock>>, UNCHANGED troubles \/ Trouble,
           dirty' \in BOOLEAN, timer' \in Times, Old(worker'.base, lastUid, clock)
    PROVE  Inv'
<1> USE DEF stored
<1>0. troubles' \in 0..MaxTroubles
  BY BoundsAssumption DEF Inv, TypeOK, Trouble
<1>1. TypeOK'
  BY <1>0 DEF Inv, TypeOK
<1>2. ServiceOK(service)' /\ WorkerOK(service, worker, clock)'
  BY DEF Inv
<1>3. CacheInv'
  BY DEF Inv, CacheInv
<1>4. PastInv'
  BY DEF Inv, PastInv
<1> QED BY <1>1, <1>2, <1>3, <1>4 DEF Inv

(* What the invariant says of a worker in the middle of a reconcile.       *)
LEMMA Busy ==
    ASSUME Inv, worker.pc # "idle"
    PROVE  /\ worker \in WorkerType /\ worker.base \in LiveRunType
           /\ worker.base.created <= clock /\ Old(worker.base, lastUid, clock)
           /\ clock \in Times /\ clock \in Nat /\ dirty \in BOOLEAN /\ timer \in Times
           /\ WorkerOK(service, worker, clock) /\ service \in ServiceType
<1>1. clock \in 0..MaxTime
  BY DEF Inv, TypeOK
<1> QED BY <1>1, BoundsAssumption DEF Inv, TypeOK, PastInv, WorkerOK, Times

(* A run read again keeps its limit, everything else is the reply's.       *)
LEMMA RereadIs ==
    ASSUME NEW w \in WorkerType, w.base \in LiveRunType, NEW r \in LiveRunType
    PROVE  /\ Reread(w, r) \in WorkerType /\ Reread(w, r).base \in LiveRunType
           /\ Reread(w, r).base.uid = r.uid /\ Reread(w, r).base.created = r.created
           /\ Reread(w, r).base.status = r.status
           /\ r.limit = w.base.limit => Reread(w, r).base = r
           /\ Reread(w, r).target = w.target /\ Reread(w, r).answer = w.answer
<1>1. PICK b : b = [r EXCEPT !.limit = w.base.limit]
  OBVIOUS
<1>2. /\ b \in LiveRunType /\ b.uid = r.uid /\ b.created = r.created /\ b.status = r.status
      /\ r.limit = w.base.limit => b = r
  BY <1>1 DEF LiveRunType
<1>3. b \in RunType
  BY <1>2 DEF RunType, LiveRunType
<1>4. Reread(w, r) = [w EXCEPT !.base = b]
  BY <1>1 DEF Reread
<1> QED BY <1>2, <1>3, <1>4 DEF WorkerType

(* Inv, reconcileDelivery: it starts from the run of the cache.            *)
LEMMA ReconcileDeliveryStep ==
    ASSUME Inv, ReconcileDelivery PROVE Inv'
<1> USE DEF ReconcileDelivery
<1>1. /\ runCache \in RunType /\ clock \in Times /\ Old(runCache, lastUid, clock)
      /\ timer \in Times /\ lastUid \in Nat /\ clock \in Nat
  BY BoundsAssumption DEF Inv, TypeOK, PastInv, Times
<1>2. PICK v : v = Begin(runCache)
  OBVIOUS
<1>3. /\ v \in WorkerType /\ WorkerOK(service, v, clock)
      /\ v = Idle \/ v.base = runCache
  BY <1>1, <1>2, BeginOK DEF Old
<1>4. Old(v.base, lastUid, clock)
  BY <1>1, <1>3, IdleIs, NoRunType DEF Old
<1> QED BY <1>1, <1>2, <1>3, <1>4, WorkerStepOK

(* Inv, the Agent read: it names the current standing run.                 *)
LEMMA ReadAgentStep ==
    ASSUME Inv, ReadAgent PROVE Inv'
<1> USE DEF ReadAgent, Reading, GoOn, queue
<1>1. /\ worker \in WorkerType /\ worker.base \in LiveRunType /\ worker.pc = "agent"
      /\ worker.base.created <= clock /\ Old(worker.base, lastUid, clock)
      /\ clock \in Times /\ dirty \in BOOLEAN /\ timer \in Times
      /\ WorkerOK(service, worker, clock) /\ service \in ServiceType
  BY Busy
<1>2. CASE worker' = Misconfigured(worker)
  BY <1>1, <1>2, MisconfiguredOK, WorkerStepOK
<1>3. CASE worker' = Unavailable(worker)
  BY <1>1, <1>3, UnavailableOK, WorkerStepOK
<1>4. CASE service.current # 0 /\
           worker' = [worker EXCEPT !.pc = "standing", !.found.standing = service.current]
  <2>1. PICK v : v = worker'
    OBVIOUS
  <2>2. service.current \in StandingRuns /\ worker.found \in TargetType
    BY <1>1, <1>4 DEF ServiceType, WorkerType
  <2>3. [worker.found EXCEPT !.standing = service.current] \in TargetType
    BY <2>2 DEF TargetType
  <2>4. v \in WorkerType
    BY <1>1, <1>4, <2>1, <2>3 DEF WorkerType
  <2>5. /\ v.pc = "standing" /\ v.base = worker.base /\ v.stage = worker.stage
        /\ v.target = worker.target /\ v.answer = worker.answer
        /\ v.found.standing = service.current
    BY <1>1, <1>4, <2>1, <2>2 DEF WorkerType, TargetType
  <2>6. WorkerOK(service, v, clock)
    BY <1>1, <2>2, <2>5 DEF WorkerOK, Searching, AnswerOK
  <2> QED BY <1>1, <2>1, <2>4, <2>5, <2>6, WorkerStepOK
<1> QED BY <1>2, <1>3, <1>4

(* Inv, the standing run read: it has got its Pod.                         *)
LEMMA ReadStandingRunStep ==
    ASSUME Inv, ReadStandingRun PROVE Inv'
<1> USE DEF ReadStandingRun, Reading, GoOn, queue
<1>1. /\ worker \in WorkerType /\ worker.base \in LiveRunType /\ worker.pc = "standing"
      /\ worker.base.created <= clock /\ Old(worker.base, lastUid, clock)
      /\ clock \in Times /\ dirty \in BOOLEAN /\ timer \in Times
      /\ WorkerOK(service, worker, clock) /\ service \in ServiceType
  BY Busy
<1>2. CASE worker' = Unavailable(worker)
  BY <1>1, <1>2, UnavailableOK, WorkerStepOK
<1>3. CASE worker' = [worker EXCEPT !.pc = "pod"]
  <2>1. PICK v : v = worker'
    OBVIOUS
  <2>2. v \in WorkerType
    BY <1>1, <1>3, <2>1 DEF WorkerType
  <2>3. /\ v.pc = "pod" /\ v.base = worker.base /\ v.stage = worker.stage
        /\ v.target = worker.target /\ v.answer = worker.answer /\ v.found = worker.found
    BY <1>1, <1>3, <2>1 DEF WorkerType
  <2>4. WorkerOK(service, v, clock)
    BY <1>1, <2>3 DEF WorkerOK, Searching, AnswerOK
  <2> QED BY <1>1, <2>1, <2>2, <2>3, <2>4, WorkerStepOK
<1> QED BY <1>2, <1>3

(* A Pod that is ready is its standing run's only one: with it, whatever   *)
(* was rejected was rejected by it.                                        *)
LEMMA ReadPodStep ==
    ASSUME Inv, ReadPod PROVE Inv'
<1> USE DEF ReadPod, Reading, GoOn, queue
<1>1. /\ worker \in WorkerType /\ worker.base \in LiveRunType /\ worker.pc = "pod"
      /\ worker.base.created <= clock /\ Old(worker.base, lastUid, clock)
      /\ clock \in Times /\ dirty \in BOOLEAN /\ timer \in Times
      /\ WorkerOK(service, worker, clock) /\ service \in ServiceType
  BY Busy
<1>2. CASE worker' = Unavailable(worker)
  BY <1>1, <1>2, UnavailableOK, WorkerStepOK
<1>3. CASE /\ service.pod[worker.found.standing] = "ready"
           /\ worker' = [worker EXCEPT !.pc = "secret",
                                       !.found.ip = service.ip[worker.found.standing]]
  <2>0. PICK s \in StandingRuns : s = worker.found.standing
    BY <1>1 DEF WorkerOK
  <2>1. PICK v : v = worker'
    OBVIOUS
  <2>2. service.ip[s] \in {0} \cup Ips /\ worker.found \in TargetType
    BY <1>1 DEF ServiceType, WorkerType
  <2>3. [worker.found EXCEPT !.ip = service.ip[s]] \in TargetType
    BY <2>2 DEF TargetType
  <2>4. v = [worker EXCEPT !.pc = "secret", !.found = [worker.found EXCEPT !.ip = service.ip[s]]]
    BY <1>1, <1>3, <2>0, <2>1 DEF WorkerType
  <2>5. v \in WorkerType
    BY <1>1, <2>3, <2>4 DEF WorkerType
  <2>6. /\ v.pc = "secret" /\ v.base = worker.base /\ v.stage = worker.stage
        /\ v.target = worker.target /\ v.answer = worker.answer
        /\ v.found.standing = s /\ v.found.ip = service.ip[s]
    BY <1>1, <2>0, <2>2, <2>4 DEF WorkerType, TargetType
  <2>7. Started(service, s)
    BY <1>3, <2>0 DEF Inv, ServiceOK
  <2>8. WorkerOK(service, v, clock)
    BY <1>1, <1>3, <2>0, <2>6, <2>7 DEF WorkerOK, Searching, AnswerOK, KnownTarget
  <2> QED BY <1>1, <2>1, <2>5, <2>6, <2>8, WorkerStepOK
<1> QED BY <1>2, <1>3

(* Inv, the credential read, and what the stage decides then.              *)
LEMMA ReadSecretStep ==
    ASSUME Inv, ReadSecret PROVE Inv'
<1> USE DEF ReadSecret, GoOn, queue
<1>1. /\ worker \in WorkerType /\ worker.base \in LiveRunType /\ worker.pc = "secret"
      /\ worker.base.created <= clock /\ Old(worker.base, lastUid, clock)
      /\ clock \in Times /\ dirty \in BOOLEAN /\ timer \in Times
      /\ WorkerOK(service, worker, clock) /\ service \in ServiceType
  BY Busy
<1>2. CASE worker' = Unavailable(worker)
  BY <1>1, <1>2, UnavailableOK, WorkerStepOK
<1>3. CASE worker' = Misconfigured(worker)
  BY <1>1, <1>3, MisconfiguredOK, WorkerStepOK
<1>4. CASE worker' = Resolved(worker)
  BY <1>1, <1>4, ResolvedOK, WorkerStepOK
<1> QED BY <1>2, <1>3, <1>4

(* A patch of the run: its status becomes a typed one, and the event says  *)
(* so.                                                                     *)
LEMMA SetStatus ==
    ASSUME Inv, run # NoRun, NEW status \in StatusType, SetRun([run EXCEPT !.status = status])
    PROVE  /\ run' \in LiveRunType /\ run'.status = status
           /\ run'.uid = run.uid /\ run'.limit = run.limit /\ run'.created = run.created
           /\ runEvents' \in Seq(RunType) /\ Old(run', lastUid, clock)
           /\ (runCache' = runCache /\ lastUid' = lastUid /\ clock' = clock) =>
                 CacheInv' /\ \A i \in DOMAIN runEvents' : Old(runEvents'[i], lastUid, clock)
<1>1. run \in LiveRunType /\ runEvents \in Seq(RunType) /\ Old(run, lastUid, clock)
  BY SomeRun DEF Inv, TypeOK, PastInv
<1>2. run' = [run EXCEPT !.status = status]
  BY DEF SetRun
<1>3. run' \in LiveRunType
  BY <1>1, <1>2 DEF LiveRunType
<1>4. /\ run'.status = status
      /\ run'.uid = run.uid /\ run'.limit = run.limit /\ run'.created = run.created
  BY <1>1, <1>2 DEF LiveRunType
<1>5. run' \in RunType
  BY <1>3 DEF RunType, LiveRunType
<1>6. Old(run', lastUid, clock)
  BY <1>1, <1>4 DEF Old
<1>7. CASE run' = run
  <2>1. runEvents' = runEvents
    BY <1>2, <1>7 DEF SetRun
  <2> QED BY <1>1, <1>3, <1>4, <1>6, <1>7, <2>1 DEF Inv, CacheInv, PastInv
<1>8. CASE run' # run
  <2>1. runEvents' = Append(runEvents, run')
    BY <1>2, <1>8 DEF SetRun
  <2>2. PICK n \in Nat : n = Len(runEvents)
    BY <1>1
  <2>3. /\ runEvents' \in Seq(RunType) /\ Len(runEvents') = n + 1 /\ runEvents' # <<>>
        /\ runEvents'[n + 1] = run' /\ \A i \in 1..n : runEvents'[i] = runEvents[i]
    BY <1>1, <1>5, <2>1, <2>2
  <2>4. ASSUME NEW i \in DOMAIN runEvents' PROVE Old(runEvents'[i], lastUid, clock)
    <3>1. i \in 1..(n + 1)
      BY <2>3, <2>4
    <3>2. CASE i = n + 1
      BY <1>6, <2>3, <3>2
    <3>3. CASE i \in 1..n
      BY <1>1, <2>2, <2>3, <3>3 DEF Inv, PastInv
    <3> QED BY <3>1, <3>2, <3>3
  <2>5. CacheInv'
    BY <2>3 DEF CacheInv
  <2> QED BY <1>3, <1>4, <1>6, <2>3, <2>4, <2>5
<1> QED BY <1>7, <1>8

(* A patch by the worker, after which the worker is where it is said to be. *)
LEMMA PatchStepOK ==
    ASSUME Inv, run # NoRun, NEW status \in StatusType, SetRun([run EXCEPT !.status = status]),
           UNCHANGED <<runCache, lastUid, service, clock>>,
           worker' \in WorkerType, WorkerOK(service, worker', clock),
           dirty' \in BOOLEAN, timer' \in Times, Old(worker'.base, lastUid, clock),
           troubles' \in 0..MaxTroubles
    PROVE  Inv'
<1>1. /\ run' \in LiveRunType /\ Old(run', lastUid, clock) /\ runEvents' \in Seq(RunType)
      /\ CacheInv' /\ \A i \in DOMAIN runEvents' : Old(runEvents'[i], lastUid, clock)
  BY SetStatus
<1>2. run' \in RunType
  BY <1>1 DEF RunType, LiveRunType
<1>3. TypeOK'
  BY <1>1, <1>2 DEF Inv, TypeOK
<1>4. PastInv'
  BY <1>1 DEF Inv, PastInv
<1>5. ServiceOK(service)' /\ WorkerOK(service, worker, clock)'
  BY DEF Inv
<1> QED BY <1>1, <1>3, <1>4, <1>5 DEF Inv

(* The worker has given up and the key is queued again.                    *)
LEMMA RetryIs ==
    ASSUME Inv, Retry
    PROVE  /\ worker' \in WorkerType /\ WorkerOK(service, worker', clock)
           /\ dirty' \in BOOLEAN /\ timer' \in Times /\ Old(worker'.base, lastUid, clock)
           /\ worker' = Idle
<1>1. lastUid \in Nat /\ clock \in Nat
  BY BoundsAssumption DEF Inv, TypeOK
<1>2. Old(NoRun, lastUid, clock)
  BY <1>1, NoRunType DEF Old
<1> QED BY <1>2, IdleIs DEF Retry, Inv, TypeOK

(* Faults stay within their bound.                                         *)
LEMMA TroubleIs ==
    ASSUME Inv, Trouble PROVE troubles' \in 0..MaxTroubles
BY BoundsAssumption DEF Inv, TypeOK, Trouble

(* The reconcile has ended; the next one is due within the clock's range.  *)
LEMMA FinishIs ==
    ASSUME Inv, worker.pc # "idle", NEW again \in BOOLEAN, Finish(again)
    PROVE  /\ worker' \in WorkerType /\ WorkerOK(service, worker', clock)
           /\ dirty' \in BOOLEAN /\ timer' \in Times /\ Old(worker'.base, lastUid, clock)
           /\ worker' = Idle
<1>1. /\ lastUid \in Nat /\ clock \in 0..MaxTime /\ clock \in Nat /\ MaxTime \in Nat
      /\ timer \in Times
  BY BoundsAssumption DEF Inv, TypeOK
<1>2. Old(NoRun, lastUid, clock)
  BY <1>1, NoRunType DEF Old
<1>3. PICK delay \in Nat \ {0} : delay = DeliveryBackoff(worker.base)
  <2>1. worker.base \in LiveRunType /\ worker.base.created <= clock
    BY Busy
  <2>2. worker.base.created \in Nat
    BY <2>1, LiveRun
  <2> QED BY <1>1, <2>1, <2>2, BackoffIsPositive
<1>4. (IF clock + delay > MaxTime THEN MaxTime ELSE clock + delay) \in Times
  BY <1>1 DEF Times
<1>5. timer' \in Times
  BY <1>1, <1>3, <1>4 DEF Finish
<1> QED BY <1>2, <1>5, IdleIs DEF Finish, Inv, TypeOK

(* The run is marked Running and the reconcile goes on with the reply.     *)
LEMMA PatchRunningStep ==
    ASSUME Inv, PatchRunning PROVE Inv'
<1>1. /\ worker \in WorkerType /\ worker.base \in LiveRunType /\ worker.pc = "running"
      /\ clock \in Times /\ dirty \in BOOLEAN /\ timer \in Times
      /\ WorkerOK(service, worker, clock)
  BY Busy DEF PatchRunning
<1>2. KnownTarget(service, worker.target) /\ worker.target.standing \in StandingRuns
  BY <1>1 DEF WorkerOK, KnownTarget, Started
<1>3. PICK next \in StatusType :
          next = SetDeliveryRunning(worker.base.status, worker.target.standing)
  <2>1. worker.base.status \in StatusType
    BY <1>1, LiveRun
  <2> QED BY <1>1, <1>2, <2>1, RunningIs
<1>4. run # NoRun /\ run \in LiveRunType /\ run.status \in StatusType
  BY SomeRun, LiveRun DEF PatchRunning, Inv, TypeOK
<1>5. PICK status \in StatusType : status = MergePatch(run.status, worker.base.status, next)
  BY <1>1, <1>4, LiveRun, MergePatchType
<1>6. /\ SetRun([run EXCEPT !.status = status])
      /\ UNCHANGED <<runCache, lastUid, service, clock>>
      /\ Replied(GoOn(Search(Reread(worker, run'), "before")))
  <2>1. [run EXCEPT !.status = MergePatch(@, worker.base.status,
            SetDeliveryRunning(worker.base.status, worker.target.standing))] =
        [run EXCEPT !.status = status]
    BY <1>3, <1>5
  <2> QED BY <2>1 DEF PatchRunning
<1>7. run' \in LiveRunType /\ run'.created <= clock /\ Old(run', lastUid, clock)
  BY <1>4, <1>6, SetStatus DEF Old
<1>8. CASE Retry /\ Trouble
  BY <1>4, <1>6, <1>8, RetryIs, TroubleIs, PatchStepOK
<1>9. CASE GoOn(Search(Reread(worker, run'), "before")) /\ UNCHANGED troubles
  <2>1. PICK r \in LiveRunType : r = run'
    BY <1>7
  <2>2. PICK w : w = Reread(worker, r)
    OBVIOUS
  <2>3. /\ w \in WorkerType /\ w.base \in LiveRunType /\ w.target = worker.target
        /\ w.base.uid = r.uid /\ w.base.created = r.created
    BY <1>1, <2>2, RereadIs
  <2>6. w.base \in LiveRunType /\ w.base.created <= clock /\ KnownTarget(service, w.target)
    BY <1>2, <1>7, <2>1, <2>3
  <2>7. PICK v : v = Search(w, "before")
    OBVIOUS
  <2>8. v \in WorkerType /\ v.base = w.base /\ WorkerOK(service, v, clock)
    BY <2>3, <2>6, <2>7, SearchIs
  <2>9. worker' = v /\ dirty' = dirty /\ timer' = timer
    BY <1>9, <2>1, <2>2, <2>7 DEF GoOn, queue
  <2>10. Old(worker'.base, lastUid, clock)
    BY <1>7, <2>1, <2>3, <2>8, <2>9 DEF Old
  <2>11. troubles' \in 0..MaxTroubles
    BY <1>9 DEF Inv, TypeOK
  <2> QED BY <1>1, <1>4, <1>6, <2>8, <2>9, <2>10, <2>11, PatchStepOK
<1> QED BY <1>6, <1>8, <1>9 DEF Replied

(* The outcome is recorded.                                                *)
LEMMA PatchRunStatusStep ==
    ASSUME Inv, PatchRunStatus PROVE Inv'
<1>1. /\ worker \in WorkerType /\ worker.base \in LiveRunType /\ worker.pc = "patch"
  BY Busy DEF PatchRunStatus
<1>2. worker.next \in StatusType /\ worker.again \in BOOLEAN
  BY <1>1 DEF WorkerType
<1>3. run # NoRun /\ run \in LiveRunType /\ run.status \in StatusType
  BY SomeRun, LiveRun DEF PatchRunStatus, Inv, TypeOK
<1>4. PICK status \in StatusType :
          status = MergePatch(run.status, worker.base.status, worker.next)
  BY <1>1, <1>2, <1>3, LiveRun, MergePatchType
<1>5. /\ SetRun([run EXCEPT !.status = status])
      /\ UNCHANGED <<runCache, lastUid, service, clock>>
      /\ Replied(Finish(worker.again))
  <2>1. [run EXCEPT !.status = MergePatch(@, worker.base.status, worker.next)] =
        [run EXCEPT !.status = status]
    BY <1>4
  <2> QED BY <2>1 DEF PatchRunStatus
<1>6. CASE Retry /\ Trouble
  BY <1>3, <1>5, <1>6, RetryIs, TroubleIs, PatchStepOK
<1>7. CASE Finish(worker.again) /\ UNCHANGED troubles
  <2>1. troubles' \in 0..MaxTroubles
    BY <1>7 DEF Inv, TypeOK
  <2>2. /\ worker' \in WorkerType /\ WorkerOK(service, worker', clock)
        /\ dirty' \in BOOLEAN /\ timer' \in Times /\ Old(worker'.base, lastUid, clock)
    BY <1>1, <1>2, <1>7, FinishIs
  <2> QED BY <1>3, <1>5, <2>1, <2>2, PatchStepOK
<1> QED BY <1>5, <1>6, <1>7 DEF Replied

(* The exchange: an answer that is not the target's came when the target's *)
(* Pod was gone.                                                           *)
LEMMA DeliverStep ==
    ASSUME Inv, Deliver PROVE Inv'
<1>1. /\ worker \in WorkerType /\ worker.base \in LiveRunType /\ worker.pc = "http"
      /\ worker.base.created <= clock /\ Old(worker.base, lastUid, clock)
      /\ clock \in Times /\ dirty \in BOOLEAN /\ timer \in Times
      /\ WorkerOK(service, worker, clock) /\ service \in ServiceType
  BY Busy DEF Deliver
<1>2. PICK s \in StandingRuns : s = worker.target.standing /\ worker.target.ip = service.ip[s]
  BY <1>1 DEF WorkerOK, KnownTarget, Started
<1>3. PICK answer \in Answers(worker) :
          worker' = [worker EXCEPT !.pc = "latest", !.answer = answer]
  BY DEF Deliver, GoOn
<1>4. worker.base.uid \in Uids
  BY <1>1, LiveRun
<1>5. /\ answer \in AnswerType /\ answer.uid = worker.base.uid /\ answer.kind # "none"
      /\ (answer.kind = "rejected" /\ answer.by # s) => service.pod[s] = "absent"
  <2> DEFINE Holders == {u \in StandingRuns : service.pod[u] # "absent"
                                              /\ service.ip[u] = worker.target.ip}
  <2>1. \/ answer \in [kind : {"transport"}, uid : {worker.base.uid}, by : {0}]
        \/ /\ s \in Holders
           /\ answer \in [kind : {"rejected", "Succeeded", "Failed"}, uid : {worker.base.uid},
                          by : {s}]
        \/ /\ s \notin Holders
           /\ answer \in [kind : {"rejected"}, uid : {worker.base.uid}, by : {0} \cup Holders]
    BY <1>2, <1>3 DEF Answers
  <2>2. s \notin Holders => service.pod[s] = "absent"
    BY <1>2
  <2>3. Holders \subseteq StandingRuns
    OBVIOUS
  <2> HIDE DEF Holders
  <2>4. answer \in AnswerType
    BY <1>4, <2>1, <2>3 DEF AnswerType
  <2> QED BY <2>1, <2>2, <2>4
<1>6. PICK v : v = worker'
  OBVIOUS
<1>7. v \in WorkerType
  BY <1>1, <1>3, <1>5, <1>6 DEF WorkerType
<1>8. v.pc = "latest" /\ v.base = worker.base /\ v.target = worker.target /\ v.answer = answer
  BY <1>1, <1>3, <1>6 DEF WorkerType
<1>9. WorkerOK(service, v, clock)
  <2>1. AnswerOK(service, v)
    BY <1>2, <1>5, <1>8 DEF AnswerOK
  <2> QED BY <1>1, <1>8, <2>1 DEF WorkerOK, Searching
<1>10. dirty' = dirty /\ timer' = timer /\ UNCHANGED <<stored, service, clock, troubles>>
  BY DEF Deliver, GoOn, queue
<1> QED BY <1>1, <1>6, <1>7, <1>8, <1>9, <1>10, WorkerStepOK

(* The run is read again: a new incarnation or an ended run is left alone. *)
LEMMA ReadLatestStep ==
    ASSUME Inv, ReadLatest PROVE Inv'
<1>1. /\ worker \in WorkerType /\ worker.base \in LiveRunType /\ worker.pc = "latest"
      /\ worker.base.created <= clock /\ Old(worker.base, lastUid, clock)
      /\ clock \in Times /\ dirty \in BOOLEAN /\ timer \in Times
      /\ WorkerOK(service, worker, clock)
      /\ UNCHANGED <<stored, service, clock, troubles>>
  BY Busy DEF ReadLatest, Reading
<1>2. CASE run.uid # worker.base.uid \/ IsTerminal(run.status.phase)
  <2>1. Finish(FALSE)
    BY <1>2 DEF ReadLatest
  <2>2. /\ worker' \in WorkerType /\ WorkerOK(service, worker', clock)
        /\ dirty' \in BOOLEAN /\ timer' \in Times /\ Old(worker'.base, lastUid, clock)
    BY <1>1, <2>1, FinishIs
  <2> QED BY <1>1, <2>2, WorkerStepOK
<1>3. CASE run.uid = worker.base.uid /\ ~IsTerminal(run.status.phase)
  <2>1. run \in LiveRunType /\ Old(run, lastUid, clock) /\ run \in RunType
    BY <1>1, <1>3, SomeRun, LiveRun DEF Inv, TypeOK, PastInv
  <2>2. PICK w : w = Reread(worker, run)
    OBVIOUS
  <2>3. w \in WorkerType /\ w.base \in LiveRunType
    BY <1>1, <2>1, <2>2, RereadIs
  <2>4. /\ w.base.uid = run.uid /\ w.base.created = run.created
        /\ w.target = worker.target /\ w.answer = worker.answer
    BY <1>1, <2>1, <2>2, RereadIs
  <2>5. KnownTarget(service, w.target) /\ AnswerOK(service, w)
    BY <1>1, <1>3, <2>4 DEF WorkerOK, AnswerOK
  <2>6. PICK v : v = Search(w, "after")
    OBVIOUS
  <2>7. w.base \in LiveRunType /\ w.base.created <= clock
    BY <2>1, <2>3, <2>4 DEF Old
  <2>8. v \in WorkerType /\ v.base = w.base /\ WorkerOK(service, v, clock)
    BY <2>3, <2>4, <2>5, <2>6, <2>7, SearchIs
  <2>9. worker' = v /\ dirty' = dirty /\ timer' = timer
    BY <1>3, <2>2, <2>6 DEF ReadLatest, GoOn, queue
  <2>10. Old(worker'.base, lastUid, clock)
    BY <2>1, <2>4, <2>8, <2>9 DEF Old
  <2> QED BY <1>1, <2>8, <2>9, <2>10, WorkerStepOK
<1> QED BY <1>2, <1>3

(* Inv, a patch of a run that was deleted meanwhile.                       *)
LEMMA PatchNotFoundStep ==
    ASSUME Inv, PatchNotFound PROVE Inv'
BY RetryIs, WorkerStepOK DEF PatchNotFound

(* Steps that change nothing the worker looks at.                          *)
LEMMA AsideStep ==
    ASSUME Inv, UNCHANGED <<run, lastUid, service, worker, clock, troubles>>,
           dirty' \in BOOLEAN, timer' \in Times, runCache' \in RunType,
           runEvents' \in Seq(RunType), CacheInv', Old(runCache', lastUid, clock),
           \A i \in DOMAIN runEvents' : Old(runEvents'[i], lastUid, clock)
    PROVE  Inv'
<1>1. TypeOK'
  BY DEF Inv, TypeOK
<1>2. PastInv'
  BY DEF Inv, PastInv
<1>3. ServiceOK(service)' /\ WorkerOK(service, worker, clock)'
  BY DEF Inv
<1> QED BY <1>1, <1>2, <1>3 DEF Inv

(* Inv, the cache taking the next event: the last one brings the stored run. *)
LEMMA DeliverRunEventStep ==
    ASSUME Inv, DeliverRunEvent PROVE Inv'
<1> USE DEF DeliverRunEvent
<1>1. runEvents \in Seq(RunType) /\ timer \in Times
  BY DEF Inv, TypeOK
<1>2. PICK n \in Nat : n = Len(runEvents) /\ n > 0
  BY <1>1
<1>3. /\ runCache' = runEvents[1] /\ runCache' \in RunType /\ runEvents' \in Seq(RunType)
      /\ Len(runEvents') = n - 1 /\ \A i \in 1..(n - 1) : runEvents'[i] = runEvents[i + 1]
  BY <1>1, <1>2
<1>4. \A i \in 1..n : Old(runEvents[i], lastUid, clock)
  BY <1>1, <1>2 DEF Inv, PastInv
<1>5. runEvents[n] = run
  BY <1>2 DEF Inv, CacheInv
<1>6. CacheInv'
  <2>1. CASE n = 1
    BY <1>3, <1>5, <2>1 DEF CacheInv
  <2>2. CASE n # 1
    <3>1. runEvents'[n - 1] = run
      BY <1>2, <1>3, <1>5, <2>2
    <3>2. runEvents' # <<>>
      <4>1. Len(runEvents') # 0
        BY <1>2, <1>3, <2>2
      <4> QED BY <4>1
    <3>3. Len(runEvents') = n - 1
      BY <1>3
    <3> QED BY <3>1, <3>2, <3>3 DEF CacheInv
  <2> QED BY <2>1, <2>2
<1>7. ASSUME NEW i \in DOMAIN runEvents' PROVE Old(runEvents'[i], lastUid, clock)
  <2>1. i \in 1..(n - 1) /\ i + 1 \in 1..n
    BY <1>3, <1>7
  <2> QED BY <1>3, <1>4, <2>1
<1> QED BY <1>1, <1>2, <1>3, <1>4, <1>6, <1>7, AsideStep

(* Inv, a requeue that has become due.                                     *)
LEMMA RequeueAfterStep ==
    ASSUME Inv, RequeueAfter PROVE Inv'
<1>1. /\ runCache' = runCache /\ runEvents' = runEvents /\ dirty' = TRUE /\ timer' = NoTime
      /\ UNCHANGED <<run, lastUid, service, worker, clock, troubles>>
  BY DEF RequeueAfter, stored
<1>2. /\ runCache \in RunType /\ runEvents \in Seq(RunType) /\ CacheInv'
      /\ Old(runCache, lastUid, clock)
      /\ \A i \in DOMAIN runEvents : Old(runEvents[i], lastUid, clock)
  BY <1>1 DEF Inv, TypeOK, PastInv, CacheInv
<1>3. NoTime \in Times
  BY DEF Times
<1> QED BY <1>1, <1>2, <1>3, AsideStep

(* The controller loses what it was doing: faults of a call and crashes.   *)
LEMMA WorkerLost ==
    ASSUME Inv, UNCHANGED <<run, lastUid, service, clock>>, worker' = Idle,
           troubles' \in 0..MaxTroubles, dirty' \in BOOLEAN, timer' \in Times,
           \/ UNCHANGED <<runCache, runEvents>>
           \/ runCache' = run /\ runEvents' = <<>>
    PROVE  Inv'
<1>1. lastUid \in Nat /\ clock \in Nat
  BY BoundsAssumption DEF Inv, TypeOK
<1>2. Old(NoRun, lastUid, clock)
  BY <1>1, NoRunType DEF Old
<1>3. TypeOK'
  <2>1. Idle \in WorkerType
    BY IdleIs
  <2>2. runCache' \in RunType /\ runEvents' \in Seq(RunType)
    <3>1. run \in RunType /\ runCache \in RunType /\ runEvents \in Seq(RunType)
      BY DEF Inv, TypeOK
    <3>2. <<>> \in Seq(RunType)
      OBVIOUS
    <3>3. CASE UNCHANGED <<runCache, runEvents>>
      BY <3>1, <3>3
    <3>4. CASE runCache' = run /\ runEvents' = <<>>
      BY <3>1, <3>2, <3>4
    <3> QED BY <3>3, <3>4
  <2>3. /\ run \in RunType /\ lastUid \in 0..MaxUid /\ service \in ServiceType
        /\ clock \in 0..MaxTime
    BY DEF Inv, TypeOK
  <2> QED BY <2>1, <2>2, <2>3 DEF TypeOK
<1>4. CacheInv'
  BY DEF Inv, CacheInv
<1>5. PastInv'
  BY <1>2, IdleIs DEF Inv, PastInv
<1>6. ServiceOK(service)' /\ WorkerOK(service, worker, clock)'
  BY IdleIs DEF Inv
<1> QED BY <1>3, <1>4, <1>5, <1>6 DEF Inv

(* Inv, a failed call to the API server.                                   *)
LEMMA ApiCallFailsStep ==
    ASSUME Inv, ApiCallFails PROVE Inv'
BY RetryIs, TroubleIs, WorkerLost DEF ApiCallFails, stored

(* Inv, a restart of the controller: the cache is listed anew.             *)
LEMMA CrashStep ==
    ASSUME Inv, Crash PROVE Inv'
<1>1. NoTime \in Times
  BY DEF Times
<1> QED BY <1>1, TroubleIs, WorkerLost DEF Crash

(* The clock only makes what is past more past.                            *)
LEMMA TickStep ==
    ASSUME Inv, Tick PROVE Inv'
<1> USE DEF Tick, stored, queue
<1>1. /\ clock \in 0..MaxTime /\ clock' = clock + 1 /\ clock' \in 0..MaxTime /\ MaxTime \in Nat
      /\ runEvents \in Seq(RunType) /\ run \in RunType /\ runCache \in RunType
      /\ worker \in WorkerType
  BY BoundsAssumption DEF Inv, TypeOK
<1>2. ASSUME NEW r \in RunType, Old(r, lastUid, clock) PROVE Old(r, lastUid, clock')
  <2>1. r.created \in Int
    BY SomeRun, LiveRun, NoRunType
  <2> QED BY <1>1, <1>2, <2>1 DEF Old
<1>3. TypeOK'
  BY <1>1 DEF Inv, TypeOK
<1>4. CacheInv'
  BY DEF Inv, CacheInv
<1>5. PastInv'
  <2>1. worker.base \in RunType
    BY <1>1 DEF WorkerType
  <2>2. \A i \in DOMAIN runEvents : runEvents[i] \in RunType
    BY <1>1
  <2> QED BY <1>1, <1>2, <2>1, <2>2 DEF Inv, PastInv
<1>6. WorkerOK(service, worker, clock)'
  <2>1. worker.pc # "idle" => worker.base \in LiveRunType /\ worker.base.created <= clock'
    <3>1. worker.pc # "idle" => worker.base \in LiveRunType /\ worker.base.created <= clock
      BY DEF Inv, WorkerOK
    <3>2. worker.base \in LiveRunType => worker.base.created \in Nat
      BY LiveRun
    <3> QED BY <1>1, <3>1, <3>2
  <2> QED BY <2>1 DEF Inv, WorkerOK
<1>7. ServiceOK(service)'
  BY DEF Inv
<1> QED BY <1>3, <1>4, <1>5, <1>6, <1>7 DEF Inv

----------------------------------------------------------------------------
(* Users and the Service.                                                  *)

(* A run is created or deleted.                                            *)
LEMMA SetRunStep ==
    ASSUME Inv, NEW new \in RunType, SetRun(new), lastUid' \in 0..MaxUid, lastUid <= lastUid',
           Old(new, lastUid', clock),
           UNCHANGED <<runCache, service, worker, queue, clock, troubles>>
    PROVE  Inv'
<1> USE DEF queue
<1>1. /\ runEvents \in Seq(RunType) /\ run \in RunType /\ runCache \in RunType /\ lastUid \in Nat
      /\ lastUid' \in Nat /\ worker \in WorkerType
  BY BoundsAssumption DEF Inv, TypeOK
<1>2. ASSUME NEW r \in RunType, Old(r, lastUid, clock) PROVE Old(r, lastUid', clock)
  <2>1. r.uid \in Int
    BY SomeRun, LiveRun, NoRunType
  <2> QED BY <1>1, <1>2, <2>1 DEF Old
<1>3. run' = new
  BY DEF SetRun
<1>4. /\ runEvents' \in Seq(RunType) /\ CacheInv'
      /\ \A i \in DOMAIN runEvents' : Old(runEvents'[i], lastUid', clock)
  <2>1. CASE new = run
    <3>1. runEvents' = runEvents
      BY <2>1 DEF SetRun
    <3>2. \A i \in DOMAIN runEvents : runEvents[i] \in RunType
      BY <1>1
    <3> QED BY <1>1, <1>2, <1>3, <2>1, <3>1, <3>2 DEF Inv, CacheInv, PastInv
  <2>2. CASE new # run
    <3>1. runEvents' = Append(runEvents, new)
      BY <2>2 DEF SetRun
    <3>2. PICK n \in Nat : n = Len(runEvents)
      BY <1>1
    <3>3. /\ runEvents' \in Seq(RunType) /\ Len(runEvents') = n + 1 /\ runEvents' # <<>>
          /\ runEvents'[n + 1] = new /\ \A i \in 1..n : runEvents'[i] = runEvents[i]
      BY <1>1, <3>1, <3>2
    <3>4. ASSUME NEW i \in DOMAIN runEvents' PROVE Old(runEvents'[i], lastUid', clock)
      <4>1. i \in 1..(n + 1)
        BY <3>3, <3>4
      <4>2. CASE i = n + 1
        BY <3>3, <4>2
      <4>3. CASE i \in 1..n
        <5>1. runEvents[i] \in RunType /\ Old(runEvents[i], lastUid, clock)
          BY <1>1, <3>2, <4>3 DEF Inv, PastInv
        <5> QED BY <1>2, <3>3, <4>3, <5>1
      <4> QED BY <4>1, <4>2, <4>3
    <3>5. CacheInv'
      BY <1>3, <3>3 DEF CacheInv
    <3> QED BY <3>3, <3>4, <3>5
  <2> QED BY <2>1, <2>2
<1>5. TypeOK'
  BY <1>3, <1>4 DEF Inv, TypeOK
<1>6. PastInv'
  <2>1. worker.base \in RunType
    BY <1>1 DEF WorkerType
  <2>2. Old(run', lastUid', clock) /\ Old(runCache, lastUid', clock)
        /\ Old(worker.base, lastUid', clock)
    BY <1>1, <1>2, <1>3, <2>1 DEF Inv, PastInv
  <2> QED BY <1>4, <2>2 DEF PastInv
<1>7. ServiceOK(service)' /\ WorkerOK(service, worker, clock)'
  BY DEF Inv
<1> QED BY <1>4, <1>5, <1>6, <1>7 DEF Inv

(* Inv, a new run: its uid was never given out before.                     *)
LEMMA UserCreatesRunStep ==
    ASSUME Inv, NEW limit \in Limits, UserCreatesRun(limit) PROVE Inv'
<1>1. /\ lastUid \in 0..MaxUid /\ clock \in 0..MaxTime /\ MaxUid \in Nat
      /\ lastUid' = lastUid + 1 /\ lastUid < MaxUid
  BY BoundsAssumption DEF Inv, TypeOK, UserCreatesRun
<1>2. PICK new : new = [uid |-> lastUid + 1, limit |-> limit, created |-> clock,
                        status |-> EmptyStatus]
  OBVIOUS
<1>3. lastUid + 1 \in Uids
  BY <1>1 DEF Uids
<1>4. new \in LiveRunType
  BY <1>1, <1>2, <1>3, EmptyStatusType DEF LiveRunType
<1>5. new \in RunType
  BY <1>4 DEF RunType, LiveRunType
<1>6. Old(new, lastUid', clock)
  BY <1>1, <1>2, BoundsAssumption DEF Old
<1>7. SetRun(new) /\ UNCHANGED <<runCache, service, worker, queue, clock, troubles>>
  BY <1>2 DEF UserCreatesRun
<1>8. lastUid' \in 0..MaxUid /\ lastUid <= lastUid'
  BY <1>1
<1> QED BY <1>5, <1>6, <1>7, <1>8, SetRunStep

(* Inv, a deleted run.                                                     *)
LEMMA UserDeletesRunStep ==
    ASSUME Inv, UserDeletesRun PROVE Inv'
<1>1. lastUid \in 0..MaxUid /\ clock \in 0..MaxTime /\ MaxUid \in Nat /\ lastUid' = lastUid
  BY BoundsAssumption DEF Inv, TypeOK, UserDeletesRun
<1>2. NoRun \in RunType /\ Old(NoRun, lastUid', clock)
  BY <1>1, NoRunType, BoundsAssumption DEF Old
<1>3. lastUid' \in 0..MaxUid /\ lastUid <= lastUid'
  BY <1>1
<1> QED BY <1>2, <1>3, SetRunStep DEF UserDeletesRun

(* How the Service moves: what has started stays where it is, and a Pod    *)
(* that is gone stays gone.                                                *)
Moves(old, new) ==
    \A s \in StandingRuns :
        Started(old, s) =>
            /\ Started(new, s) /\ new.ip[s] = old.ip[s]
            /\ old.pod[s] = "absent" => new.pod[s] = "absent"

(* A move of the Service leaves the worker its target and its answer.      *)
LEMMA ServiceStepOK ==
    ASSUME Inv, NEW new \in ServiceType, ServiceOK(new), Moves(service, new),
           ServiceChanges(new), troubles' \in 0..MaxTroubles
    PROVE  Inv'
<1> USE DEF ServiceChanges, stored, queue
<1>1. TypeOK'
  BY DEF Inv, TypeOK
<1>2. CacheInv'
  BY DEF Inv, CacheInv
<1>3. PastInv'
  BY DEF Inv, PastInv
<1>4. WorkerOK(new, worker, clock)
  <2>1. ASSUME NEW t, KnownTarget(service, t) PROVE KnownTarget(new, t)
    BY <2>1 DEF KnownTarget, Moves, Started
  <2>2. KnownTarget(service, worker.target) /\ AnswerOK(service, worker) => AnswerOK(new, worker)
    BY DEF KnownTarget, Moves, AnswerOK, Started
  <2> QED BY <2>1, <2>2 DEF Inv, WorkerOK, Searching
<1>5. ServiceOK(service)' /\ WorkerOK(service, worker, clock)'
  BY <1>4
<1> QED BY <1>1, <1>2, <1>3, <1>5 DEF Inv

(* The parts of the Service, as Inv types them.                            *)
LEMMA ServiceIs ==
    ASSUME Inv
    PROVE  /\ service \in ServiceType /\ ServiceOK(service) /\ troubles \in 0..MaxTroubles
           /\ service.current \in 0..MaxStanding
           /\ service.standing \in
                [StandingRuns -> {"absent", "unready", "running", "incompatible", "ended"}]
           /\ service.pod \in [StandingRuns -> {"absent", "unready", "ready"}]
           /\ service.ip \in [StandingRuns -> {0} \cup Ips]
           /\ service.secret \in [StandingRuns -> {"absent", "invalid", "valid"}]
           /\ service.agent \in {"service", "missing", "foreign"}
<1>1. service \in ServiceType /\ ServiceOK(service) /\ troubles \in 0..MaxTroubles
  BY DEF Inv, TypeOK
<1> QED BY <1>1, BoundsAssumption DEF ServiceType, StandingRuns

(* Inv, the Service casting its next standing run.                         *)
LEMMA ServiceRecastsStep ==
    ASSUME Inv, ServiceRecasts PROVE Inv'
<1>1. PICK new : new = [service EXCEPT !.current = @ + 1,
                                      !.standing[service.current + 1] = "unready"]
  OBVIOUS
<1>2. PICK c \in 0..MaxStanding : c = service.current /\ c < MaxStanding
  BY ServiceIs DEF ServiceRecasts
<1>3. c + 1 \in StandingRuns /\ c \in Nat
  BY <1>2, BoundsAssumption DEF StandingRuns
<1>4. /\ new.current = c + 1 /\ new.pod = service.pod /\ new.ip = service.ip
      /\ new.secret = service.secret /\ new.agent = service.agent
      /\ new.standing = [service.standing EXCEPT ![c + 1] = "unready"]
  BY <1>1, <1>2, ServiceIs DEF ServiceType
<1>5. new \in ServiceType
  <2>1. new.standing \in
          [StandingRuns -> {"absent", "unready", "running", "incompatible", "ended"}]
    BY <1>4, ServiceIs
  <2>2. c + 1 \in {0} \cup StandingRuns
    BY <1>3
  <2>3. service \in ServiceType
    BY ServiceIs
  <2>4. new = [service EXCEPT !.current = c + 1,
                              !.standing = [service.standing EXCEPT ![c + 1] = "unready"]]
    BY <1>1, <1>2, <2>3 DEF ServiceType
  <2> QED BY <1>4, <2>1, <2>2, <2>3, <2>4 DEF ServiceType
<1>6. service.pod[c + 1] = "absent"
  BY <1>2, <1>3, ServiceIs DEF ServiceOK, Started
<1>7. ServiceOK(new)
  <2> SUFFICES ASSUME NEW s \in StandingRuns
               PROVE  /\ s > new.current => new.standing[s] = "absent"
                      /\ new.pod[s] # "absent" => Started(new, s)
    BY DEF ServiceOK
  <2>1. s \in Nat
    BY DEF StandingRuns
  <2>2. CASE s = c + 1
    BY <1>3, <1>4, <1>6, <2>2
  <2>3. CASE s # c + 1
    BY <1>2, <1>3, <1>4, <2>1, <2>3, ServiceIs DEF ServiceOK, Started
  <2> QED BY <2>2, <2>3
<1>8. Moves(service, new)
  <2> SUFFICES ASSUME NEW s \in StandingRuns, Started(service, s)
               PROVE  Started(new, s)
    BY <1>4 DEF Moves
  <2>1. s \in Nat /\ s <= c
    BY <1>2 DEF StandingRuns, Started
  <2> QED BY <1>3, <1>4, <2>1, ServiceIs DEF Started
<1>9. ServiceChanges(new) /\ troubles' \in 0..MaxTroubles
  BY <1>1, ServiceIs DEF ServiceRecasts
<1> QED BY <1>5, <1>7, <1>8, <1>9, ServiceStepOK

(* Inv, a standing run getting its Pod, address and credential.            *)
LEMMA StandingRunStartsStep ==
    ASSUME Inv, NEW s \in StandingRuns, StandingRunStarts(s) PROVE Inv'
<1>1. PICK ip \in Ips, state \in {"running", "incompatible"} :
          ServiceChanges([service EXCEPT !.standing[s] = state, !.pod[s] = "ready",
                                         !.ip[s] = ip, !.secret[s] = "valid"])
  BY DEF StandingRunStarts
<1>2. PICK new : new = [service EXCEPT !.standing[s] = state, !.pod[s] = "ready",
                                       !.ip[s] = ip, !.secret[s] = "valid"]
  OBVIOUS
<1>3. service \in ServiceType
  BY ServiceIs
<1>4. /\ new.current = service.current /\ new.agent = service.agent
      /\ new.standing = [service.standing EXCEPT ![s] = state]
      /\ new.pod = [service.pod EXCEPT ![s] = "ready"]
      /\ new.ip = [service.ip EXCEPT ![s] = ip]
      /\ new.secret = [service.secret EXCEPT ![s] = "valid"]
  BY <1>2, <1>3 DEF ServiceType
<1>5. new \in ServiceType
  BY <1>2, <1>3 DEF ServiceType
<1>6. service.standing[s] = "unready" /\ s <= service.current
  <2>1. s \in Nat /\ service.current \in Nat
    BY ServiceIs, BoundsAssumption DEF StandingRuns
  <2> QED BY <2>1, ServiceIs DEF StandingRunStarts, ServiceOK
<1>7. ServiceOK(new)
  BY <1>4, <1>6, ServiceIs DEF ServiceOK, Started
<1>8. Moves(service, new)
  BY <1>4, <1>6, ServiceIs DEF Moves, Started
<1>9. troubles' \in 0..MaxTroubles /\ ServiceChanges(new)
  BY <1>1, <1>2, ServiceIs DEF StandingRunStarts
<1> QED BY <1>5, <1>7, <1>8, <1>9, ServiceStepOK

(* Changes of the Service that start nothing.                              *)
LEMMA ServiceDeclines ==
    ASSUME Inv, NEW new \in ServiceType, new.current = service.current, new.ip = service.ip,
           \A s \in StandingRuns :
               /\ new.standing[s] = service.standing[s]
                  \/ (new.standing[s] \in {"absent", "ended"} /\ service.standing[s] # "absent")
               /\ new.pod[s] # "absent" => service.pod[s] # "absent",
           ServiceChanges(new), troubles' \in 0..MaxTroubles
    PROVE  Inv'
<1>1. ServiceOK(new)
  BY ServiceIs DEF ServiceOK, Started
<1>2. Moves(service, new)
  BY DEF Moves, Started
<1> QED BY <1>1, <1>2, ServiceStepOK

(* Inv, a standing run ending.                                             *)
LEMMA StandingRunEndsStep ==
    ASSUME Inv, NEW s \in StandingRuns, StandingRunEnds(s) PROVE Inv'
<1>1. PICK new : new = [service EXCEPT !.standing[s] = "ended"]
  OBVIOUS
<1>2. service \in ServiceType
  BY ServiceIs
<1>3. new \in ServiceType
  BY <1>1, <1>2 DEF ServiceType
<1>4. /\ new.current = service.current /\ new.ip = service.ip /\ new.pod = service.pod
      /\ new.standing = [service.standing EXCEPT ![s] = "ended"]
  BY <1>1, <1>2 DEF ServiceType
<1>5. ServiceChanges(new) /\ troubles' \in 0..MaxTroubles
  BY <1>1, ServiceIs DEF StandingRunEnds
<1> QED BY <1>3, <1>4, <1>5, ServiceDeclines, ServiceIs DEF StandingRunEnds

(* Inv, a Pod turning unready, or going for good.                          *)
LEMMA PodChangesStep ==
    ASSUME Inv, NEW s \in StandingRuns, PodChanges(s) PROVE Inv'
<1>1. PICK state \in {"absent", "unready", "ready"} :
          ServiceChanges([service EXCEPT !.pod[s] = state])
  BY DEF PodChanges
<1>2. PICK new : new = [service EXCEPT !.pod[s] = state]
  OBVIOUS
<1>3. service \in ServiceType
  BY ServiceIs
<1>4. new \in ServiceType
  BY <1>2, <1>3 DEF ServiceType
<1>5. /\ new.current = service.current /\ new.ip = service.ip
      /\ new.pod = [service.pod EXCEPT ![s] = state] /\ new.standing = service.standing
  BY <1>2, <1>3 DEF ServiceType
<1>6. ServiceChanges(new) /\ troubles' \in 0..MaxTroubles /\ service.pod[s] # "absent"
  BY <1>1, <1>2, TroubleIs DEF PodChanges
<1> QED BY <1>4, <1>5, <1>6, ServiceDeclines, ServiceIs

(* Inv, a standing run deleted with its Pod and credential.                *)
LEMMA StandingRunDeletedStep ==
    ASSUME Inv, NEW s \in StandingRuns, StandingRunDeleted(s) PROVE Inv'
<1>1. PICK new : new = [service EXCEPT !.standing[s] = "absent", !.pod[s] = "absent",
                                       !.secret[s] = "absent"]
  OBVIOUS
<1>2. service \in ServiceType
  BY ServiceIs
<1>3. new \in ServiceType
  BY <1>1, <1>2 DEF ServiceType
<1>4. /\ new.current = service.current /\ new.ip = service.ip
      /\ new.pod = [service.pod EXCEPT ![s] = "absent"]
      /\ new.standing = [service.standing EXCEPT ![s] = "absent"]
  BY <1>1, <1>2 DEF ServiceType
<1>5. ServiceChanges(new) /\ troubles' \in 0..MaxTroubles /\ service.standing[s] # "absent"
  BY <1>1, TroubleIs DEF StandingRunDeleted
<1> QED BY <1>3, <1>4, <1>5, ServiceDeclines, ServiceIs

(* Inv, a credential edited or deleted.                                    *)
LEMMA SecretSpoiledStep ==
    ASSUME Inv, NEW s \in StandingRuns, SecretSpoiled(s) PROVE Inv'
<1>1. PICK state \in {"absent", "invalid"} :
          ServiceChanges([service EXCEPT !.secret[s] = state])
  BY DEF SecretSpoiled
<1>2. PICK new : new = [service EXCEPT !.secret[s] = state]
  OBVIOUS
<1>3. service \in ServiceType
  BY ServiceIs
<1>4. new \in ServiceType
  BY <1>2, <1>3 DEF ServiceType
<1>5. /\ new.current = service.current /\ new.ip = service.ip
      /\ new.pod = service.pod /\ new.standing = service.standing
  BY <1>2, <1>3 DEF ServiceType
<1>6. ServiceChanges(new) /\ troubles' \in 0..MaxTroubles
  BY <1>1, <1>2, TroubleIs DEF SecretSpoiled
<1> QED BY <1>4, <1>5, <1>6, ServiceDeclines

(* Inv, the Agent deleted or turned into another kind.                     *)
LEMMA AgentReplacedStep ==
    ASSUME Inv, AgentReplaced PROVE Inv'
<1>1. PICK state \in {"missing", "foreign"} : ServiceChanges([service EXCEPT !.agent = state])
  BY DEF AgentReplaced
<1>2. PICK new : new = [service EXCEPT !.agent = state]
  OBVIOUS
<1>3. service \in ServiceType
  BY ServiceIs
<1>4. new \in ServiceType
  BY <1>2, <1>3 DEF ServiceType
<1>5. /\ new.current = service.current /\ new.ip = service.ip
      /\ new.pod = service.pod /\ new.standing = service.standing
  BY <1>2, <1>3 DEF ServiceType
<1>6. ServiceChanges(new) /\ troubles' \in 0..MaxTroubles
  BY <1>1, <1>2, TroubleIs DEF AgentReplaced
<1> QED BY <1>4, <1>5, <1>6, ServiceDeclines

----------------------------------------------------------------------------
(* The invariant.                                                          *)

(* Inv holds at first.                                                     *)
LEMMA InitInv == Init => Inv
<1> SUFFICES ASSUME Init PROVE Inv
  OBVIOUS
<1> USE DEF Init
<1>1. TypeOK
  <2>1. NoTime \in Times /\ 0 \in 0..MaxUid /\ 0 \in 0..MaxTime /\ 0 \in 0..MaxTroubles
    BY BoundsAssumption DEF Times
  <2>2. service \in ServiceType
    BY DEF ServiceType
  <2>3. <<>> \in Seq(RunType)
    OBVIOUS
  <2> QED BY <2>1, <2>2, <2>3, NoRunType, IdleIs DEF TypeOK
<1>2. ServiceOK(service)
  BY DEF ServiceOK
<1>3. WorkerOK(service, worker, clock)
  BY IdleIs
<1>4. CacheInv
  BY DEF CacheInv
<1>5. PastInv
  BY NoRunType, IdleIs DEF PastInv, Old
<1> QED BY <1>1, <1>2, <1>3, <1>4, <1>5 DEF Inv

(* Every step keeps the invariant, whatever the cache misses.              *)
LEMMA InvStep ==
    ASSUME Inv, [Next]_vars PROVE Inv'
<1>1. CASE WorkerStep
  BY <1>1, ReconcileDeliveryStep, ReadAgentStep, ReadStandingRunStep, ReadPodStep, ReadSecretStep,
     PatchRunningStep, DeliverStep, ReadLatestStep, PatchRunStatusStep, PatchNotFoundStep
     DEF WorkerStep
<1>2. CASE DeliverRunEvent \/ RequeueAfter \/ ApiCallFails \/ Crash \/ Tick
  BY <1>2, DeliverRunEventStep, RequeueAfterStep, ApiCallFailsStep, CrashStep, TickStep
<1>3. CASE (\E limit \in Limits : UserCreatesRun(limit)) \/ UserDeletesRun
  BY <1>3, UserCreatesRunStep, UserDeletesRunStep
<1>4. CASE ServiceRecasts \/ AgentReplaced
  BY <1>4, ServiceRecastsStep, AgentReplacedStep
<1>5. CASE \E s \in StandingRuns : StandingStep(s)
  BY <1>5, StandingRunStartsStep, StandingRunEndsStep, PodChangesStep, StandingRunDeletedStep,
     SecretSpoiledStep DEF StandingStep
<1>6. CASE UNCHANGED vars
  <2> USE <1>6 DEF vars
  <2>1. TypeOK'
    BY DEF Inv, TypeOK
  <2>2. CacheInv'
    BY DEF Inv, CacheInv
  <2>3. PastInv'
    BY DEF Inv, PastInv
  <2>4. ServiceOK(service)' /\ WorkerOK(service, worker, clock)'
    BY DEF Inv
  <2> QED BY <2>1, <2>2, <2>3, <2>4 DEF Inv
<1> QED BY <1>1, <1>2, <1>3, <1>4, <1>5, <1>6 DEF Next

(* Inv is an invariant, whatever the lag of the cache.                     *)
LEMMA Invariance == Spec => []Inv
<1>1. Inv /\ [Next]_vars => Inv'
  BY InvStep
<1> QED BY <1>1, InitInv, PTL DEF Spec

(* The controller's state is well typed, whatever the cache misses and     *)
(* wherever it crashes: in particular every requeue has a time             *)
(* (deliveryBackoff) and every request a target.                           *)
THEOREM TypeCorrect == Spec => []TypeOK
<1>1. Inv => TypeOK
  BY DEF Inv
<1> QED BY <1>1, Invariance, PTL

----------------------------------------------------------------------------
(* With a cache that has caught up.                                        *)

(* The fields of a patched status.                                         *)
LEMMA MergePatchFields ==
    ASSUME NEW live \in StatusType, NEW base \in StatusType, NEW next \in StatusType
    PROVE  LET m == MergePatch(live, base, next) IN
           /\ m.phase = IF next.phase # base.phase THEN next.phase ELSE live.phase
           /\ m.completion =
                IF next.completion # base.completion THEN next.completion ELSE live.completion
           /\ m.start = IF next.start # base.start THEN next.start ELSE live.start
BY DEF MergePatch, StatusType

(* A run just created has not started, and not ended.                      *)
LEMMA EmptyStatusIs ==
    /\ EmptyStatus.phase = "unset" /\ ~IsTerminal(EmptyStatus.phase)
    /\ EmptyStatus.start = NoTime /\ EmptyStatus.completion = NoTime
    /\ EmptyStatus.reason = "unset"
BY DEF EmptyStatus, IsTerminal, TerminalPhases

(* What FreshInv says of a reconcile about to patch a run that exists.     *)
LEMMA PatchMeets ==
    ASSUME Inv, FreshInv, worker.pc # "idle", run # NoRun
    PROVE  /\ worker.base \in LiveRunType /\ worker.base.status \in StatusType
           /\ run \in LiveRunType /\ run.status \in StatusType
           /\ ~IsTerminal(worker.base.status.phase) /\ worker.base.status.completion = NoTime
           /\ \/ run.status = worker.base.status /\ (run.uid = 1 => run = worker.base)
              \/ run.uid # 1 /\ run.status = EmptyStatus
<1>1. worker.base \in LiveRunType /\ run \in LiveRunType
  BY Busy, SomeRun DEF Inv, TypeOK
<1>2. worker.base.uid \in Nat \ {0} /\ run.uid \in Nat \ {0}
  BY <1>1, LiveRun
<1>3. worker.base.uid < run.uid => run.uid # 1
  BY <1>2
<1> QED BY <1>1, <1>3, LiveRun DEF FreshInv, Fresh, SameRun

(* A reconcile that has ended asks nothing.                                *)
LEMMA IdleIsFresh ==
    ASSUME NEW r PROVE Fresh(Idle, r) /\ Sent(Idle)
BY IdleIs, NoRunType DEF Fresh, Sent

(* The worker goes on with the same run.                                   *)
LEMMA GoesOn ==
    ASSUME FreshInv, run' = run, worker.pc # "idle", worker'.base = worker.base,
           worker'.pc \in Searching =>
               /\ worker.pc \in Searching
               /\ worker'.stage = worker.stage /\ worker'.target = worker.target,
           worker'.pc = "http" =>
               worker.pc \in Searching /\ worker.stage = "before" /\ worker'.target = worker.target
    PROVE  FreshInv'
BY DEF FreshInv, Fresh, Sent, CutOffInTime, Searching

(* FreshInv, steps that touch neither the run nor what is done with it.    *)
LEMMA FreshAside ==
    ASSUME FreshInv, run' = run, worker' = worker \/ worker' = Idle
    PROVE  FreshInv'
<1>1. Fresh(worker', run) /\ Sent(worker')
  BY IdleIsFresh DEF FreshInv
<1> QED BY <1>1 DEF FreshInv, CutOffInTime

(* FreshInv, reconcileDelivery: with no lag, it starts from the stored run. *)
LEMMA FreshReconcile ==
    ASSUME RunLag = 0, Inv, FreshInv, ReconcileDelivery PROVE FreshInv'
<1>1. runCache = run /\ run \in RunType /\ clock \in Times /\ Old(run, lastUid, clock)
      /\ run' = run
  <2>1. runEvents \in Seq(RunType) /\ Len(runEvents) <= 0
    BY DEF Inv, TypeOK, ReconcileDelivery
  <2>2. runEvents = <<>>
    BY <2>1
  <2> QED BY <2>2 DEF Inv, TypeOK, CacheInv, PastInv, ReconcileDelivery, stored, Times
<1>2. PICK v : v = worker' /\ v = Begin(run)
  BY <1>1 DEF ReconcileDelivery
<1>3. v = Idle \/
         (/\ v.base = run /\ run.uid # 0 /\ ~IsTerminal(run.status.phase)
          /\ v.pc = "patch" \/ (v.pc = "agent" /\ v.stage = "first"))
  BY <1>1, <1>2, BeginOK DEF Old
<1>4. CASE v = Idle
  BY <1>1, <1>2, <1>4, FreshAside
<1>5. CASE v # Idle
  <2>1. Fresh(v, run)
    BY <1>3, <1>5 DEF FreshInv, OpenStatus, Fresh, SameRun
  <2>2. Sent(v)
    BY <1>3, <1>5 DEF Sent, Searching
  <2> QED BY <1>1, <1>2, <2>1, <2>2 DEF FreshInv, CutOffInTime
<1> QED BY <1>4, <1>5

(* FreshInv, the reads that look for the target.                           *)
LEMMA FreshReads ==
    ASSUME Inv, FreshInv, ReadAgent \/ ReadStandingRun \/ ReadPod \/ ReadSecret PROVE FreshInv'
<1> USE DEF Reading, GoOn, stored
<1>0. /\ worker.pc \in Searching /\ run' = run
  BY DEF ReadAgent, ReadStandingRun, ReadPod, ReadSecret, Searching
<1>1. /\ worker \in WorkerType /\ worker.base \in LiveRunType /\ worker.pc # "idle"
      /\ worker.base.created <= clock /\ clock \in Times
      /\ WorkerOK(service, worker, clock) /\ service \in ServiceType
  BY <1>0, Busy DEF Searching
<1>2. CASE worker' = Misconfigured(worker)
  <2>1. worker'.base = worker.base /\ worker'.pc = "patch"
    BY <1>1, <1>2, MisconfiguredOK
  <2> QED BY <1>0, <1>1, <2>1, GoesOn DEF Searching
<1>3. CASE worker' = Unavailable(worker)
  <2>1. worker'.base = worker.base /\ worker'.pc = "patch"
    BY <1>1, <1>3, UnavailableOK
  <2> QED BY <1>0, <1>1, <2>1, GoesOn DEF Searching
<1>4. CASE /\ worker.pc = "secret" /\ worker' = Resolved(worker)
  <2>1. /\ worker'.base = worker.base /\ worker'.pc \in {"patch", "running", "http"}
        /\ worker'.pc = "http" => worker.stage = "before" /\ worker'.target = worker.target
    BY <1>1, <1>4, ResolvedOK
  <2> QED BY <1>0, <1>1, <2>1, GoesOn DEF Searching
<1>5. CASE \/ worker' = [worker EXCEPT !.pc = "standing", !.found.standing = service.current]
           \/ worker' = [worker EXCEPT !.pc = "pod"]
           \/ worker' = [worker EXCEPT !.pc = "secret",
                                       !.found.ip = service.ip[worker.found.standing]]
  <2>1. /\ worker'.base = worker.base /\ worker'.stage = worker.stage
        /\ worker'.target = worker.target /\ worker'.pc \in {"standing", "pod", "secret"}
    BY <1>1, <1>5 DEF WorkerType
  <2> QED BY <1>0, <1>1, <2>1, GoesOn
<1> QED BY <1>2, <1>3, <1>4, <1>5 DEF ReadAgent, ReadStandingRun, ReadPod, ReadSecret

(* FreshInv, the answer to the request.                                    *)
LEMMA FreshDeliver ==
    ASSUME Inv, FreshInv, Deliver PROVE FreshInv'
<1>1. worker \in WorkerType /\ worker.pc = "http" /\ run' = run
  BY DEF Deliver, stored, Inv, TypeOK
<1>2. \E answer : worker' = [worker EXCEPT !.pc = "latest", !.answer = answer]
  BY DEF Deliver, GoOn
<1>3. worker'.base = worker.base /\ worker'.pc = "latest"
  BY <1>1, <1>2 DEF WorkerType
<1> QED BY <1>1, <1>3, GoesOn DEF Searching

(* FreshInv, the run read again after the answer: the same run, still open. *)
LEMMA FreshLatest ==
    ASSUME Inv, FreshInv, ReadLatest PROVE FreshInv'
<1>0. run' = run /\ worker \in WorkerType /\ run \in RunType
  BY DEF ReadLatest, Reading, stored, Inv, TypeOK
<1>1. CASE run.uid # worker.base.uid \/ IsTerminal(run.status.phase)
  BY <1>0, <1>1, FreshAside DEF ReadLatest, Finish
<1>2. CASE run.uid = worker.base.uid /\ ~IsTerminal(run.status.phase)
  <2>1. worker' = Search(Reread(worker, run), "after")
    BY <1>2 DEF ReadLatest, GoOn
  <2>2. worker.pc = "latest" /\ worker.base \in LiveRunType /\ run \in LiveRunType
    BY <1>0, <1>2, Busy, LiveRun, SomeRun DEF ReadLatest, Reading
  <2>3. PICK w : w = Reread(worker, run)
    OBVIOUS
  <2>4. w \in WorkerType /\ w.base.uid = run.uid /\ w.base.created = run.created
        /\ w.base.status = run.status /\ (run.limit = worker.base.limit => w.base = run)
    BY <1>0, <2>2, <2>3, RereadIs
  <2>5. worker'.base = w.base /\ worker'.pc = "agent" /\ worker'.stage = "after"
    BY <2>1, <2>3, <2>4 DEF Search, WorkerType
  <2>6. run.uid = 1 => run = worker.base
    BY <2>2, LiveRun, PatchMeets
  <2>7. Fresh(worker', run)
    BY <1>2, <2>4, <2>5, <2>6 DEF FreshInv, OpenStatus, Fresh, SameRun
  <2>8. Sent(worker')
    BY <2>5 DEF Sent
  <2> QED BY <1>0, <2>7, <2>8 DEF FreshInv, CutOffInTime
<1> QED BY <1>1, <1>2

(* Marking the run Running: on the run worked from it says so and names    *)
(* the target; on a newer one it leaves it open.                           *)
LEMMA RunningPatch ==
    ASSUME Inv, FreshInv, PatchRunning
    PROVE  /\ run # NoRun /\ run'.uid = run.uid /\ run' \in LiveRunType
           /\ ~IsTerminal(run.status.phase) /\ ~IsTerminal(run'.status.phase)
           /\ run'.status.completion = NoTime
           /\ run.status.start # NoTime => run'.status.start = run.status.start
           /\ \/ run'.status.phase = "Running"
              \/ run'.status.phase = "unset" /\ run.status.phase = "unset"
           /\ run.uid = 1 =>
                 /\ run'.status.phase = "Running" /\ run'.status.reason = "delivering"
                 /\ run'.status.pod = worker.target.standing
                 /\ run'.limit = worker.base.limit
<1>0. worker.pc = "running" /\ run # NoRun
  BY DEF PatchRunning
<1>1. /\ worker.base \in LiveRunType /\ worker.base.status \in StatusType
      /\ run \in LiveRunType /\ run.status \in StatusType
      /\ ~IsTerminal(worker.base.status.phase) /\ worker.base.status.completion = NoTime
      /\ \/ run.status = worker.base.status /\ (run.uid = 1 => run = worker.base)
         \/ run.uid # 1 /\ run.status = EmptyStatus
  BY <1>0, PatchMeets
<1>2. worker.target.standing \in StandingRuns /\ clock \in Times
  BY <1>0, Busy DEF WorkerOK, KnownTarget, Started
<1>3. PICK next : next = SetDeliveryRunning(worker.base.status, worker.target.standing)
  OBVIOUS
<1>4. /\ next \in StatusType
      /\ next.phase = "Running" /\ next.pod = worker.target.standing
      /\ next.completion = NoTime /\ next.reason = "delivering"
      /\ worker.base.status.start # NoTime => next.start = worker.base.status.start
  <2>1. PICK s \in StatusType : s = worker.base.status
    BY <1>1
  <2>2. PICK t \in StandingRuns : t = worker.target.standing
    BY <1>2
  <2>3. /\ SetDeliveryRunning(s, t) \in StatusType
        /\ SetDeliveryRunning(s, t).phase = "Running" /\ SetDeliveryRunning(s, t).pod = t
        /\ SetDeliveryRunning(s, t).completion = NoTime
        /\ SetDeliveryRunning(s, t).reason = "delivering"
        /\ s.start # NoTime => SetDeliveryRunning(s, t).start = s.start
    BY <1>2, RunningIs
  <2>4. next = SetDeliveryRunning(s, t)
    BY <1>3, <2>1, <2>2
  <2> QED BY <2>1, <2>2, <2>3, <2>4
<1>5. PICK m : m = MergePatch(run.status, worker.base.status, next)
  OBVIOUS
<1>6. m \in StatusType
  BY <1>1, <1>4, <1>5, MergePatchType
<1>7. SetRun([run EXCEPT !.status = m])
  BY <1>3, <1>5 DEF PatchRunning
<1>8. run' \in LiveRunType /\ run'.status = m /\ run'.uid = run.uid /\ run'.limit = run.limit
  BY <1>0, <1>6, <1>7, SetStatus
<1>9. ~IsTerminal("Running") /\ ~IsTerminal("unset")
  BY DEF IsTerminal, TerminalPhases
<1>10. CASE run.status = worker.base.status
  <2>1. m = next
    BY <1>1, <1>4, <1>5, <1>10, MergePatchOnBase
  <2> QED BY <1>0, <1>1, <1>4, <1>8, <1>9, <1>10, <2>1
<1>11. CASE run.uid # 1 /\ run.status = EmptyStatus
  <2>1. m.phase \in {"Running", "unset"} /\ m.completion = NoTime
    BY <1>1, <1>4, <1>5, <1>11, MergePatchFields, EmptyStatusIs
  <2> QED BY <1>0, <1>8, <1>9, <1>11, <2>1, EmptyStatusIs
<1> QED BY <1>1, <1>10, <1>11

(* FreshInv, the run marked Running before it is sent.                     *)
LEMMA FreshRunning ==
    ASSUME Inv, FreshInv, PatchRunning PROVE FreshInv'
<1>1. /\ run # NoRun /\ run'.uid = run.uid /\ run' \in LiveRunType
      /\ ~IsTerminal(run'.status.phase) /\ run'.status.completion = NoTime
      /\ run.uid = 1 =>
            /\ run'.status.phase = "Running" /\ run'.status.reason = "delivering"
            /\ run'.status.pod = worker.target.standing
            /\ run'.limit = worker.base.limit
  BY RunningPatch
<1>2. OpenStatus(run'.status) /\ CutOffInTime'
  BY <1>1 DEF OpenStatus, CutOffInTime
<1>3. Fresh(worker', run') /\ Sent(worker')
  <2>1. CASE worker' = Idle
    BY <2>1, IdleIsFresh
  <2>2. CASE worker' = Search(Reread(worker, run'), "before")
    <3>0. worker \in WorkerType /\ worker.base \in LiveRunType
      BY Busy DEF PatchRunning
    <3>1. PICK r \in LiveRunType : r = run'
      BY <1>1
    <3>2. PICK w : w = Reread(worker, r)
      OBVIOUS
    <3>3. /\ w \in WorkerType /\ w.base.uid = r.uid /\ w.base.created = r.created
          /\ w.base.status = r.status /\ w.target = worker.target
          /\ r.limit = worker.base.limit => w.base = r
      BY <3>0, <3>2, RereadIs
    <3>4. /\ worker'.base = w.base /\ worker'.pc = "agent" /\ worker'.stage = "before"
          /\ worker'.target = worker.target
      BY <2>2, <3>1, <3>2, <3>3 DEF Search, WorkerType
    <3> QED BY <1>1, <3>1, <3>3, <3>4 DEF Fresh, SameRun, Sent
  <2> QED BY <2>1, <2>2 DEF PatchRunning, Replied, Retry, GoOn
<1> QED BY <1>2, <1>3 DEF FreshInv

(* Recording the outcome.                                                  *)
LEMMA OutcomePatch ==
    ASSUME Inv, FreshInv, PatchRunStatus
    PROVE  /\ run'.uid = run.uid /\ ~IsTerminal(run.status.phase) /\ OpenStatus(run'.status)
           /\ run.status.start # NoTime => run'.status.start = run.status.start
           /\ CutOffInTime'
           /\ \/ /\ run'.status.phase = worker.next.phase
                 /\ run'.status.completion = worker.next.completion
              \/ run'.status.phase = "unset" /\ run.status.phase = "unset"
<1>0. worker.pc = "patch" /\ run # NoRun
  BY DEF PatchRunStatus
<1>1. /\ worker.base \in LiveRunType /\ worker.base.status \in StatusType
      /\ run \in LiveRunType /\ run.status \in StatusType
      /\ ~IsTerminal(worker.base.status.phase) /\ worker.base.status.completion = NoTime
      /\ \/ run.status = worker.base.status /\ (run.uid = 1 => run = worker.base)
         \/ run.uid # 1 /\ run.status = EmptyStatus
  BY <1>0, PatchMeets
<1>2. worker.next \in StatusType /\ PatchOK(worker)
  <2>1. worker \in WorkerType /\ WorkerOK(service, worker, clock)
    BY DEF Inv, TypeOK
  <2> QED BY <1>0, <2>1 DEF WorkerType, WorkerOK
<1>3. PICK m : m = MergePatch(run.status, worker.base.status, worker.next)
  OBVIOUS
<1>4. m \in StatusType
  BY <1>1, <1>2, <1>3, MergePatchType
<1>5. SetRun([run EXCEPT !.status = m])
  BY <1>3 DEF PatchRunStatus
<1>6. /\ run'.status = m /\ run'.uid = run.uid /\ run'.limit = run.limit
      /\ run'.created = run.created
  BY <1>0, <1>4, <1>5, SetStatus
<1>7. CASE run.status = worker.base.status /\ (run.uid = 1 => run = worker.base)
  <2>1. m = worker.next
    BY <1>1, <1>2, <1>3, <1>7, MergePatchOnBase
  <2>2. OpenStatus(m) /\ m.start = run.status.start
    BY <1>1, <1>2, <1>7, <2>1 DEF PatchOK, OpenStatus
  <2>3. CutOffInTime'
    BY <1>1, <1>2, <1>6, <1>7, <2>1 DEF PatchOK, CutOffInTime
  <2> QED BY <1>1, <1>6, <1>7, <2>1, <2>2, <2>3
<1>8. CASE run.uid # 1 /\ run.status = EmptyStatus
  <2>1. /\ m.phase = IF worker.next.phase # worker.base.status.phase
                     THEN worker.next.phase ELSE "unset"
        /\ m.completion = worker.next.completion
    BY <1>1, <1>2, <1>3, <1>8, MergePatchFields, EmptyStatusIs
  <2>2. OpenStatus(m)
    BY <1>1, <1>2, <2>1 DEF PatchOK, OpenStatus
  <2>3. CutOffInTime'
    BY <1>6, <1>8 DEF CutOffInTime
  <2> QED BY <1>6, <1>8, <2>1, <2>2, <2>3, EmptyStatusIs
<1> QED BY <1>1, <1>7, <1>8

(* FreshInv, the outcome written, on the status it was decided from.       *)
LEMMA FreshOutcome ==
    ASSUME Inv, FreshInv, PatchRunStatus PROVE FreshInv'
<1>1. worker' = Idle
  BY DEF PatchRunStatus, Replied, Retry, Finish
<1> QED BY <1>1, OutcomePatch, IdleIsFresh DEF FreshInv

(* FreshInv, users: a new run is untouched, a deleted one is no run.       *)
LEMMA FreshUsers ==
    ASSUME Inv, FreshInv, (\E limit \in Limits : UserCreatesRun(limit)) \/ UserDeletesRun
    PROVE  FreshInv'
<1>1. CASE UserDeletesRun
  <2>1. run' = NoRun /\ worker' = worker
    BY <1>1 DEF UserDeletesRun, SetRun
  <2> QED BY <2>1, NoRunType, EmptyStatusIs DEF FreshInv, OpenStatus, Fresh, CutOffInTime
<1>2. ASSUME NEW limit \in Limits, UserCreatesRun(limit) PROVE FreshInv'
  <2>1. /\ run' = [uid |-> lastUid + 1, limit |-> limit, created |-> clock,
                   status |-> EmptyStatus]
        /\ worker' = worker
    BY <1>2 DEF UserCreatesRun, SetRun
  <2>2. run'.uid = lastUid + 1 /\ run'.status = EmptyStatus
    BY <2>1
  <2>3. worker.pc # "idle" => worker.base.uid < run'.uid
    <3>1. worker.pc # "idle" => worker.base.uid \in Nat /\ worker.base.uid <= lastUid
      BY Busy, LiveRun DEF Old
    <3>2. lastUid \in Nat
      BY BoundsAssumption DEF Inv, TypeOK
    <3> QED BY <2>2, <3>1, <3>2
  <2>4. Fresh(worker', run')
    BY <2>1, <2>2, <2>3 DEF FreshInv, Fresh
  <2>5. OpenStatus(run'.status) /\ CutOffInTime'
    BY <2>2, EmptyStatusIs DEF OpenStatus, CutOffInTime
  <2> QED BY <2>1, <2>4, <2>5 DEF FreshInv
<1> QED BY <1>1, <1>2

(* Every step keeps FreshInv when reconciles start from a caught-up cache. *)
LEMMA FreshStep ==
    ASSUME RunLag = 0, Inv, FreshInv, [Next]_vars PROVE FreshInv'
<1>1. CASE WorkerStep
  <2>1. CASE PatchNotFound
    BY <2>1, FreshAside DEF PatchNotFound, Retry, stored
  <2> QED BY <1>1, <2>1, FreshReconcile, FreshReads, FreshRunning, FreshDeliver, FreshLatest,
             FreshOutcome DEF WorkerStep
<1>2. CASE DeliverRunEvent \/ RequeueAfter \/ ApiCallFails \/ Crash \/ Tick
  BY <1>2, FreshAside DEF DeliverRunEvent, RequeueAfter, ApiCallFails, Crash, Tick, Retry, stored
<1>3. CASE (\E limit \in Limits : UserCreatesRun(limit)) \/ UserDeletesRun
  BY <1>3, FreshUsers
<1>4. CASE ServiceRecasts \/ AgentReplaced
  BY <1>4, FreshAside DEF ServiceRecasts, AgentReplaced, ServiceChanges, stored
<1>5. CASE \E s \in StandingRuns : StandingStep(s)
  BY <1>5, FreshAside DEF StandingStep, StandingRunStarts, StandingRunEnds, PodChanges,
     StandingRunDeleted, SecretSpoiled, ServiceChanges, stored
<1>6. CASE UNCHANGED vars
  BY <1>6, FreshAside DEF vars
<1> QED BY <1>1, <1>2, <1>3, <1>4, <1>5, <1>6 DEF Next

(* With no lag, FreshInv is an invariant too.                              *)
LEMMA FreshInvariance ==
    ASSUME RunLag = 0 PROVE Spec => [](Inv /\ FreshInv)
<1>1. Init => FreshInv
  BY IdleIsFresh, NoRunType, EmptyStatusIs DEF Init, FreshInv, OpenStatus, CutOffInTime
<1>2. Inv /\ FreshInv /\ [Next]_vars => Inv' /\ FreshInv'
  BY InvStep, FreshStep
<1> QED BY <1>1, <1>2, InitInv, PTL DEF Spec

(* Only two calls of a reconcile, and users, write the run.                *)
LEMMA OnlyTheseWriteRun ==
    ASSUME [Next]_vars
    PROVE  \/ PatchRunning \/ PatchRunStatus \/ (\E limit \in Limits : UserCreatesRun(limit))
           \/ UserDeletesRun \/ run' = run
BY DEF Next, WorkerStep, StandingStep, vars, stored, ReconcileDelivery, Reading, ReadAgent,
   ReadStandingRun, ReadPod, ReadSecret, Deliver, ReadLatest, PatchNotFound, DeliverRunEvent,
   RequeueAfter, ApiCallFails, Crash, Tick, ServiceRecasts, AgentReplaced, ServiceChanges,
   StandingRunStarts, StandingRunEnds, PodChanges, StandingRunDeleted, SecretSpoiled

(* A delivered run that has ended keeps its outcome, and its budget runs   *)
(* from the first attempt on, across retries, crashes and recreations      *)
(* (reconcileDelivery, patchRunStatus).                                    *)
THEOREM OutcomeStays ==
    ASSUME RunLag = 0 PROVE Spec => TerminalStays
<1> DEFINE Kept == run.uid # 0 /\ run'.uid = run.uid =>
                       /\ IsTerminal(run.status.phase) => run'.status = run.status
                       /\ run.status.start # NoTime => run'.status.start = run.status.start
<1>1. ASSUME Inv, FreshInv, [Next]_vars PROVE [Kept]_run
  <2>1. CASE PatchRunning
    BY <1>1, <2>1, RunningPatch
  <2>2. CASE PatchRunStatus
    BY <1>1, <2>2, OutcomePatch
  <2>3. CASE \E limit \in Limits : UserCreatesRun(limit)
    BY <2>3, NoRunType DEF UserCreatesRun
  <2>4. CASE UserDeletesRun
    BY <2>4, NoRunType DEF UserDeletesRun, SetRun
  <2>5. CASE run' = run
    BY <2>5
  <2>6. \/ PatchRunning \/ PatchRunStatus \/ (\E limit \in Limits : UserCreatesRun(limit))
        \/ UserDeletesRun \/ run' = run
    BY <1>1, OnlyTheseWriteRun
  <2> QED BY <2>1, <2>2, <2>3, <2>4, <2>5, <2>6
<1>2. Inv /\ FreshInv /\ [Next]_vars => [Kept]_run
  BY <1>1
<1> QED BY <1>2, FreshInvariance, PTL DEF Spec, TerminalStays

(* Only the answer of the run's own target counts: a run fails for a       *)
(* protocol error, or gets a result, only from the Pod it was sent to, and *)
(* while a request is out the run names that Pod (deliver, confirm).       *)
THEOREM TargetCounts ==
    ASSUME RunLag = 0 PROVE Spec => []OnlyTheTargetCounts
<1>1. ASSUME Inv, FreshInv PROVE OnlyTheTargetCounts
  <2>1. worker.pc = "patch" => PatchOK(worker)
    BY <1>1 DEF Inv, WorkerOK
  <2>2. ASSUME worker.pc = "http", run.uid = worker.base.uid, run.uid = 1
        PROVE  run.status.phase = "Running" /\ run.status.pod = worker.target.standing
    <3>1. run # NoRun
      BY <2>2, NoRunType
    <3>2. run = worker.base
      BY <1>1, <2>2, <3>1, PatchMeets
    <3> QED BY <1>1, <2>2, <3>2 DEF FreshInv, Sent
  <2> QED BY <2>1, <2>2 DEF OnlyTheTargetCounts, PatchOK
<1>2. Inv /\ FreshInv => OnlyTheTargetCounts
  BY <1>1
<1> QED BY <1>2, FreshInvariance, PTL

(* No run is charged for a budget it had no chance to use, nor given up    *)
(* before its window is over (deliveryDeadline).                           *)
THEOREM NoneIsCutOffEarly ==
    ASSUME RunLag = 0 PROVE Spec => []CutOffInTime
<1>1. Inv /\ FreshInv => CutOffInTime
  BY DEF FreshInv
<1> QED BY <1>1, FreshInvariance, PTL

----------------------------------------------------------------------------
(* The AgentRun lifecycle.                                                 *)

(* An end is stamped with its time, in the run and in what is about to be  *)
(* written, which always decides on a phase.                               *)
Stamped(status) == IsTerminal(status.phase) => status.completion # NoTime

Decided(w) == w.pc = "patch" => Stamped(w.next) /\ w.next.phase # "unset"

LifeInv == Stamped(run.status) /\ Decided(worker)

(* Waiting is a phase that needs no stamp.                                 *)
LEMMA UnavailableDecided ==
    ASSUME NEW w \in WorkerType, w.base \in LiveRunType PROVE Decided(Unavailable(w))
<1>1. w.base.status \in StatusType
  BY LiveRun
<1>2. PICK n : n = SetDeliveryWaiting(w.base.status)
  OBVIOUS
<1>3. n.phase = "Pending"
  BY <1>1, <1>2 DEF SetDeliveryWaiting, StatusType
<1>4. Unavailable(w).next = n
  BY <1>2 DEF Unavailable, PatchWith, WorkerType
<1> QED BY <1>3, <1>4 DEF Decided, Stamped, IsTerminal, TerminalPhases

(* An end is stamped with the clock, unless it has a stamp already.        *)
LEMMA TransitionStamps ==
    ASSUME NEW s \in StatusType, NEW phase \in TerminalPhases, NEW reason, clock \in Nat
    PROVE  /\ TransitionRun(s, phase, reason).completion # NoTime
           /\ TransitionRun(s, phase, reason).phase = phase /\ phase # "unset"
BY DEF TransitionRun, StatusType, NoTime, TerminalPhases

(* A reconcile about to end the run writes the stamp with the phase.       *)
LEMMA TransitionDecided ==
    ASSUME NEW w \in WorkerType, w.base \in LiveRunType, clock \in Nat,
           NEW phase \in TerminalPhases, NEW reason, NEW again
    PROVE  Decided(PatchWith(w, TransitionRun(w.base.status, phase, reason), again))
<1>1. PICK n : n = TransitionRun(w.base.status, phase, reason)
  OBVIOUS
<1>2. n.completion # NoTime /\ n.phase # "unset"
  BY <1>1, LiveRun, TransitionStamps
<1>3. PatchWith(w, n, again).next = n
  BY DEF PatchWith, WorkerType
<1> QED BY <1>1, <1>2, <1>3 DEF Decided, Stamped

(* The ways to end a run without an answer.                                *)
LEMMA GivesUpDecided ==
    ASSUME NEW w \in WorkerType, w.base \in LiveRunType, clock \in Nat
    PROVE  Decided(Misconfigured(w)) /\ Decided(GiveUp(w))
<1>1. "Failed" \in TerminalPhases /\ "BudgetExceeded" \in TerminalPhases
  BY DEF TerminalPhases
<1>2. Decided(Misconfigured(w))
  BY <1>1, TransitionDecided DEF Misconfigured
<1>3. CASE DeliveryDeadline(w.base).budget
  <2>1. GiveUp(w) = PatchWith(w, TransitionRun(w.base.status, "BudgetExceeded", "exceeded"), FALSE)
    BY <1>3 DEF GiveUp
  <2>2. Decided(PatchWith(w, TransitionRun(w.base.status, "BudgetExceeded", "exceeded"), FALSE))
    BY <1>1, TransitionDecided
  <2> QED BY <1>2, <2>1, <2>2
<1>4. CASE ~DeliveryDeadline(w.base).budget
  <2>1. GiveUp(w) = PatchWith(w, TransitionRun(w.base.status, "Failed", "timeout"), FALSE)
    BY <1>4 DEF GiveUp
  <2>2. Decided(PatchWith(w, TransitionRun(w.base.status, "Failed", "timeout"), FALSE))
    BY <1>1, TransitionDecided
  <2> QED BY <1>2, <2>1, <2>2
<1> QED BY <1>3, <1>4

(* What the answer says of the run.                                        *)
LEMMA ConcludeDecided ==
    ASSUME NEW w \in WorkerType, w.base \in LiveRunType, clock \in Nat, w.answer.kind # "none"
    PROVE  Decided(Conclude(w))
<1>0. "Failed" \in TerminalPhases /\ "Succeeded" \in TerminalPhases
  BY DEF TerminalPhases
<1>1. CASE w.answer.kind = "rejected"
  <2>1. Conclude(w) = PatchWith(w, TransitionRun(w.base.status, "Failed", "protocol"), FALSE)
    BY <1>1 DEF Conclude
  <2>2. Decided(PatchWith(w, TransitionRun(w.base.status, "Failed", "protocol"), FALSE))
    BY <1>0, TransitionDecided
  <2> QED BY <2>1, <2>2
<1>2. CASE w.answer.kind = "transport"
  <2>1. Conclude(w) = IF Expired(w.base) THEN GiveUp(w) ELSE Unavailable(w)
    BY <1>2 DEF Conclude
  <2> QED BY <2>1, GivesUpDecided, UnavailableDecided
<1>3. CASE w.answer.kind \notin {"rejected", "transport"}
  <2>1. PICK phase \in TerminalPhases : phase = w.answer.kind
    BY <1>0, <1>3 DEF WorkerType, AnswerType
  <2>2. PICK t : t = TransitionRun(w.base.status, phase, "result")
    OBVIOUS
  <2>3. t.completion # NoTime /\ t.phase = phase /\ phase # "unset"
    BY <2>2, LiveRun, TransitionStamps
  <2>4. PICK n : n = Completed(w)
    OBVIOUS
  <2>5. n.completion = t.completion /\ n.phase = t.phase
    <3>1. n = [t EXCEPT !.output = [uid |-> w.answer.uid, by |-> w.answer.by],
                        !.pod = w.target.standing]
      BY <2>1, <2>2, <2>4 DEF Completed
    <3>2. w.base.status \in StatusType
      BY LiveRun
    <3>3. {"completion", "phase"} \subseteq DOMAIN t
      BY <2>2, <3>2 DEF TransitionRun, StatusType
    <3> QED BY <3>1, <3>3
  <2>6. Conclude(w) = PatchWith(w, n, FALSE)
    BY <1>3, <2>4 DEF Conclude
  <2>7. PatchWith(w, n, FALSE).next = n
    BY DEF PatchWith, WorkerType
  <2> QED BY <2>3, <2>5, <2>6, <2>7 DEF Decided, Stamped
<1> QED BY <1>1, <1>2, <1>3

(* A worker that does not patch has nothing to decide.                     *)
LEMMA NoPatchDecided ==
    ASSUME NEW w, w.pc # "patch" PROVE Decided(w)
BY DEF Decided

(* What the stage makes of the target found.                               *)
LEMMA ResolvedDecided ==
    ASSUME Inv, worker.pc = "secret" PROVE Decided(Resolved(worker))
<1>1. worker \in WorkerType /\ worker.base \in LiveRunType /\ clock \in Nat
  BY Busy
<1>2. worker.stage = "after" => worker.answer.kind # "none"
  BY Busy DEF WorkerOK, Searching, AnswerOK
<1>3. /\ Decided(Unavailable(worker)) /\ Decided(GiveUp(worker))
      /\ worker.stage = "after" => Decided(Conclude(worker))
  BY <1>1, <1>2, UnavailableDecided, GivesUpDecided, ConcludeDecided
<1>4. /\ [worker EXCEPT !.pc = "running", !.target = worker.found].pc # "patch"
      /\ [worker EXCEPT !.pc = "http"].pc # "patch"
  BY <1>1 DEF WorkerType
<1>5. /\ Decided([worker EXCEPT !.pc = "running", !.target = worker.found])
      /\ Decided([worker EXCEPT !.pc = "http"])
  BY <1>4, NoPatchDecided
<1>6. worker.stage \in {"first", "before", "after"}
  BY <1>1 DEF WorkerType
<1>7. CASE worker.stage = "first"
  BY <1>5, <1>7 DEF Resolved
<1>8. CASE worker.stage # "first" /\ worker.found # worker.target
  <2>1. Resolved(worker) = Unavailable(worker)
    BY <1>6, <1>8 DEF Resolved
  <2> QED BY <1>3, <2>1
<1>9. CASE worker.stage = "before" /\ worker.found = worker.target
  <2>1. Resolved(worker) = IF Expired(worker.base) THEN GiveUp(worker)
                           ELSE [worker EXCEPT !.pc = "http"]
    BY <1>9 DEF Resolved
  <2> QED BY <1>3, <1>5, <2>1
<1>10. CASE worker.stage = "after" /\ worker.found = worker.target
  <2>1. Resolved(worker) = Conclude(worker)
    BY <1>10 DEF Resolved
  <2> QED BY <1>3, <1>10, <2>1
<1> QED BY <1>6, <1>7, <1>8, <1>9, <1>10

(* Beginning a reconcile.                                                  *)
LEMMA BeginDecided ==
    ASSUME NEW r \in RunType, clock \in Nat PROVE Decided(Begin(r))
<1>1. CASE r.uid = 0 \/ IsTerminal(r.status.phase)
  BY <1>1, IdleIs, NoPatchDecided DEF Begin
<1>2. CASE r.uid # 0 /\ ~IsTerminal(r.status.phase)
  <2>1. PICK w : w = [Idle EXCEPT !.base = r]
    OBVIOUS
  <2>2. w \in WorkerType /\ w.base = r /\ r \in LiveRunType
    BY <1>2, <2>1, IdleIs, SomeRun DEF WorkerType
  <2>3. Begin(r) = IF r.limit = BadLimit THEN Misconfigured(w)
                   ELSE IF Expired(r) THEN GiveUp(w) ELSE Search(w, "first")
    BY <1>2, <2>1 DEF Begin
  <2>4. Search(w, "first").pc = "agent"
    BY <2>2 DEF Search, WorkerType
  <2> QED BY <2>2, <2>3, <2>4, GivesUpDecided, NoPatchDecided
<1> QED BY <1>1, <1>2

(* Every step leaves the worker decided.                                   *)
LEMMA DecidedStep ==
    ASSUME Inv, Decided(worker), [Next]_vars PROVE Decided(worker')
<1>0. worker \in WorkerType /\ runCache \in RunType /\ clock \in Nat
  BY BoundsAssumption DEF Inv, TypeOK
<1>1. CASE worker' = worker \/ worker' = Idle
  BY <1>1, IdleIs, NoPatchDecided
<1>2. CASE ReconcileDelivery
  BY <1>0, <1>2, BeginDecided DEF ReconcileDelivery
<1>3. CASE ReadAgent \/ ReadStandingRun \/ ReadPod \/ ReadSecret
  <2> USE DEF Reading, GoOn
  <2>1. worker.pc # "idle"
    BY <1>3 DEF ReadAgent, ReadStandingRun, ReadPod, ReadSecret
  <2>2. worker.base \in LiveRunType
    BY <2>1, Busy
  <2>3. CASE worker' = Misconfigured(worker) \/ worker' = Unavailable(worker)
    BY <1>0, <2>2, <2>3, GivesUpDecided, UnavailableDecided
  <2>4. CASE worker.pc = "secret" /\ worker' = Resolved(worker)
    BY <2>4, ResolvedDecided
  <2>5. CASE \/ worker' = [worker EXCEPT !.pc = "standing", !.found.standing = service.current]
             \/ worker' = [worker EXCEPT !.pc = "pod"]
             \/ worker' = [worker EXCEPT !.pc = "secret",
                                         !.found.ip = service.ip[worker.found.standing]]
    <3>1. worker'.pc # "patch"
      BY <1>0, <2>5 DEF WorkerType
    <3> QED BY <3>1, NoPatchDecided
  <2> QED BY <1>3, <2>3, <2>4, <2>5 DEF ReadAgent, ReadStandingRun, ReadPod, ReadSecret
<1>4. CASE PatchRunning
  <2>1. CASE worker' = Search(Reread(worker, run'), "before")
    <3>1. worker'.pc # "patch"
      BY <1>0, <2>1 DEF Search, WorkerType
    <3> QED BY <3>1, NoPatchDecided
  <2> QED BY <1>1, <1>4, <2>1 DEF PatchRunning, Replied, Retry, GoOn
<1>5. CASE Deliver
  <2>1. \E answer : worker' = [worker EXCEPT !.pc = "latest", !.answer = answer]
    BY <1>5 DEF Deliver, GoOn
  <2>2. worker'.pc # "patch"
    BY <1>0, <2>1 DEF WorkerType
  <2> QED BY <2>2, NoPatchDecided
<1>6. CASE ReadLatest
  <2>1. CASE worker' = Search(Reread(worker, run), "after")
    <3>1. worker'.pc # "patch"
      BY <1>0, <2>1 DEF Search, WorkerType
    <3> QED BY <3>1, NoPatchDecided
  <2> QED BY <1>1, <1>6, <2>1 DEF ReadLatest, Finish, GoOn
<1>7. CASE PatchRunStatus \/ PatchNotFound
  BY <1>1, <1>7 DEF PatchRunStatus, PatchNotFound, Replied, Retry, Finish
<1>8. CASE ~WorkerStep
  BY <1>1, <1>8 DEF Next, vars, StandingStep, DeliverRunEvent, RequeueAfter, ApiCallFails, Crash,
     Retry, Tick, UserCreatesRun, UserDeletesRun, ServiceRecasts, AgentReplaced, ServiceChanges,
     StandingRunStarts, StandingRunEnds, PodChanges, StandingRunDeleted, SecretSpoiled
<1> QED BY <1>2, <1>3, <1>4, <1>5, <1>6, <1>7, <1>8 DEF WorkerStep

(* Every step stamps the end it writes, if any.                            *)
LEMMA StampedStep ==
    ASSUME Inv, FreshInv, LifeInv, [Next]_vars PROVE Stamped(run'.status)
<1>1. CASE PatchRunning
  BY <1>1, RunningPatch DEF Stamped
<1>2. CASE PatchRunStatus
  <2>1. Stamped(worker.next)
    BY <1>2 DEF PatchRunStatus, LifeInv, Decided
  <2> QED BY <1>2, <2>1, OutcomePatch DEF Stamped, IsTerminal, TerminalPhases
<1>3. CASE (\E limit \in Limits : UserCreatesRun(limit)) \/ UserDeletesRun
  <2>1. CASE \E limit \in Limits : UserCreatesRun(limit)
    BY <2>1, EmptyStatusIs DEF UserCreatesRun, SetRun, Stamped
  <2>2. CASE UserDeletesRun
    <3>1. run' = NoRun
      BY <2>2 DEF UserDeletesRun, SetRun
    <3> QED BY <3>1, NoRunType, EmptyStatusIs DEF Stamped
  <2> QED BY <1>3, <2>1, <2>2
<1>4. CASE run' = run
  BY <1>4 DEF LifeInv
<1> QED BY <1>1, <1>2, <1>3, <1>4, OnlyTheseWriteRun

(* With no lag, LifeInv is an invariant too.                               *)
LEMMA LifeInvariance ==
    ASSUME RunLag = 0 PROVE Spec => [](Inv /\ FreshInv /\ LifeInv)
<1>1. Init => LifeInv
  BY IdleIs, NoRunType, EmptyStatusIs DEF Init, LifeInv, Stamped, Decided
<1>2. Inv /\ FreshInv /\ LifeInv /\ [Next]_vars => LifeInv'
  BY StampedStep, DecidedStep DEF LifeInv
<1> QED BY <1>1, <1>2, FreshInvariance, PTL DEF Spec

(* The delivery controller implements the AgentRun lifecycle too: a run    *)
(* ends at most once, is stamped in the same write and is frozen from then *)
(* on, in every incarnation (reconcileDelivery, transitionRun,             *)
(* patchRunStatus).                                                        *)
THEOREM ImplementsLifecycle == ASSUME RunLag = 0 PROVE Spec => FollowsLifecycle
<1> USE DEF Lifecycle!Fresh, Lifecycle!vars
<1>1. Init => Lifecycle!Init
  <2> SUFFICES ASSUME Init PROVE Lifecycle!Init
    OBVIOUS
  <2>1. run.uid = 0 /\ run.status = EmptyStatus
    BY NoRunType DEF Init
  <2> QED BY <2>1, EmptyStatusIs DEF Lifecycle!Init
<1>2. Inv /\ FreshInv /\ LifeInv /\ [Next]_vars => [Lifecycle!Next]_(Lifecycle!vars)
  <2> SUFFICES ASSUME Inv, FreshInv, LifeInv, [Next]_vars, run' # run
               PROVE  Lifecycle!Next \/ UNCHANGED Lifecycle!vars
    OBVIOUS
  <2>1. CASE PatchRunning \/ PatchRunStatus
    <3>1. /\ run.uid # 0 /\ run'.uid = run.uid
          /\ run.status.phase \notin TerminalPhases /\ run.status.completion = NoTime
          /\ run'.status.phase \in TerminalPhases <=> run'.status.completion # NoTime
      <4>1. run \in LiveRunType
        BY <2>1, SomeRun DEF PatchRunning, PatchRunStatus, Inv, TypeOK
      <4>2. ~IsTerminal(run.status.phase) /\ run'.uid = run.uid
        BY <2>1, RunningPatch, OutcomePatch
      <4>3. OpenStatus(run'.status) /\ Stamped(run'.status)
        BY <2>1, StampedStep, RunningPatch, OutcomePatch DEF OpenStatus
      <4> QED BY <4>1, <4>2, <4>3, LiveRun DEF FreshInv, OpenStatus, Stamped, IsTerminal
    <3>2. \/ run'.status.phase \in {"Pending", "Running"} \cup TerminalPhases
          \/ run'.status.phase = "unset" /\ run.status.phase = "unset"
      <4>1. CASE PatchRunning
        BY <4>1, RunningPatch
      <4>2. CASE PatchRunStatus
        <5>1. worker.next.phase # "unset" /\ worker.next \in StatusType
          BY <4>2 DEF PatchRunStatus, LifeInv, Decided, Inv, TypeOK, WorkerType
        <5>2. worker.next.phase \in {"Pending", "Running"} \cup TerminalPhases
          BY <5>1, StatusFields
        <5> QED BY <4>2, <5>2, OutcomePatch
      <4> QED BY <2>1, <4>1, <4>2
    <3>3. CASE run'.status.phase \in {"Pending", "Running"}
      <4>1. run'.status.completion = NoTime
        BY <3>1, <3>3 DEF TerminalPhases
      <4>2. Lifecycle!Progress
        BY <3>1, <3>3, <4>1 DEF Lifecycle!Progress
      <4> QED BY <4>2 DEF Lifecycle!Next
    <3>4. CASE run'.status.phase \in TerminalPhases
      <4>1. Lifecycle!Complete
        BY <3>1, <3>4 DEF Lifecycle!Complete
      <4> QED BY <4>1 DEF Lifecycle!Next
    <3>5. CASE run'.status.phase = "unset" /\ run.status.phase = "unset"
      <4>1. run'.status.completion = NoTime
        BY <3>1, <3>5 DEF TerminalPhases
      <4> QED BY <3>1, <3>5, <4>1
    <3> QED BY <3>2, <3>3, <3>4, <3>5
  <2>2. CASE \E limit \in Limits : UserCreatesRun(limit)
    <3>1. run.uid = 0 /\ run'.uid = lastUid + 1 /\ run'.status = EmptyStatus
      BY <2>2, NoRunType DEF UserCreatesRun, SetRun
    <3>2. lastUid \in Nat
      BY BoundsAssumption DEF Inv, TypeOK
    <3>3. Lifecycle!Create
      BY <3>1, <3>2, EmptyStatusIs DEF Lifecycle!Create
    <3> QED BY <3>3 DEF Lifecycle!Next
  <2>3. CASE UserDeletesRun
    <3>1. run \in LiveRunType /\ run' = NoRun
      BY <2>3, SomeRun DEF UserDeletesRun, SetRun, Inv, TypeOK
    <3>2. run.uid # 0 /\ run'.uid = 0 /\ run'.status = EmptyStatus
      BY <3>1, LiveRun, NoRunType
    <3>3. Lifecycle!Delete
      BY <3>2, EmptyStatusIs DEF Lifecycle!Delete
    <3> QED BY <3>3 DEF Lifecycle!Next
  <2> QED BY <2>1, <2>2, <2>3, OnlyTheseWriteRun
<1> QED BY <1>1, <1>2, LifeInvariance, PTL DEF Spec, FollowsLifecycle, Lifecycle!Spec
=============================================================================
