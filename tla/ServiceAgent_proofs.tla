------------------------ MODULE ServiceAgent_proofs ------------------------
(* Proofs about ServiceAgent, for every backoff, number of suffixes, cache   *)
(* lag, and number of faults and interventions.                              *)
EXTENDS ServiceAgent, WellFoundedInduction, TLAPS

-----------------------------------------------------------------------------
(* The backoff, for every number of restarts.  Induction is by the least     *)
(* counterexample.                                                           *)

(* Every set of naturals has a least element. *)
LEMMA LeastNatural ==
    ASSUME NEW T, T \subseteq Nat, T # {}
    PROVE  \E m \in T : \A n \in T : m <= n
<1>1. IsWellFoundedOn(OpToRel(<, Nat), Nat)
  BY NatLessThanWellFounded
<1>2. PICK m \in T : \A n \in T : ~(<<n, m>> \in OpToRel(<, Nat))
  BY <1>1, WFMin
<1>3. \A n \in T : ~(n < m)
  BY <1>2 DEF OpToRel
<1> QED
  BY <1>3

IsPower(p, n) == p = [i \in 0..n |-> IF i = 0 THEN 1 ELSE 2 * p[i - 1]]

(* The powers of two up to any exponent exist, *)
LEMMA PowerExists ==
    ASSUME NEW n \in Nat
    PROVE  \E p \in [0..n -> Nat] : IsPower(p, n)
<1> DEFINE bad == {k \in Nat : ~\E p \in [0..k -> Nat] : IsPower(p, k)}
<1>1. ASSUME bad # {}
      PROVE  FALSE
  <2>1. PICK m \in bad : \A k \in bad : m <= k
    BY <1>1, LeastNatural
  <2>2. CASE m = 0
    <3> DEFINE q == [i \in 0..m |-> 1]
    <3>1. q \in [0..m -> Nat] /\ IsPower(q, m)
      BY <2>2 DEF IsPower
    <3> QED
      BY <3>1
  <2>3. CASE m # 0
    <3>1. m \in Nat /\ m - 1 \in Nat /\ ~(m <= m - 1)
      BY <2>3
    <3>2. m - 1 \notin bad
      BY <2>1, <3>1
    <3>3. PICK p \in [0..(m - 1) -> Nat] : IsPower(p, m - 1)
      BY <3>1, <3>2
    <3> DEFINE q == [i \in 0..m |-> IF i = m THEN 2 * p[m - 1] ELSE p[i]]
    <3>4. q \in [0..m -> Nat]
      BY <3>1
    <3>5. ASSUME NEW i \in 0..m
          PROVE  q[i] = IF i = 0 THEN 1 ELSE 2 * q[i - 1]
      BY <3>1, <3>3 DEF IsPower
    <3>6. IsPower(q, m)
      BY <3>4, <3>5 DEF IsPower
    <3> QED
      BY <3>4, <3>6
  <2> QED
    BY <2>2, <2>3
<1> QED
  BY <1>1

(* and PowerOfTwo is the last of them. *)
LEMMA PowerIs ==
    ASSUME NEW n \in Nat
    PROVE  \E p \in [0..n -> Nat \ {0}] : IsPower(p, n) /\ PowerOfTwo(n) = p[n]
<1> DEFINE p == CHOOSE p : IsPower(p, n)
<1>1. IsPower(p, n)
  BY PowerExists
<1>2. PowerOfTwo(n) = p[n]
  BY DEF PowerOfTwo, IsPower
<1> HIDE DEF p
<1>3. p = [i \in 0..n |-> p[i]] /\ DOMAIN p = 0..n
  BY <1>1 DEF IsPower
<1> DEFINE bad == {k \in 0..n : p[k] \notin Nat \ {0}}
<1>4. ASSUME bad # {}
      PROVE  FALSE
  <2>0. bad \subseteq Nat
    OBVIOUS
  <2>1. PICK m \in bad : \A k \in bad : m <= k
    BY <1>4, <2>0, LeastNatural
  <2>2. m # 0
    BY <1>1 DEF IsPower
  <2>3. m - 1 \in 0..n /\ ~(m <= m - 1)
    BY <2>2
  <2>4. p[m - 1] \in Nat \ {0}
    BY <2>1, <2>3
  <2>5. p[m] = 2 * p[m - 1]
    BY <1>1, <2>2 DEF IsPower
  <2> QED
    BY <2>4, <2>5
<1>5. p \in [0..n -> Nat \ {0}]
  BY <1>3, <1>4
<1> QED
  BY <1>1, <1>2, <1>5

Step(d) == IF d > MaxSeconds - d THEN MaxSeconds ELSE 2 * d
IsDelay(d, n) == d = [i \in 0..n |-> IF i = 0 THEN InitialSeconds ELSE Step(d[i - 1])]

(* The same for the delays that the loop of BackoffDelay runs through. *)
LEMMA DelayExists ==
    ASSUME NEW n \in Nat
    PROVE  \E d \in [0..n -> Nat] : IsDelay(d, n)
<1> USE BoundsAssumption
<1> DEFINE bad == {k \in Nat : ~\E d \in [0..k -> Nat] : IsDelay(d, k)}
<1>1. ASSUME bad # {}
      PROVE  FALSE
  <2>1. PICK m \in bad : \A k \in bad : m <= k
    BY <1>1, LeastNatural
  <2>2. CASE m = 0
    <3> DEFINE q == [i \in 0..m |-> InitialSeconds]
    <3>1. q \in [0..m -> Nat] /\ IsDelay(q, m)
      BY <2>2 DEF IsDelay
    <3> QED
      BY <3>1
  <2>3. CASE m # 0
    <3>1. m \in Nat /\ m - 1 \in Nat /\ ~(m <= m - 1)
      BY <2>3
    <3>2. m - 1 \notin bad
      BY <2>1, <3>1
    <3>3. PICK d \in [0..(m - 1) -> Nat] : IsDelay(d, m - 1)
      BY <3>1, <3>2
    <3> DEFINE q == [i \in 0..m |-> IF i = m THEN Step(d[m - 1]) ELSE d[i]]
    <3>4. Step(d[m - 1]) \in Nat
      BY <3>1 DEF Step
    <3>5. q \in [0..m -> Nat]
      BY <3>1, <3>4
    <3>6. ASSUME NEW i \in 0..m
          PROVE  q[i] = IF i = 0 THEN InitialSeconds ELSE Step(q[i - 1])
      <4>1. CASE i = m
        BY <3>1, <4>1
      <4>2. CASE i # m
        <5>1. i \in 0..(m - 1) /\ q[i] = d[i] /\ (i # 0 => i - 1 \in 0..(m - 1))
          BY <3>1, <4>2
        <5>2. i # 0 => q[i - 1] = d[i - 1]
          BY <3>1, <5>1
        <5>3. d[i] = IF i = 0 THEN InitialSeconds ELSE Step(d[i - 1])
          BY <3>3, <5>1 DEF IsDelay
        <5> QED
          BY <5>1, <5>2, <5>3
      <4> QED
        BY <4>1, <4>2
    <3>7. IsDelay(q, m)
      BY <3>5, <3>6 DEF IsDelay
    <3> QED
      BY <3>5, <3>7
  <2> QED
    BY <2>2, <2>3
<1> QED
  BY <1>1

(* Doubled is the power of two that the maximum has not cut off. *)
LEMMA DoubledIs ==
    ASSUME NEW n \in Nat, InitialSeconds < MaxSeconds
    PROVE  /\ PowerOfTwo(n) \in Nat
           /\ Doubled(n) = IF InitialSeconds * PowerOfTwo(n) < MaxSeconds
                           THEN InitialSeconds * PowerOfTwo(n) ELSE MaxSeconds
<1> USE BoundsAssumption
<1>1. PICK p \in [0..n -> Nat \ {0}] : IsPower(p, n) /\ PowerOfTwo(n) = p[n]
  BY PowerIs
<1> DEFINE d == CHOOSE d : IsDelay(d, n)
           Capped(x) == IF x < MaxSeconds THEN x ELSE MaxSeconds
<1>2. IsDelay(d, n)
  BY DelayExists
<1>3. Doubled(n) = d[n]
  BY DEF Doubled, IsDelay, Step
<1> HIDE DEF d
<1> DEFINE bad == {k \in 0..n : d[k] # Capped(InitialSeconds * p[k])}
<1>4. ASSUME bad # {}
      PROVE  FALSE
  <2>0. bad \subseteq Nat
    OBVIOUS
  <2>1. PICK m \in bad : \A k \in bad : m <= k
    BY <1>4, <2>0, LeastNatural
  <2>2. CASE m = 0
    <3>1. d[m] = InitialSeconds /\ p[m] = 1
      BY <1>1, <1>2, <2>2 DEF IsDelay, IsPower
    <3> QED
      BY <3>1
  <2>3. CASE m # 0
    <3>1. m - 1 \in 0..n /\ m \in 0..n /\ ~(m <= m - 1)
      BY <2>3
    <3>2. d[m - 1] = Capped(InitialSeconds * p[m - 1])
      BY <2>1, <3>1
    <3>3. d[m] = Step(d[m - 1]) /\ p[m] = 2 * p[m - 1] /\ p[m - 1] \in Nat
      BY <1>1, <1>2, <2>3, <3>1 DEF IsDelay, IsPower
    <3>4. PICK y \in Nat : y = InitialSeconds * p[m - 1]
      BY <3>3
    <3>5. InitialSeconds * p[m] = 2 * y
      BY <3>3, <3>4
    <3>6. d[m] = Capped(2 * y)
      <4>1. d[m - 1] = Capped(y) /\ d[m - 1] \in Nat
        BY <3>2, <3>4
      <4>2. CASE y < MaxSeconds
        BY <3>3, <4>1, <4>2 DEF Step
      <4>3. CASE ~(y < MaxSeconds)
        BY <3>3, <4>1, <4>3 DEF Step
      <4> QED
        BY <4>2, <4>3
    <3> QED
      BY <3>5, <3>6
  <2> QED
    BY <2>2, <2>3
<1>5. d[n] = Capped(InitialSeconds * p[n])
  BY <1>4
<1> QED
  BY <1>1, <1>3, <1>5

(* The loop that stops before it overflows computes the closed form.         *)
THEOREM BackoffIsCapped ==
    \A restarts \in Nat : BackoffDelay(restarts) = CappedPower(restarts) /\ BackoffDelay(restarts) \in Nat
<1> USE BoundsAssumption
<1> SUFFICES ASSUME NEW restarts \in Nat
             PROVE  BackoffDelay(restarts) = CappedPower(restarts) /\ BackoffDelay(restarts) \in Nat
  OBVIOUS
<1>1. PICK n \in Nat : /\ n = IF restarts = 0 THEN 0 ELSE restarts - 1
                       /\ n = IF restarts < 1 THEN 0 ELSE restarts - 1
  OBVIOUS
<1>2. PICK x \in Nat \ {0} : x = PowerOfTwo(n)
  <2>1. PICK p \in [0..n -> Nat \ {0}] : PowerOfTwo(n) = p[n]
    BY PowerIs
  <2>2. p[n] \in Nat \ {0}
    OBVIOUS
  <2> QED
    BY <2>1, <2>2
<1>3. CASE InitialSeconds >= MaxSeconds
  <2>1. InitialSeconds * x >= InitialSeconds
    BY <1>2
  <2>2. CappedPower(restarts) = MaxSeconds
    BY <1>1, <1>2, <1>3, <2>1 DEF CappedPower
  <2> QED
    BY <1>3, <2>2 DEF BackoffDelay
<1>4. CASE InitialSeconds < MaxSeconds
  BY <1>1, <1>2, <1>4, DoubledIs DEF BackoffDelay, CappedPower
<1> QED
  BY <1>3, <1>4

-----------------------------------------------------------------------------
(* The newest run *)

(* A set of suffixes has a largest one. *)
LEMMA LargestIs ==
    ASSUME NEW S, S \subseteq Suffixes
    PROVE  /\ S = {} => Largest(S) = 0
           /\ S # {} => Largest(S) \in S /\ \A u \in S : u <= Largest(S)
<1>1. ASSUME S # {}
      PROVE  \E s \in S : \A u \in S : u <= s
  <2> DEFINE bounds_ == {n \in Nat : \A u \in S : u <= n}
  <2>1. MaxRunSuffix \in bounds_
    BY BoundsAssumption DEF Suffixes
  <2>2. PICK m \in bounds_ : \A n \in bounds_ : m <= n
    BY <2>1, LeastNatural
  <2>3. m \in S
    <3>1. ASSUME m \notin S
          PROVE  FALSE
      <4>1. \A u \in S : u \in Nat /\ u >= 1 /\ u <= m - 1
        BY <2>2, <3>1, BoundsAssumption DEF Suffixes
      <4>2. m - 1 \in Nat
        BY <1>1, <4>1
      <4>3. m - 1 \in bounds_
        BY <4>1, <4>2
      <4> QED
        BY <2>2, <4>2, <4>3
    <3> QED
      BY <3>1
  <2> QED
    BY <2>2, <2>3
<1> QED
  BY <1>1 DEF Largest

(* The newest standing run and the one before it. *)
LEMMA CurrentIs ==
    ASSUME NEW rs \in RunsType
    PROVE  /\ Current(rs) \in 0..MaxRunSuffix /\ Previous(rs) \in 0..MaxRunSuffix
           /\ Current(rs) # 0 => Current(rs) \in Standing(rs) /\ Current(rs) \in Suffixes
           /\ \A s \in Standing(rs) : s <= Current(rs)
<1>1. Standing(rs) \subseteq Suffixes /\ Standing(rs) \ {Current(rs)} \subseteq Suffixes
  BY DEF Standing
<1>2. 0 \in 0..MaxRunSuffix /\ Suffixes \subseteq 0..MaxRunSuffix
  BY BoundsAssumption DEF Suffixes
<1>3. /\ Standing(rs) = {} => Current(rs) = 0
      /\ Standing(rs) # {} => Current(rs) \in Standing(rs) /\ \A u \in Standing(rs) : u <= Current(rs)
  BY <1>1, LargestIs DEF Current
<1>4. Previous(rs) \in {0} \cup Suffixes
  BY <1>1, LargestIs DEF Previous
<1> QED
  BY <1>1, <1>2, <1>3, <1>4

-----------------------------------------------------------------------------
(* Types *)

QueueTyped == (worker' = Idle \/ worker' \in BusyType) /\ dirty' \in BOOLEAN /\ timer' \in {NoTime} \cup Nat
BoundsTyped == faults' \in 0..MaxFaults /\ meddling' \in 0..MaxMeddling

(* The statuses a reconcile reports. *)
LEMMA ObservedType ==
    ASSUME NEW base \in AgentType, NEW seen \in RunsType, NEW reason,
           reason \in {"unset", "MissingGoal", "RunActive", "Recasting"}
    PROVE  ObservedStatus(base, seen, reason) \in StatusType
<1>1. /\ Current(seen) \in {0} \cup Suffixes /\ Previous(seen) \in {0} \cup Suffixes
      /\ (IF Current(seen) > 0 THEN Current(seen) - 1 ELSE 0) \in {0} \cup Suffixes
  BY CurrentIs, BoundsAssumption DEF Suffixes
<1> QED
  BY <1>1 DEF ObservedStatus, StatusType

MayCreate(seen) ==
    Current(seen) # 0 => IsTerminal(seen[Current(seen)]) /\ clock >= RecastAt(seen)

(* What a reconcile sets out to do. *)
LEMMA BeginFacts ==
    ASSUME clock \in 0..MaxTime, NEW base \in AgentType, NEW seen \in RunsType
    PROVE  \E w \in BusyType : /\ w = Begin(base, seen) /\ w.seen = seen
                               /\ w.pc = "create" => MayCreate(seen)
<1> USE BoundsAssumption
<1>1. PICK w : w = [pc |-> "patch", base |-> base, seen |-> seen, next |-> EmptyStatus,
                    requeueAt |-> NoTime]
  OBVIOUS
<1>2. EmptyStatus \in StatusType
  BY DEF EmptyStatus, StatusType
<1>3. w \in BusyType /\ w.seen = seen /\ w.pc = "patch"
  BY <1>1, <1>2 DEF BusyType
<1>4. ASSUME NEW reason \in {"unset", "MissingGoal", "RunActive", "Recasting"}
      PROVE  /\ [w EXCEPT !.next = ObservedStatus(base, seen, reason)] \in BusyType
             /\ [w EXCEPT !.next = ObservedStatus(base, seen, reason)].seen = seen
             /\ [w EXCEPT !.next = ObservedStatus(base, seen, reason)].pc = "patch"
  <2>1. PICK st \in StatusType : st = ObservedStatus(base, seen, reason)
    BY ObservedType
  <2> QED
    BY <1>3, <2>1 DEF BusyType
<1>5. CASE ~base.goal
  BY <1>1, <1>4, <1>5 DEF Begin
<1>6. CASE base.goal /\ RunActive(seen)
  BY <1>1, <1>4, <1>6 DEF Begin
<1>7. CASE base.goal /\ ~RunActive(seen) /\ BacksOff(seen)
  <2>1. base.status.reason \in {"unset", "MissingGoal", "RunActive", "Recasting"}
    BY DEF AgentType, StatusType
  <2>2. PICK v : v = [w EXCEPT !.next = ObservedStatus(base, seen, base.status.reason)]
    OBVIOUS
  <2>3. v \in BusyType /\ v.seen = seen /\ v.pc = "patch"
    BY <1>4, <2>1, <2>2
  <2>4. PICK at \in Nat : at = RecastAt(seen)
    <3>1. Current(seen) \in Suffixes
      BY <1>7, CurrentIs DEF BacksOff
    <3>2. seen[Current(seen)].completion \in Int
      BY <3>1 DEF RunsType, RunType, Times, NoTime
    <3>3. Current(seen) - 1 \in Nat
      BY <3>1 DEF Suffixes
    <3>4. BackoffDelay(Current(seen) - 1) \in Nat
      BY <3>3, BackoffIsCapped
    <3> QED
      BY <1>7, <3>2, <3>4 DEF BacksOff, RecastAt
  <2>5. PICK u : u = [v EXCEPT !.requeueAt = at]
    OBVIOUS
  <2>6. u \in BusyType /\ u.seen = seen /\ u.pc = "patch"
    BY <2>3, <2>5 DEF BusyType
  <2>7. u = Begin(base, seen)
    BY <1>1, <1>7, <2>2, <2>4, <2>5 DEF Begin
  <2> QED
    BY <2>6, <2>7
<1>8. CASE base.goal /\ ~RunActive(seen) /\ ~BacksOff(seen)
  <2>1. PICK u : u = [w EXCEPT !.pc = "create"]
    OBVIOUS
  <2>2. u \in BusyType /\ u.seen = seen /\ u.pc = "create"
    BY <1>3, <2>1 DEF BusyType
  <2>3. u = Begin(base, seen)
    BY <1>1, <1>8, <2>1 DEF Begin
  <2>4. MayCreate(seen)
    <3> SUFFICES ASSUME Current(seen) # 0
                 PROVE  IsTerminal(seen[Current(seen)]) /\ clock >= RecastAt(seen)
      BY DEF MayCreate
    <3>1. Current(seen) \in Standing(seen) /\ Current(seen) \in Suffixes
      BY CurrentIs
    <3>2. IsTerminal(seen[Current(seen)])
      BY <1>8, <3>1 DEF RunActive, Active
    <3>3. RecastAt(seen) \in Int
      <4>1. seen[Current(seen)].completion \in Int
        BY <3>1 DEF RunsType, RunType, Times, NoTime
      <4>2. Current(seen) - 1 \in Nat
        BY <3>1 DEF Suffixes
      <4>3. BackoffDelay(Current(seen) - 1) \in Nat
        BY <4>2, BackoffIsCapped
      <4> QED
        BY <4>1, <4>3 DEF RecastAt
    <3>4. Current(seen) > 0
      BY <3>1 DEF Suffixes
    <3> QED
      BY <1>8, <3>2, <3>3, <3>4 DEF BacksOff
  <2> QED
    BY <2>2, <2>3, <2>4
<1> QED
  BY <1>5, <1>6, <1>7, <1>8

-----------------------------------------------------------------------------
(* The inductive invariant *)

(* What was seen is an earlier state of the runs: nothing is taken back. *)
Older(a, b) ==
    \A s \in Suffixes :
        a[s].kind = "standing" => b[s].kind = "standing" /\ (IsTerminal(a[s]) => b[s] = a[s])

(* The suffixes are used one after the other, each after the one before has  *)
(* ended.                                                                    *)
InTurn(rs) ==
    /\ \A s \in Suffixes : rs[s] = NoRun \/ rs[s].kind = "standing"
    /\ \A s \in Standing(rs) : \A u \in Suffixes : u < s => u \in Standing(rs) /\ IsTerminal(rs[u])

(* Without meddling every view of the runs is of an earlier state of them.   *)
HistoryInv ==
    meddling = 0 =>
        /\ InTurn(runs) /\ Older(runCache, runs)
        /\ \A i \in DOMAIN runEvents : Older(runEvents[i], runs)
        /\ worker # Idle => Older(worker.seen, runs)

(* A run is only created from a view in which the backoff has passed. *)
CreateInv == worker # Idle /\ worker.pc = "create" => MayCreate(worker.seen)

Inv == TypeOK /\ HistoryInv /\ CreateInv

(* The pieces of a reconcile in progress. *)
LEMMA Busy ==
    ASSUME TypeOK, worker # Idle
    PROVE  /\ worker \in BusyType /\ worker.seen \in RunsType /\ worker.base.status \in StatusType
           /\ worker.next \in StatusType /\ worker.requeueAt \in {NoTime} \cup Nat
<1>1. worker \in BusyType
  BY DEF TypeOK
<1> QED
  BY <1>1 DEF BusyType, AgentType

(* One with a program counter of its own is in progress. *)
LEMMA NotIdle == ASSUME worker.pc # "idle" PROVE worker # Idle
BY DEF Idle

(* The ends of a reconcile. *)
LEMMA EndTypes ==
    ASSUME TypeOK
    PROVE  /\ Retry => QueueTyped
           /\ \A at \in {NoTime} \cup Nat : Finish(at) => QueueTyped
           /\ Fault => BoundsTyped
           /\ Meddle => BoundsTyped
           /\ UNCHANGED bounds => BoundsTyped
<1> USE BoundsAssumption
<1>1. Retry => QueueTyped
  BY DEF Retry, QueueTyped, TypeOK
<1>2. ASSUME NEW at \in {NoTime} \cup Nat, Finish(at)
      PROVE  QueueTyped
  <2>1. timer' \in {NoTime} \cup Nat
    BY <1>2 DEF Finish, TypeOK
  <2> QED
    BY <1>2, <2>1 DEF Finish, QueueTyped, TypeOK
<1>3. (Fault => BoundsTyped) /\ (Meddle => BoundsTyped) /\ (UNCHANGED bounds => BoundsTyped)
  BY DEF Fault, Meddle, bounds, BoundsTyped, TypeOK
<1> QED
  BY <1>1, <1>2, <1>3

(* Writes keep the types of what is stored and of what is on its way. *)
LEMMA WriteTypes ==
    ASSUME TypeOK
    PROVE  /\ \A new \in AgentType :
                  SetAgent(new) => agent' \in AgentType /\ agentEvents' \in Seq(AgentType)
           /\ \A s \in Suffixes : \A new \in RunType :
                  SetRun(s, new) => runs' \in RunsType /\ runEvents' \in Seq(RunsType)
<1>1. ASSUME NEW new \in AgentType, SetAgent(new)
      PROVE  agent' \in AgentType /\ agentEvents' \in Seq(AgentType)
  BY <1>1 DEF SetAgent, TypeOK
<1>2. ASSUME NEW s \in Suffixes, NEW new \in RunType, SetRun(s, new)
      PROVE  runs' \in RunsType /\ runEvents' \in Seq(RunsType)
  <2>1. runs' \in RunsType
    BY <1>2 DEF SetRun, TypeOK, RunsType
  <2> QED
    BY <1>2, <2>1 DEF SetRun, TypeOK
<1> QED
  BY <1>1, <1>2

(* Statuses are merged field by field. *)
LEMMA MergePatchType ==
    ASSUME NEW live \in StatusType, NEW base \in StatusType, NEW next \in StatusType
    PROVE  MergePatch(live, base, next) \in StatusType
BY DEF MergePatch, StatusType

(* The constants. *)
LEMMA ConstantTypes ==
    /\ NoRun \in RunType /\ \A kind \in {"standing", "delivered", "stranger"} :
                                /\ NewRun(kind) \in RunType /\ NewRun(kind).kind = kind
                                /\ NewRun(kind).completion = NoTime
    /\ NoRun.kind = "none"
BY DEF NoRun, NewRun, RunType, Times

(* Nothing is taken back through any number of steps. *)
LEMMA OlderTransitive ==
    ASSUME NEW a, NEW b, NEW c, Older(a, b), Older(b, c)
    PROVE  Older(a, c)
BY DEF Older

(* A step that leaves the runs and their cache alone. *)
LEMMA RunsUntouched ==
    ASSUME HistoryInv, UNCHANGED <<runs, runCache, runEvents>>, meddling' = 0 => meddling = 0,
           \/ worker' = worker \/ worker' = Idle
           \/ worker # Idle /\ worker'.seen = worker.seen
           \/ worker'.seen = runCache
    PROVE  HistoryInv'
BY DEF HistoryInv

(* A step that adds to the runs what nobody has seen yet. *)
LEMMA RunsGrow ==
    ASSUME TypeOK, HistoryInv, UNCHANGED <<runCache, meddling>>, runs' \in RunsType,
           runEvents' = Append(runEvents, runs'),
           meddling = 0 => Older(runs, runs') /\ InTurn(runs'),
           \/ worker' = worker \/ worker' = Idle
           \/ worker # Idle /\ worker'.seen = worker.seen
    PROVE  HistoryInv'
<1> SUFFICES ASSUME meddling = 0
             PROVE  /\ InTurn(runs') /\ Older(runCache, runs')
                    /\ \A i \in DOMAIN runEvents' : Older(runEvents'[i], runs')
                    /\ worker' # Idle => Older(worker'.seen, runs')
  BY DEF HistoryInv, InTurn, Older, Standing
<1>1. Older(runs, runs') /\ InTurn(runs') /\ Older(runCache, runs) /\ Older(runs', runs')
  BY DEF HistoryInv, Older
<1>2. Older(runCache, runs')
  BY <1>1, OlderTransitive
<1>3. ASSUME NEW i \in DOMAIN runEvents'
      PROVE  Older(runEvents'[i], runs')
  <2>1. CASE i \in DOMAIN runEvents
    <3>1. runEvents'[i] = runEvents[i] /\ Older(runEvents[i], runs)
      BY <2>1 DEF TypeOK, HistoryInv
    <3> QED
      BY <1>1, <3>1, OlderTransitive
  <2>2. CASE i \notin DOMAIN runEvents
    <3>1. runEvents'[i] = runs'
      BY <2>2 DEF TypeOK
    <3> QED
      BY <1>1, <3>1
  <2> QED
    BY <2>1, <2>2
<1>4. ASSUME worker' # Idle
      PROVE  Older(worker'.seen, runs')
  <2>1. worker # Idle /\ worker'.seen = worker.seen /\ Older(worker.seen, runs)
    BY <1>4 DEF HistoryInv
  <2> QED
    BY <1>1, <2>1, OlderTransitive
<1> QED
  BY <1>1, <1>2, <1>3, <1>4

-----------------------------------------------------------------------------
(* Steps *)

(* A reconcile starts from the caches. *)
LEMMA ReconcileStep ==
    ASSUME Inv, ReconcileService
    PROVE  Inv'
<1>1. /\ worker' = Begin(agentCache, runCache) /\ dirty' = FALSE
      /\ UNCHANGED <<agent, runs, agentCache, agentEvents, runCache, runEvents, timer, clock,
                     faults, meddling>>
  BY DEF ReconcileService, caches, bounds
<1>2. agentCache \in AgentType /\ runCache \in RunsType /\ clock \in 0..MaxTime
  BY DEF Inv, TypeOK
<1>3. PICK w \in BusyType : /\ w = worker' /\ w.seen = runCache
                            /\ w.pc = "create" => MayCreate(runCache)
  BY <1>1, <1>2, BeginFacts
<1>4. TypeOK'
  BY <1>1, <1>3 DEF Inv, TypeOK
<1>5. HistoryInv'
  BY <1>1, <1>3, RunsUntouched DEF Inv
<1>6. CreateInv'
  BY <1>1, <1>3 DEF CreateInv, MayCreate, RecastAt
<1> QED
  BY <1>4, <1>5, <1>6 DEF Inv

(* The name of the next run is free only if the newest run that was seen is  *)
(* the newest there is.                                                      *)
LEMMA NewestSeen ==
    ASSUME Inv, meddling = 0, worker # Idle, worker.pc = "create",
           Current(worker.seen) < MaxRunSuffix, runs[Current(worker.seen) + 1] = NoRun
    PROVE  /\ Current(worker.seen) + 1 \in Suffixes
           /\ \A u \in Standing(runs) : u <= Current(worker.seen)
           /\ \A u \in Suffixes : u <= Current(worker.seen) => u \in Standing(runs) /\ IsTerminal(runs[u])
           /\ Current(worker.seen) # 0 =>
                  runs[Current(worker.seen)] = worker.seen[Current(worker.seen)]
<1> USE BoundsAssumption
<1>1. PICK c \in 0..MaxRunSuffix : c = Current(worker.seen)
  BY Busy, CurrentIs DEF Inv
<1>2. c + 1 \in Suffixes
  BY <1>1 DEF Suffixes
<1>3. InTurn(runs) /\ Older(worker.seen, runs) /\ MayCreate(worker.seen)
  BY DEF Inv, HistoryInv, CreateInv
<1>4. c + 1 \notin Standing(runs)
  BY <1>1, ConstantTypes DEF Standing
<1>5. ASSUME NEW u \in Standing(runs)
      PROVE  u <= c
  <2>1. u \in Suffixes /\ ~(c + 1 < u) /\ u # c + 1
    BY <1>2, <1>3, <1>4 DEF InTurn, Standing
  <2> QED
    BY <2>1 DEF Suffixes
<1>6. ASSUME c # 0
      PROVE  c \in Standing(runs) /\ runs[c] = worker.seen[c] /\ IsTerminal(runs[c])
  <2>1. c \in Standing(worker.seen) /\ c \in Suffixes
    BY <1>1, <1>6, Busy, CurrentIs DEF Inv
  <2>2. IsTerminal(worker.seen[c])
    BY <1>1, <1>3, <1>6 DEF MayCreate
  <2> QED
    BY <1>3, <2>1, <2>2 DEF Older, Standing
<1>7. ASSUME NEW u \in Suffixes, u <= c
      PROVE  u \in Standing(runs) /\ IsTerminal(runs[u])
  <2>1. c # 0 /\ (u = c \/ u < c)
    BY <1>7 DEF Suffixes
  <2> QED
    BY <1>3, <1>6, <2>1 DEF InTurn
<1> QED
  BY <1>1, <1>2, <1>5, <1>6, <1>7

(* Creating it goes on in turn. *)
LEMMA CreateRunStep ==
    ASSUME Inv, CreateRun
    PROVE  Inv'
<1> USE BoundsAssumption
<1>1. /\ worker.pc = "create" /\ worker # Idle /\ TypeOK
      /\ UNCHANGED <<agent, agentCache, agentEvents, runCache, clock>>
  BY NotIdle DEF CreateRun, Inv
<1>2. PICK c \in 0..MaxRunSuffix : c = Current(worker.seen) /\ c < MaxRunSuffix
  BY <1>1, Busy, CurrentIs DEF CreateRun
<1>3. c + 1 \in Suffixes /\ worker \in BusyType
  BY <1>1, <1>2, Busy DEF Suffixes
<1>4. CASE /\ runs[c + 1] # NoRun /\ GoOn([worker EXCEPT !.pc = "verify"])
           /\ UNCHANGED <<runs, runEvents, bounds>>
  <2>1. PICK w : w = [worker EXCEPT !.pc = "verify"]
    OBVIOUS
  <2>2. w \in BusyType /\ w.pc = "verify" /\ w.seen = worker.seen
    BY <1>3, <2>1 DEF BusyType
  <2>3. worker' = w /\ UNCHANGED <<dirty, timer, faults, meddling>>
    BY <1>4, <2>1 DEF GoOn, queue, bounds
  <2>4. TypeOK'
    BY <1>1, <1>4, <2>2, <2>3 DEF TypeOK
  <2>5. HistoryInv'
    BY <1>1, <1>4, <2>2, <2>3, RunsUntouched DEF Inv
  <2> QED
    BY <2>2, <2>3, <2>4, <2>5 DEF Inv, CreateInv
<1>5. CASE runs[c + 1] = NoRun
  <2>1. PICK st : st = [current |-> c + 1, last |-> c, runsCreated |-> c + 1,
                        restarts |-> (c + 1) - 1, reason |-> "Recasting"]
    OBVIOUS
  <2>2. st \in StatusType
    BY <1>2, <1>3, <2>1 DEF StatusType, Suffixes
  <2>3. PICK at \in Nat : at = clock + 2
    BY <1>1 DEF TypeOK
  <2>4. PICK w : w = [worker EXCEPT !.pc = "patch", !.next = st, !.requeueAt = at]
    OBVIOUS
  <2>5. w \in BusyType /\ w.pc = "patch" /\ w.seen = worker.seen
    BY <1>3, <2>2, <2>3, <2>4 DEF BusyType
  <2>6. /\ SetRun(c + 1, NewRun("standing"))
        /\ Replied(GoOn(w))
    BY <1>2, <1>5, <2>1, <2>3, <2>4 DEF CreateRun, Replied, GoOn
  <2>7. (worker' = w \/ worker' = Idle) /\ QueueTyped /\ BoundsTyped /\ meddling' = meddling
    <3>1. CASE GoOn(w) /\ UNCHANGED bounds
      BY <1>1, <2>5, <3>1, EndTypes DEF GoOn, queue, QueueTyped, TypeOK, bounds
    <3>2. CASE Retry /\ Fault
      BY <1>1, <3>2, EndTypes DEF Retry, Fault
    <3> QED
      BY <2>6, <3>1, <3>2 DEF Replied
  <2>8. PICK new \in RunType : /\ new = NewRun("standing") /\ new.kind = "standing"
    BY ConstantTypes
  <2>9. /\ runs' \in RunsType /\ runEvents' \in Seq(RunsType) /\ runs' = [runs EXCEPT ![c + 1] = new]
        /\ runEvents' = Append(runEvents, runs')
    BY <1>1, <1>3, <2>6, <2>8, WriteTypes DEF SetRun
  <2>10. TypeOK'
    BY <1>1, <2>7, <2>9 DEF TypeOK, QueueTyped, BoundsTyped
  <2>11. ASSUME meddling = 0
         PROVE  Older(runs, runs') /\ InTurn(runs')
    <3>1. /\ \A u \in Standing(runs) : u <= c
          /\ \A u \in Suffixes : u <= c => u \in Standing(runs) /\ IsTerminal(runs[u])
      BY <1>1, <1>2, <1>5, <2>11, NewestSeen
    <3>2. /\ runs'[c + 1] = new
          /\ \A u \in Suffixes : u # c + 1 => runs'[u] = runs[u]
      BY <1>1, <1>3, <2>9 DEF TypeOK, RunsType
    <3>3. Older(runs, runs')
      BY <1>5, <3>2, ConstantTypes DEF Older
    <3>4. \A s \in Suffixes : runs'[s] = NoRun \/ runs'[s].kind = "standing"
      BY <2>8, <2>11, <3>2 DEF Inv, HistoryInv, InTurn
    <3>5. ASSUME NEW s \in Standing(runs'), NEW u \in Suffixes, u < s
          PROVE  u \in Standing(runs') /\ IsTerminal(runs'[u])
      <4>1. s \in Suffixes /\ (s = c + 1 \/ s \in Standing(runs))
        BY <3>2 DEF Standing
      <4>2. s <= c + 1 /\ s \in Nat /\ u \in Nat
        BY <3>1, <4>1 DEF Suffixes
      <4>3. u <= c /\ u # c + 1
        BY <3>5, <4>2
      <4> QED
        BY <3>1, <3>2, <4>3 DEF Standing
    <3> QED
      BY <3>3, <3>4, <3>5 DEF InTurn
  <2>12. HistoryInv'
    BY <1>1, <2>5, <2>7, <2>9, <2>11, RunsGrow DEF Inv
  <2>13. CreateInv'
    BY <2>5, <2>7 DEF CreateInv
  <2> QED
    BY <2>10, <2>12, <2>13 DEF Inv
<1> QED
  BY <1>2, <1>4, <1>5 DEF CreateRun

(* The other ends of a reconcile. *)
LEMMA RetryStep ==
    ASSUME Inv, Retry, Fault \/ UNCHANGED bounds, UNCHANGED <<agent, runs, caches, clock>>
    PROVE  Inv'
<1>1. TypeOK /\ QueueTyped /\ BoundsTyped /\ worker' = Idle /\ meddling' = meddling
  BY EndTypes DEF Inv, Retry, Fault, bounds
<1>2. UNCHANGED <<agentCache, agentEvents, runCache, runEvents>>
  BY DEF caches
<1>3. TypeOK'
  BY <1>1, <1>2 DEF TypeOK, QueueTyped, BoundsTyped
<1>4. HistoryInv'
  BY <1>1, <1>2, RunsUntouched DEF Inv
<1> QED
  BY <1>1, <1>3, <1>4 DEF Inv, CreateInv

(* The status patch touches no run. *)
LEMMA SetAgentStatusStep ==
    ASSUME Inv, SetAgentStatus
    PROVE  Inv'
<1>1. /\ worker # Idle /\ TypeOK
      /\ UNCHANGED <<runs, agentCache, runCache, runEvents, clock>>
  BY NotIdle DEF SetAgentStatus, Inv
<1>2. agent \in AgentType /\ agent.status \in StatusType
  BY <1>1 DEF TypeOK, AgentType
<1>3. PICK st \in StatusType : st = MergePatch(agent.status, worker.base.status, worker.next)
  BY <1>1, <1>2, Busy, MergePatchType
<1>4. [agent EXCEPT !.status = st] \in AgentType
  BY <1>2 DEF AgentType
<1>5. agent' \in AgentType /\ agentEvents' \in Seq(AgentType)
  BY <1>1, <1>3, <1>4, WriteTypes DEF SetAgentStatus
<1>6. worker' = Idle /\ QueueTyped /\ BoundsTyped /\ meddling' = meddling
  <2>1. CASE Finish(worker.requeueAt) /\ UNCHANGED bounds
    BY <1>1, <2>1, Busy, EndTypes DEF Finish, bounds
  <2>2. CASE Retry /\ Fault
    BY <1>1, <2>2, EndTypes DEF Retry, Fault
  <2> QED
    BY <2>1, <2>2 DEF SetAgentStatus, Replied
<1>7. TypeOK'
  BY <1>1, <1>5, <1>6 DEF TypeOK, QueueTyped, BoundsTyped
<1>8. HistoryInv'
  BY <1>1, <1>6, RunsUntouched DEF Inv
<1> QED
  BY <1>6, <1>7, <1>8 DEF Inv, CreateInv

(* Events and restarts bring later views; the worker keeps its own. *)
LEMMA QueueStepKeeps ==
    ASSUME Inv, QueueStep
    PROVE  Inv'
<1>1. TypeOK /\ UNCHANGED <<agent, runs, worker, clock, faults, meddling>>
  BY DEF QueueStep, DeliverAgentEvent, DeliverRunEvent, RequeueAfter, caches, bounds, Inv
<1>2. CreateInv'
  BY <1>1 DEF Inv, CreateInv, MayCreate, RecastAt
<1>3. CASE DeliverAgentEvent
  <2>1. TypeOK'
    BY <1>1, <1>3 DEF DeliverAgentEvent, TypeOK
  <2>2. HistoryInv'
    BY <1>1, <1>3, RunsUntouched DEF DeliverAgentEvent, Inv
  <2> QED
    BY <1>2, <2>1, <2>2 DEF Inv
<1>4. CASE DeliverRunEvent
  <2>1. /\ runCache' = runEvents[1] /\ 1 \in DOMAIN runEvents /\ runEvents' \in Seq(RunsType)
        /\ \A i \in DOMAIN runEvents' : i + 1 \in DOMAIN runEvents /\ runEvents'[i] = runEvents[i + 1]
        /\ UNCHANGED <<agentCache, agentEvents, timer>> /\ dirty' \in BOOLEAN
    BY <1>1, <1>4 DEF DeliverRunEvent, TypeOK
  <2>2. TypeOK'
    BY <1>1, <2>1 DEF TypeOK
  <2>3. HistoryInv'
    BY <1>1, <2>1 DEF Inv, HistoryInv
  <2> QED
    BY <1>2, <2>2, <2>3 DEF Inv
<1>5. CASE RequeueAfter
  <2>1. TypeOK'
    BY <1>1, <1>5 DEF RequeueAfter, TypeOK, caches
  <2>2. HistoryInv'
    BY <1>1, <1>5, RunsUntouched DEF RequeueAfter, Inv, caches
  <2> QED
    BY <1>2, <2>1, <2>2 DEF Inv
<1> QED
  BY <1>3, <1>4, <1>5 DEF QueueStep

(* A restarted controller lists everything afresh. *)
LEMMA CrashStep ==
    ASSUME Inv, Crash
    PROVE  Inv'
<1>1. /\ TypeOK /\ BoundsTyped /\ worker' = Idle /\ meddling' = meddling
      /\ runCache' = runs /\ runEvents' = <<>> /\ UNCHANGED <<agent, runs, clock>>
      /\ agentCache' = agent /\ agentEvents' = <<>> /\ dirty' = TRUE /\ timer' = NoTime
  BY EndTypes DEF Inv, Crash, Fault
<1>2. TypeOK'
  BY <1>1 DEF TypeOK, BoundsTyped
<1>3. Older(runs, runs)
  BY DEF Older
<1>4. HistoryInv'
  BY <1>1, <1>3 DEF Inv, HistoryInv
<1> QED
  BY <1>1, <1>2, <1>4 DEF Inv, CreateInv

(* Runs end for good. *)
LEMMA RunStepKeeps ==
    ASSUME Inv, NEW suffix \in Suffixes, RunStep(suffix)
    PROVE  Inv'
<1> USE BoundsAssumption
<1>1. TypeOK /\ runs[suffix] \in RunType /\ clock \in 0..MaxTime
  BY DEF Inv, TypeOK, RunsType
<1>2. PICK new \in RunType :
          /\ RunAction(suffix, new) /\ BoundsTyped
          /\ \/ /\ new = [runs[suffix] EXCEPT !.completion = clock] /\ ~IsTerminal(runs[suffix])
                /\ meddling' = meddling
             \/ meddling' # 0
  <2>1. CASE RunEnds(suffix)
    <3>1. [runs[suffix] EXCEPT !.completion = clock] \in RunType
      BY <1>1 DEF RunType, Times
    <3>2. BoundsTyped /\ meddling' = meddling
      BY <1>1, <2>1, EndTypes DEF RunEnds, bounds
    <3> QED
      BY <2>1, <3>1, <3>2 DEF RunEnds
  <2>2. CASE UserDeletesRun(suffix) \/ UserCreatesRun(suffix)
    <3>1. BoundsTyped /\ meddling' # 0
      BY <1>1, <2>2, EndTypes DEF UserDeletesRun, UserCreatesRun, Meddle, TypeOK
    <3> QED
      BY <2>2, <3>1, ConstantTypes DEF UserDeletesRun, UserCreatesRun
  <2> QED
    BY <2>1, <2>2 DEF RunStep
<1>3. /\ runs' \in RunsType /\ runEvents' \in Seq(RunsType) /\ runs' = [runs EXCEPT ![suffix] = new]
      /\ runEvents' = Append(runEvents, runs')
      /\ UNCHANGED <<agent, agentCache, agentEvents, runCache, worker, dirty, timer, clock>>
  BY <1>1, <1>2, WriteTypes DEF RunAction, SetRun, queue
<1>4. TypeOK'
  BY <1>1, <1>2, <1>3 DEF TypeOK, BoundsTyped
<1>5. CreateInv'
  BY <1>3 DEF Inv, CreateInv, MayCreate, RecastAt
<1>6. CASE meddling' # 0
  BY <1>4, <1>5, <1>6 DEF Inv, HistoryInv
<1>7. CASE /\ new = [runs[suffix] EXCEPT !.completion = clock] /\ ~IsTerminal(runs[suffix])
           /\ meddling' = meddling
  <2>1. /\ runs'[suffix] = new /\ new.kind = runs[suffix].kind /\ IsTerminal(new)
        /\ \A u \in Suffixes : u # suffix => runs'[u] = runs[u]
    BY <1>1, <1>3, <1>7 DEF TypeOK, RunsType, RunType, IsTerminal, NoTime
  <2>2. ASSUME meddling = 0
        PROVE  Older(runs, runs') /\ InTurn(runs')
    <3>1. InTurn(runs)
      BY <2>2 DEF Inv, HistoryInv
    <3>2. Older(runs, runs')
      BY <1>7, <2>1 DEF Older
    <3>3. Standing(runs') = Standing(runs)
      BY <2>1 DEF Standing
    <3>4. runs[suffix].kind = "standing"
      <4>1. runs[suffix].kind \in {"standing", "delivered"}
        BY <1>7, <2>2 DEF RunStep, RunEnds, UserDeletesRun, UserCreatesRun, Meddle, Inv, TypeOK
      <4> QED
        BY <3>1, <4>1, ConstantTypes DEF InTurn
    <3> QED
      BY <2>1, <3>1, <3>2, <3>3, <3>4 DEF InTurn
  <2>3. HistoryInv'
    BY <1>1, <1>3, <1>7, <2>2, RunsGrow DEF Inv
  <2> QED
    BY <1>4, <1>5, <2>3 DEF Inv
<1> QED
  BY <1>2, <1>6, <1>7

(* An edited goal is meddling. *)
LEMMA EditStep ==
    ASSUME Inv, UserEditsGoal
    PROVE  Inv'
<1>1. /\ TypeOK /\ BoundsTyped /\ meddling' # 0
      /\ UNCHANGED <<runs, agentCache, runCache, runEvents, worker, dirty, timer, clock>>
  BY EndTypes, BoundsAssumption DEF Inv, TypeOK, UserEditsGoal, Meddle, queue
<1>2. [agent EXCEPT !.goal = ~@] \in AgentType
  BY <1>1 DEF TypeOK, AgentType
<1>3. agent' \in AgentType /\ agentEvents' \in Seq(AgentType)
  BY <1>1, <1>2, WriteTypes DEF UserEditsGoal
<1>4. TypeOK'
  BY <1>1, <1>3 DEF TypeOK, BoundsTyped
<1> QED
  BY <1>1, <1>4 DEF Inv, HistoryInv, CreateInv, MayCreate, RecastAt

(* What has passed stays past. *)
LEMMA TickStep ==
    ASSUME Inv, Tick
    PROVE  Inv'
<1> USE BoundsAssumption
<1>1. /\ TypeOK /\ clock' = clock + 1 /\ clock' \in 0..MaxTime /\ clock \in 0..MaxTime
      /\ UNCHANGED <<agent, runs, agentCache, agentEvents, runCache, runEvents, worker, dirty,
                     timer, faults, meddling>>
  BY DEF Inv, TypeOK, Tick, caches, queue, bounds
<1>2. TypeOK'
  BY <1>1 DEF TypeOK
<1>3. HistoryInv'
  BY <1>1, RunsUntouched DEF Inv
<1>4. CreateInv'
  <2> SUFFICES ASSUME worker # Idle, worker.pc = "create", Current(worker.seen) # 0
               PROVE  IsTerminal(worker.seen[Current(worker.seen)]) /\ clock' >= RecastAt(worker.seen)
    BY <1>1 DEF CreateInv, MayCreate, RecastAt
  <2>1. IsTerminal(worker.seen[Current(worker.seen)]) /\ clock >= RecastAt(worker.seen)
    BY DEF Inv, CreateInv, MayCreate
  <2>2. RecastAt(worker.seen) \in Int
    <3>1. worker.seen \in RunsType /\ Current(worker.seen) \in Suffixes
      BY <1>1, Busy, CurrentIs
    <3>2. worker.seen[Current(worker.seen)].completion \in Int
      BY <3>1 DEF RunsType, RunType, Times, NoTime
    <3>3. Current(worker.seen) - 1 \in Nat
      BY <3>1 DEF Suffixes
    <3>4. BackoffDelay(Current(worker.seen) - 1) \in Nat
      BY <3>3, BackoffIsCapped
    <3> QED
      BY <3>2, <3>4 DEF RecastAt
  <2> QED
    BY <1>1, <2>1, <2>2
<1> QED
  BY <1>2, <1>3, <1>4 DEF Inv

(* The invariant holds at first, *)
LEMMA InvInit == Init => Inv
<1> SUFFICES ASSUME Init
             PROVE  Inv
  OBVIOUS
<1> USE BoundsAssumption
<1>1. agent \in AgentType
  <2>1. EmptyStatus \in StatusType
    BY DEF EmptyStatus, StatusType
  <2> QED
    BY <2>1 DEF Init, AgentType
<1>2. runs \in RunsType /\ \A s \in Suffixes : runs[s] = NoRun
  BY ConstantTypes DEF Init, RunsType
<1>3. TypeOK
  BY <1>1, <1>2 DEF Init, TypeOK
<1>4. Older(runs, runs) /\ InTurn(runs)
  BY <1>2, ConstantTypes DEF Older, InTurn, Standing
<1> QED
  BY <1>3, <1>4 DEF Init, Inv, HistoryInv, CreateInv

(* every step keeps it, *)
LEMMA InvNext == Inv /\ [Next]_vars => Inv'
<1> SUFFICES ASSUME Inv, [Next]_vars
             PROVE  Inv'
  OBVIOUS
<1>1. CASE WorkerStep
  BY <1>1, ReconcileStep, CreateRunStep, RetryStep, SetAgentStatusStep
     DEF WorkerStep, SuffixExhausted, HandleServiceRunAlreadyExists
<1>2. CASE QueueStep
  BY <1>2, QueueStepKeeps
<1>3. CASE ApiCallFails \/ Crash
  BY <1>3, RetryStep, CrashStep DEF ApiCallFails
<1>4. CASE \E suffix \in Suffixes : RunStep(suffix)
  BY <1>4, RunStepKeeps
<1>5. CASE UserEditsGoal \/ Tick
  BY <1>5, EditStep, TickStep
<1>6. CASE UNCHANGED vars
  <2>1. TypeOK'
    BY <1>6 DEF vars, Inv, TypeOK
  <2>2. HistoryInv'
    BY <1>6, RunsUntouched DEF vars, Inv
  <2> QED
    BY <1>6, <2>1, <2>2 DEF vars, Inv, CreateInv, MayCreate, RecastAt
<1> QED
  BY <1>1, <1>2, <1>3, <1>4, <1>5, <1>6 DEF Next

(* and it holds always. *)
LEMMA Invariance == Spec => []Inv
BY InvInit, InvNext, PTL DEF Spec

-----------------------------------------------------------------------------
(* Agent, runs, caches and reconcile keep their types; no suffix or counter  *)
(* passes the limit.                                                         *)
THEOREM TypeCorrect == Spec => []TypeOK
<1>1. Inv => TypeOK
  BY DEF Inv
<1> QED
  BY Invariance, <1>1, PTL

(* However stale the list a reconcile works from, and whatever call fails or *)
(* reply is lost, two standing runs are never live at once.                  *)
THEOREM OnlyOneStandingRun == Spec => []OneStandingRun
<1>1. Inv => OneStandingRun
  <2> SUFFICES ASSUME Inv, meddling = 0, NEW s \in Active(runs), NEW u \in Active(runs), s # u
               PROVE  FALSE
    BY DEF OneStandingRun
  <2>1. /\ s \in Standing(runs) /\ u \in Standing(runs) /\ InTurn(runs)
        /\ ~IsTerminal(runs[s]) /\ ~IsTerminal(runs[u])
    BY DEF Active, Inv, HistoryInv
  <2>2. s \in Suffixes /\ u \in Suffixes /\ (s < u \/ u < s)
    BY <2>1, BoundsAssumption DEF Standing, Suffixes
  <2> QED
    BY <2>1, <2>2 DEF InTurn
<1> QED
  BY Invariance, <1>1, PTL

(* A run is created only once the one before it has ended and the capped     *)
(* exponential backoff after it has passed, for every initial and maximal    *)
(* delay and every number of restarts.                                       *)
THEOREM RecastsWait == Spec => RecastWaits
<1> DEFINE Waits == \A s \in Standing(runs') \ Standing(runs) :
                       meddling = 0 /\ s > 1 /\ s - 1 \in Standing(runs) =>
                          /\ IsTerminal(runs[s - 1])
                          /\ clock - runs[s - 1].completion >= CappedPower(s - 2)
<1>1. Inv /\ [Next]_vars => [Waits]_runs
  <2> SUFFICES ASSUME Inv, [Next]_vars, NEW s \in Standing(runs') \ Standing(runs),
                      meddling = 0, s > 1, s - 1 \in Standing(runs)
               PROVE  /\ IsTerminal(runs[s - 1])
                      /\ clock - runs[s - 1].completion >= CappedPower(s - 2)
    OBVIOUS
  <2> USE BoundsAssumption
  <2>1. runs' # runs
    OBVIOUS
  <2>2. ASSUME NEW suffix \in Suffixes, RunStep(suffix)
        PROVE  FALSE
    <3>1. PICK new : /\ runs' = [runs EXCEPT ![suffix] = new]
                     /\ new.kind = runs[suffix].kind \/ new.kind # "standing"
      BY <2>2, ConstantTypes DEF RunStep, RunEnds, UserDeletesRun, UserCreatesRun, RunAction, SetRun,
         Inv, TypeOK, RunsType, RunType
    <3>2. Standing(runs') \subseteq Standing(runs)
      BY <3>1 DEF Standing, Inv, TypeOK, RunsType
    <3> QED
      BY <3>2
  <2>3. CreateRun
    BY <2>1, <2>2 DEF Next, vars, WorkerStep, QueueStep, ReconcileService, SuffixExhausted,
       HandleServiceRunAlreadyExists, SetAgentStatus, DeliverAgentEvent, DeliverRunEvent,
       RequeueAfter, ApiCallFails, Crash, UserEditsGoal, Tick
  <2>4. worker # Idle /\ worker.pc = "create" /\ worker.seen \in RunsType
    BY <2>3, NotIdle, Busy DEF CreateRun, Inv
  <2>5. PICK c \in 0..MaxRunSuffix :
            /\ c = Current(worker.seen) /\ c < MaxRunSuffix /\ runs[c + 1] = NoRun
            /\ runs' = [runs EXCEPT ![c + 1] = NewRun("standing")]
    BY <2>1, <2>3, <2>4, CurrentIs DEF CreateRun, SetRun
  <2>6. s = c + 1
    BY <2>5 DEF Standing, Inv, TypeOK, RunsType
  <2>7. c # 0 /\ c \in Suffixes /\ s - 1 = c /\ s - 2 = c - 1 /\ c - 1 \in Nat
    BY <2>5, <2>6 DEF Suffixes
  <2>8. runs[c] = worker.seen[c] /\ IsTerminal(runs[c])
    BY <2>4, <2>5, <2>7, NewestSeen
  <2>9. clock >= RecastAt(worker.seen)
    BY <2>4, <2>5, <2>7 DEF Inv, CreateInv, MayCreate
  <2>10. RecastAt(worker.seen) = runs[c].completion + CappedPower(c - 1) /\ CappedPower(c - 1) \in Nat
    <3>1. RecastAt(worker.seen) = worker.seen[c].completion + BackoffDelay(c - 1)
      BY <2>5 DEF RecastAt
    <3>2. BackoffDelay(c - 1) = CappedPower(c - 1) /\ BackoffDelay(c - 1) \in Nat
      BY <2>7, BackoffIsCapped
    <3> QED
      BY <2>8, <3>1, <3>2
  <2>11. runs[c].completion \in Int /\ clock \in Int
    BY <2>7 DEF Inv, TypeOK, RunsType, RunType, Times, NoTime
  <2> QED
    BY <2>7, <2>8, <2>9, <2>10, <2>11
<1> QED
  BY Invariance, <1>1, PTL DEF Spec, RecastWaits
=============================================================================
