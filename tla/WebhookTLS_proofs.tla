------------------------- MODULE WebhookTLS_proofs -------------------------
(* Proofs about WebhookTLS, for every finite set of replicas and any order   *)
(* of renewals, losses, faults and crashes.                                  *)
EXTENDS WebhookTLS, FiniteSetTheorems, FunctionTheorems, TLAPS

-----------------------------------------------------------------------------
(* The inductive invariant.  A replica is judged by the Secret it has seen   *)
(* and by how far it has come.                                               *)

Good(s) == s.exists /\ s.valid

(* A resource version stands for one content: what a replica has seen is     *)
(* what the Secret still holds if the version is the same.                   *)
SeenOK(s) ==
    /\ s.version <= secret.version
    /\ Good(s) => s.bundle # <<>>
    /\ s.exists /\ secret.exists /\ s.version = secret.version =>
          /\ s.bundle = secret.bundle /\ s.valid = secret.valid
          /\ s.caDue => secret.caDue

Carries == {"preregister", "store", "publish", "promote", "register", "load"}
Knows == {"renew", "publish", "promote", "register", "load"}

(* Only a Secret that is missing or broken is replaced, only one whose CA is *)
(* due gets a successor, and the successor's bundle keeps what was trusted.  *)
PlaceOK(x) ==
    /\ x.pc \in {"trust", "preregister", "store"} => ~Good(x.seen)
    /\ x.pc \in Knows => Good(x.seen)
    /\ x.pc \in Carries => x.bundle # <<>>
    /\ x.pc \in {"publish", "promote"} =>
          x.seen.caDue /\ CAsOf(x.seen.bundle) \subseteq CAsOf(x.bundle)

(* With a single replica and a registration that nobody deletes, what is     *)
(* served stays in every bundle that may yet be registered.                  *)
TrustOK(x, st) ==
    /\ st # NotLoaded =>
          /\ st.bundle[1] \in CAsOf(registration.bundle)
          /\ Good(secret) => st.bundle[1] \in CAsOf(secret.bundle)
          /\ x.pc \in Carries => st.bundle[1] \in CAsOf(x.bundle)
    /\ x.pc \in Knows /\ Good(secret) => secret.bundle = x.seen.bundle
    /\ x.pc = "promote" => CAsOf(x.bundle) \subseteq CAsOf(registration.bundle)
    /\ x.pc = "load" => registration.bundle = x.bundle

Alone == "trust" \notin events /\ \A q, r \in Replicas : q = r

Inv ==
    /\ TypeOK
    /\ Good(secret) => secret.bundle # <<>>
    /\ \A r \in Replicas : SeenOK(replica[r].seen) /\ PlaceOK(replica[r])
    /\ Alone => \A r \in Replicas : TrustOK(replica[r], store[r])

-----------------------------------------------------------------------------
(* Bundles *)

(* The CAs of a bundle are finitely many. *)
LEMMA BundleIsFinite ==
    ASSUME NEW b \in Seq(CAs)
    PROVE  IsFiniteSet(CAsOf(b)) /\ CAsOf(b) \subseteq CAs
<1>1. b \in Surjection(1..Len(b), CAsOf(b))
  BY Fun_IsSurj DEF CAsOf
<1>2. IsFiniteSet(1..Len(b))
  BY FS_Interval
<1>3. IsFiniteSet(CAsOf(b))
  BY <1>1, <1>2, FS_Surjection
<1>4. CAsOf(b) \subseteq CAs
  BY DEF CAsOf
<1> QED
  BY <1>3, <1>4

(* A replica's share of the CAs in use. *)
UsedBy(r) == CAsOf(replica[r].bundle) \cup CAsOf(replica[r].seen.bundle) \cup CAsOf(store[r].bundle)

(* Only finitely many CAs are in use, so there is always a new one. *)
LEMMA InUseIsFinite ==
    ASSUME TypeOK
    PROVE  IsFiniteSet(InUse)
<1>1. IsFiniteSet(Replicas)
  BY BoundsAssumption DEF TypeOK
<1>2. \A r \in Replicas : IsFiniteSet(UsedBy(r))
  <2> SUFFICES ASSUME NEW r \in Replicas
               PROVE  IsFiniteSet(UsedBy(r))
    OBVIOUS
  <2>1. replica[r] \in ReplicaType /\ store[r] \in StoreType
    BY DEF TypeOK
  <2>2. /\ replica[r].bundle \in Seq(CAs) /\ replica[r].seen.bundle \in Seq(CAs)
        /\ store[r].bundle \in Seq(CAs)
    BY <2>1 DEF ReplicaType, StoreType, SecretType
  <2>3. IsFiniteSet(CAsOf(replica[r].bundle) \cup CAsOf(replica[r].seen.bundle))
    BY <2>2, BundleIsFinite, FS_Union
  <2> QED
    BY <2>2, <2>3, BundleIsFinite, FS_Union DEF UsedBy
<1> DEFINE used == [r \in Replicas |-> UsedBy(r)]
           all == {UsedBy(r) : r \in Replicas}
<1>3. used \in Surjection(Replicas, all)
  BY Fun_IsSurj
<1>4. IsFiniteSet(all) /\ \A T \in all : IsFiniteSet(T)
  BY <1>1, <1>2, <1>3, FS_Surjection
<1>5. IsFiniteSet(UNION all)
  BY <1>4, FS_UNION
<1>6. secret.bundle \in Seq(CAs) /\ registration.bundle \in Seq(CAs)
  BY DEF TypeOK, SecretType, RegistrationType
<1>7. IsFiniteSet(CAsOf(secret.bundle) \cup CAsOf(registration.bundle))
  BY <1>6, BundleIsFinite, FS_Union
<1>8. IsFiniteSet((CAsOf(secret.bundle) \cup CAsOf(registration.bundle)) \cup UNION all)
  BY <1>5, <1>7, FS_Union
<1>9. InUse = (CAsOf(secret.bundle) \cup CAsOf(registration.bundle)) \cup UNION all
  BY DEF InUse, UsedBy
<1> QED
  BY <1>8, <1>9

(* It is one that nothing mentions. *)
LEMMA NewCAIsNew ==
    ASSUME TypeOK
    PROVE  NewCA \in CAs /\ NewCA \notin InUse
<1> DEFINE n == Cardinality(InUse)
<1>1. IsFiniteSet(InUse) /\ n \in Nat
  BY InUseIsFinite, FS_CardinalityType
<1>2. Cardinality(1..(n + 1)) = n + 1
  <2>1. n + 1 \in Int /\ 1 \in Int /\ ~(1 > n + 1) /\ (n + 1) - 1 + 1 = n + 1
    BY <1>1
  <2> HIDE DEF n
  <2> QED
    BY <2>1, FS_Interval
<1>3. ~(1..(n + 1) \subseteq InUse)
  <2>1. ASSUME 1..(n + 1) \subseteq InUse
        PROVE  FALSE
    <3>1. Cardinality(1..(n + 1)) <= n
      BY <1>1, <2>1, FS_Subset
    <3> QED
      BY <1>1, <1>2, <3>1
  <2> QED
    BY <2>1
<1>4. \E ca \in 1..(n + 1) : ca \notin InUse
  BY <1>3
<1>5. NewCA \in 1..(n + 1) /\ NewCA \notin InUse
  BY <1>4 DEF NewCA
<1> QED
  BY <1>1, <1>5 DEF CAs

(* A new bundle starts with the new CA and keeps what was trusted. *)
LEMMA GenerateFacts ==
    ASSUME TypeOK, NEW b \in Seq(CAs)
    PROVE  Generate(b) \in Seq(CAs) /\ Generate(b) # <<>> /\ CAsOf(b) \subseteq CAsOf(Generate(b))
<1>1. PICK ca \in CAs : Generate(b) = <<ca>> \o b
  BY NewCAIsNew DEF Generate
<1>2. <<ca>> \o b \in Seq(CAs) /\ Len(<<ca>> \o b) = Len(b) + 1
  BY <1>1
<1>3. \A i \in 1..Len(b) : (<<ca>> \o b)[i + 1] = b[i] /\ i + 1 \in 1..(Len(b) + 1)
  BY <1>1
<1>4. ASSUME NEW c \in CAsOf(b)
      PROVE  c \in CAsOf(<<ca>> \o b)
  <2>1. PICK i \in 1..Len(b) : c = b[i]
    BY <1>4 DEF CAsOf
  <2>2. i + 1 \in DOMAIN (<<ca>> \o b) /\ c = (<<ca>> \o b)[i + 1]
    BY <1>2, <1>3, <2>1
  <2> QED
    BY <2>2 DEF CAsOf
<1> QED
  BY <1>1, <1>2, <1>4

(* What is published for a rotation holds all of the next bundle. *)
LEMMA CombinedFacts ==
    ASSUME NEW b \in Seq(CAs), NEW c \in Seq(CAs)
    PROVE  Combined(b, c) \in Seq(CAs) /\ CAsOf(b) \subseteq CAsOf(Combined(b, c))
<1>1. CASE Combined(b, c) = b
  BY <1>1
<1>2. CASE Combined(b, c) = b \o c
  <2>1. b \o c \in Seq(CAs) /\ \A i \in 1..Len(b) : (b \o c)[i] = b[i] /\ i \in 1..Len(b \o c)
    OBVIOUS
  <2> QED
    BY <1>2, <2>1 DEF CAsOf
<1> QED
  BY <1>1, <1>2 DEF Combined

(* The signing CA is one of the bundle's. *)
LEMMA FirstIsThere ==
    ASSUME NEW b \in Seq(CAs), b # <<>>
    PROVE  b[1] \in CAsOf(b)
BY DEF CAsOf

-----------------------------------------------------------------------------
(* Steps *)

Events == {"ca", "leaf", "secret", "trust", "fault"}

(* A write raises the version; short of that the CA can only fall due. *)
SecretSteps ==
    \/ secret'.version = secret.version + 1
    \/ /\ secret'.version = secret.version /\ secret'.exists = secret.exists
       /\ secret'.valid = secret.valid /\ secret'.bundle = secret.bundle
       /\ secret.caDue => secret'.caDue

(* What a replica saw before a write is told apart from what was written. *)
LEMMA SeenKept ==
    ASSUME secret \in SecretType, secret' \in SecretType, SecretSteps,
           NEW s \in SecretType, SeenOK(s)
    PROVE  SeenOK(s)'
<1>1. secret.version \in Nat /\ secret'.version \in Nat /\ s.version \in Nat
  BY DEF SecretType
<1> QED
  BY <1>1 DEF SeenOK, SecretSteps

(* One replica goes on; the Secret, the registration and its store change    *)
(* perhaps.                                                                  *)
LEMMA MoveStep ==
    ASSUME Inv, NEW r \in Replicas, NEW x \in ReplicaType, Go(r, x),
           secret' \in SecretType, registration' \in RegistrationType,
           store' \in [Replicas -> StoreType], events \subseteq events', events' \subseteq Events,
           SecretSteps, Good(secret') => secret'.bundle # <<>>,
           x.pc \in {"register", "load"} => x.seen.valid /\ x.bundle = x.seen.bundle,
           SeenOK(x.seen)', PlaceOK(x), Alone' => TrustOK(x, store[r])'
    PROVE  Inv'
<1>1. /\ replica' \in [Replicas -> ReplicaType] /\ Replicas' = Replicas
      /\ replica'[r] = x /\ \A q \in Replicas : q # r => replica'[q] = replica[q]
  BY DEF Go, Inv, TypeOK, Replicas
<1>2. TypeOK'
  BY <1>1 DEF Inv, TypeOK, Events
<1>3. ASSUME NEW q \in Replicas
      PROVE  SeenOK(replica[q].seen)' /\ PlaceOK(replica[q])'
  <2>1. CASE q = r
    BY <1>1, <2>1 DEF SeenOK, PlaceOK
  <2>2. CASE q # r
    <3>1. SeenOK(replica[q].seen) /\ PlaceOK(replica[q])
      BY DEF Inv
    <3>2. replica[q] \in ReplicaType /\ secret \in SecretType
      BY DEF Inv, TypeOK
    <3>3. replica[q].seen \in SecretType
      BY <3>2 DEF ReplicaType
    <3>4. PICK s \in SecretType : s = replica[q].seen
      BY <3>3
    <3>5. SeenOK(s)'
      BY <3>1, <3>2, <3>4, SeenKept
    <3> QED
      BY <1>1, <2>2, <3>1, <3>4, <3>5 DEF SeenOK, PlaceOK
  <2> QED
    BY <2>1, <2>2
<1>4. Alone' => \A q \in Replicas : TrustOK(replica[q], store[q])'
  <2> SUFFICES ASSUME Alone', NEW q \in Replicas
               PROVE  TrustOK(replica[q], store[q])'
    OBVIOUS
  <2>1. q = r
    BY <1>1 DEF Alone
  <2> QED
    BY <1>1, <2>1 DEF TrustOK
<1> QED
  BY <1>1, <1>2, <1>3, <1>4 DEF Inv

(* The replicas stay where they are. *)
LEMMA WorldStep ==
    ASSUME Inv, UNCHANGED <<replica, store>>,
           secret' \in SecretType, registration' \in RegistrationType,
           events \subseteq events', events' \subseteq Events,
           SecretSteps, Good(secret') => secret'.bundle # <<>>,
           registration' = registration \/ "trust" \in events',
           Good(secret') => Good(secret) /\ secret'.bundle = secret.bundle
    PROVE  Inv'
<1>1. TypeOK'
  BY DEF Inv, TypeOK, Events, Replicas
<1>2. Replicas' = Replicas
  BY DEF Replicas
<1>3. ASSUME NEW q \in Replicas
      PROVE  SeenOK(replica[q].seen)' /\ PlaceOK(replica[q])'
  <2>1. SeenOK(replica[q].seen) /\ PlaceOK(replica[q])
    BY DEF Inv
  <2>2. replica[q] \in ReplicaType /\ secret \in SecretType
    BY DEF Inv, TypeOK
  <2>3. replica[q].seen \in SecretType
    BY <2>2 DEF ReplicaType
  <2>4. PICK s \in SecretType : s = replica[q].seen
    BY <2>3
  <2>5. SeenOK(s)'
    BY <2>1, <2>2, <2>4, SeenKept
  <2> QED
    BY <2>1, <2>4, <2>5 DEF SeenOK, PlaceOK
<1>4. Alone' => Alone /\ registration' = registration
  BY <1>2 DEF Alone
<1>5. Alone' => \A q \in Replicas : TrustOK(replica[q], store[q])'
  BY <1>4 DEF TrustOK, Inv, Good
<1> QED
  BY <1>1, <1>2, <1>3, <1>5 DEF Inv

(* The types of what a replica works with. *)
LEMMA Pieces ==
    ASSUME Inv, NEW r \in Replicas
    PROVE  /\ replica[r] \in ReplicaType /\ replica[r].seen \in SecretType
           /\ replica[r].bundle \in Seq(CAs) /\ secret \in SecretType
           /\ secret.bundle \in Seq(CAs) /\ secret.version \in Nat
           /\ replica[r].seen.version \in Nat /\ replica[r].seen.bundle \in Seq(CAs)
           /\ registration \in RegistrationType /\ registration.bundle \in Seq(CAs)
           /\ store \in [Replicas -> StoreType] /\ events \subseteq Events
           /\ SeenOK(replica[r].seen) /\ PlaceOK(replica[r])
           /\ Alone => TrustOK(replica[r], store[r])
<1>1. /\ replica[r] \in ReplicaType /\ secret \in SecretType /\ registration \in RegistrationType
      /\ store \in [Replicas -> StoreType] /\ events \subseteq Events
  BY DEF Inv, TypeOK, Events
<1>2. replica[r].seen \in SecretType /\ replica[r].bundle \in Seq(CAs)
  BY <1>1 DEF ReplicaType
<1>3. /\ secret.bundle \in Seq(CAs) /\ secret.version \in Nat /\ registration.bundle \in Seq(CAs)
      /\ replica[r].seen.version \in Nat /\ replica[r].seen.bundle \in Seq(CAs)
  BY <1>1, <1>2 DEF SecretType, RegistrationType
<1>4. SeenOK(replica[r].seen) /\ PlaceOK(replica[r]) /\ (Alone => TrustOK(replica[r], store[r]))
  BY DEF Inv
<1> QED
  BY <1>1, <1>2, <1>3, <1>4

(* A replica that starts over knows and carries nothing. *)
LEMMA IdleFacts ==
    /\ Idle \in ReplicaType /\ Idle.pc = "idle" /\ Idle.seen = NoSecret /\ NoSecret \in SecretType
    /\ PlaceOK(Idle) /\ NotLoaded \in StoreType
    /\ secret \in SecretType => SeenOK(NoSecret)
<1>1. NoSecret \in SecretType /\ NoSecret.version = 0 /\ ~NoSecret.exists
  BY DEF NoSecret, SecretType
<1>2. Idle \in ReplicaType /\ Idle.pc = "idle" /\ Idle.seen = NoSecret
  BY <1>1 DEF Idle, ReplicaType
<1>3. NotLoaded \in StoreType
  BY DEF NotLoaded, StoreType
<1>4. PlaceOK(Idle)
  BY <1>2 DEF PlaceOK, Knows, Carries
<1>5. ASSUME secret \in SecretType
      PROVE  SeenOK(NoSecret)
  <2>1. secret.version \in Nat
    BY <1>5 DEF SecretType
  <2> QED
    BY <1>1, <2>1 DEF SeenOK, Good
<1> QED
  BY <1>1, <1>2, <1>3, <1>4, <1>5

(* Starting over, by a conflict, a failed call or a crash. *)
LEMMA StartOverStep ==
    ASSUME Inv, NEW r \in Replicas, StartOver(r), UNCHANGED <<secret, registration>>,
           store' \in {store, [store EXCEPT ![r] = NotLoaded]},
           events' \in {events, events \cup {"fault"}}
    PROVE  Inv'
<1> DEFINE x == Idle
<1>1. x \in ReplicaType /\ x.pc = "idle" /\ x.seen = NoSecret /\ PlaceOK(x)
  BY IdleFacts
<1>2. store' \in [Replicas -> StoreType] /\ (store'[r] = NotLoaded \/ store'[r] = store[r])
  BY Pieces, IdleFacts
<1>3. SeenOK(x.seen)'
  BY <1>1, Pieces, IdleFacts DEF SeenOK
<1>4. Alone' => Alone
  <2>1. Replicas' = Replicas
    BY DEF StartOver, Go, Replicas, Inv, TypeOK
  <2> QED
    BY <2>1 DEF Alone
<1>5. Alone' => TrustOK(x, store[r])'
  <2> SUFFICES ASSUME Alone'
               PROVE  TrustOK(x, store[r])'
    OBVIOUS
  <2>1. TrustOK(replica[r], store[r])
    BY <1>4, Pieces
  <2> QED
    BY <1>1, <1>2, <2>1 DEF TrustOK, Carries, Knows
<1>6. events \subseteq events' /\ events' \subseteq Events
  BY Pieces DEF Events
<1>7. Go(r, x) /\ SecretSteps
  BY DEF StartOver, SecretSteps
<1>8. Good(secret') => secret'.bundle # <<>>
  BY DEF Inv
<1>9. secret' \in SecretType /\ registration' \in RegistrationType
  BY Pieces
<1> HIDE DEF x
<1> QED
  BY <1>1, <1>2, <1>3, <1>5, <1>6, <1>7, <1>8, <1>9, MoveStep

(* A replica goes on from a good Secret. *)
LEMMA ContinueFacts ==
    ASSUME Inv, NEW s \in SecretType, Good(s), s.bundle # <<>>
    PROVE  \E x \in ReplicaType :
               /\ x = Continue(s) /\ x.seen = s /\ x.pc \in {"publish", "register"} /\ PlaceOK(x)
               /\ x.pc = "register" => x.bundle = s.bundle
               /\ CAsOf(s.bundle) \subseteq CAsOf(x.bundle)
<1>1. s.bundle \in Seq(CAs) /\ s.caDue \in BOOLEAN /\ TypeOK
  BY DEF SecretType, Inv
<1>2. CASE s.caDue
  <2>1. PICK b \in Seq(CAs) : b = Generate(s.bundle) /\ b # <<>> /\ CAsOf(s.bundle) \subseteq CAsOf(b)
    BY <1>1, GenerateFacts
  <2>2. PICK x : x = [pc |-> "publish", seen |-> s, bundle |-> b]
    OBVIOUS
  <2>3. x \in ReplicaType /\ x.pc = "publish" /\ x.seen = s /\ x.bundle = b
    BY <2>2 DEF ReplicaType
  <2>4. PlaceOK(x)
    BY <1>2, <2>1, <2>3 DEF PlaceOK, Knows, Carries
  <2>5. x = Continue(s)
    BY <1>2, <2>1, <2>2 DEF Continue
  <2> QED
    BY <2>1, <2>3, <2>4, <2>5
<1>3. CASE ~s.caDue
  <2>1. PICK x : x = [pc |-> "register", seen |-> s, bundle |-> s.bundle]
    OBVIOUS
  <2>2. x \in ReplicaType /\ x.pc = "register" /\ x.seen = s /\ x.bundle = s.bundle
    BY <1>1, <2>1 DEF ReplicaType
  <2>3. PlaceOK(x)
    BY <2>2 DEF PlaceOK, Knows, Carries
  <2>4. x = Continue(s)
    BY <1>3, <2>1 DEF Continue
  <2> QED
    BY <2>2, <2>3, <2>4
<1> QED
  BY <1>2, <1>3

(* Ensure reads the Secret. *)
LEMMA EnsureSecretStep ==
    ASSUME Inv, NEW r \in Replicas, EnsureSecret(r)
    PROVE  Inv'
<1>1. /\ UNCHANGED <<secret, registration, store, events>> /\ secret \in SecretType
      /\ replica[r].pc = "idle" /\ (Good(secret) => secret.bundle # <<>>)
      /\ Alone => TrustOK(replica[r], store[r])
  BY Pieces DEF EnsureSecret, At, Inv
<1>2. SeenOK(secret)
  BY <1>1 DEF SeenOK, Inv, SecretType
<1>3. \E x \in ReplicaType :
          /\ Go(r, x) /\ x.seen = secret /\ PlaceOK(x)
          /\ x.pc \in {"trust", "renew", "publish", "register"}
          /\ x.pc \in {"publish", "register"} => CAsOf(secret.bundle) \subseteq CAsOf(x.bundle)
          /\ x.pc = "register" => secret.valid /\ x.bundle = secret.bundle
  <2>1. CASE ~Good(secret)
    <3>1. PICK x : x = [pc |-> "trust", seen |-> secret, bundle |-> <<>>]
      OBVIOUS
    <3>2. x \in ReplicaType /\ x.pc = "trust" /\ x.seen = secret
      BY <1>1, <3>1 DEF ReplicaType
    <3>3. PlaceOK(x)
      BY <2>1, <3>2 DEF PlaceOK, Knows, Carries
    <3>4. Go(r, x)
      BY <2>1, <3>1 DEF EnsureSecret, Good
    <3> QED
      BY <3>2, <3>3, <3>4
  <2>2. CASE Good(secret) /\ secret.leafDue
    <3>1. PICK x : x = [pc |-> "renew", seen |-> secret, bundle |-> <<>>]
      OBVIOUS
    <3>2. x \in ReplicaType /\ x.pc = "renew" /\ x.seen = secret
      BY <1>1, <3>1 DEF ReplicaType
    <3>3. PlaceOK(x)
      BY <2>2, <3>2 DEF PlaceOK, Knows, Carries
    <3>4. Go(r, x)
      BY <2>2, <3>1 DEF EnsureSecret, Good
    <3> QED
      BY <3>2, <3>3, <3>4
  <2>3. CASE Good(secret) /\ ~secret.leafDue
    <3>1. Go(r, Continue(secret))
      BY <2>3 DEF EnsureSecret, Good
    <3> QED
      BY <1>1, <2>3, <3>1, ContinueFacts DEF Good
  <2> QED
    BY <2>1, <2>2, <2>3
<1>4. PICK x \in ReplicaType :
          /\ Go(r, x) /\ x.seen = secret /\ PlaceOK(x)
          /\ x.pc \in {"trust", "renew", "publish", "register"}
          /\ x.pc \in {"publish", "register"} => CAsOf(secret.bundle) \subseteq CAsOf(x.bundle)
          /\ x.pc = "register" => secret.valid /\ x.bundle = secret.bundle
  BY <1>3
<1>5. SeenOK(x.seen)'
  BY <1>1, <1>2, <1>4 DEF SeenOK
<1>6. Alone' => Alone
  BY <1>1 DEF Alone, EnsureSecret, Go, Replicas, Inv, TypeOK
<1>7. Alone' => TrustOK(x, store[r])'
  <2> SUFFICES ASSUME Alone
               PROVE  TrustOK(x, store[r])'
    BY <1>6
  <2>1. x.pc \in {"publish", "register"} => Good(secret)
    BY <1>4 DEF PlaceOK, Knows
  <2> QED
    BY <1>1, <1>4, <2>1 DEF TrustOK, Carries, Knows
<1>8. SecretSteps
  BY <1>1 DEF SecretSteps
<1>9. /\ secret' \in SecretType /\ registration' \in RegistrationType
      /\ store' \in [Replicas -> StoreType] /\ events \subseteq events' /\ events' \subseteq Events
      /\ Good(secret') => secret'.bundle # <<>>
  BY <1>1, Pieces
<1>10. x.pc \in {"register", "load"} => x.seen.valid /\ x.bundle = x.seen.bundle
  BY <1>4
<1> QED
  BY <1>4, <1>5, <1>7, <1>8, <1>9, <1>10, MoveStep

(* The registration's bundle is read; a single replica's keeps what it serves. *)
LEMMA RegisteredCABundleStep ==
    ASSUME Inv, NEW r \in Replicas, RegisteredCABundle(r)
    PROVE  Inv'
<1>1. UNCHANGED <<secret, registration, store, events>> /\ replica[r].pc = "trust"
  BY DEF RegisteredCABundle, At
<1>2. PICK b \in Seq(CAs) : /\ b = Generate(registration.bundle) /\ b # <<>>
                            /\ CAsOf(registration.bundle) \subseteq CAsOf(b)
  BY Pieces, GenerateFacts DEF Inv
<1>3. PICK x : x = [replica[r] EXCEPT !.pc = "preregister", !.bundle = b]
  OBVIOUS
<1>4. /\ x \in ReplicaType /\ x.pc = "preregister" /\ x.seen = replica[r].seen
      /\ x.bundle = b
  <2>1. replica[r] \in ReplicaType
    BY Pieces
  <2> QED
    BY <1>3, <2>1 DEF ReplicaType
<1>5. Go(r, x)
  BY <1>2, <1>3 DEF RegisteredCABundle
<1>6. PlaceOK(x)
  <2>1. PlaceOK(replica[r])
    BY Pieces
  <2> QED
    BY <1>1, <1>2, <1>4, <2>1 DEF PlaceOK, Knows
<1>7. SeenOK(x.seen)'
  <2>1. SeenOK(replica[r].seen)
    BY Pieces
  <2> QED
    BY <1>1, <1>4, <2>1 DEF SeenOK
<1>8. Alone' => TrustOK(x, store[r])'
  <2> SUFFICES ASSUME Alone
               PROVE  TrustOK(x, store[r])'
    BY <1>1 DEF Alone, RegisteredCABundle, Go, Replicas, Inv, TypeOK
  <2>1. TrustOK(replica[r], store[r])
    BY Pieces
  <2> QED
    BY <1>1, <1>2, <1>4, <2>1 DEF TrustOK, Knows
<1>9. /\ secret' \in SecretType /\ registration' \in RegistrationType
      /\ store' \in [Replicas -> StoreType] /\ events \subseteq events' /\ events' \subseteq Events
      /\ (Good(secret') => secret'.bundle # <<>>) /\ SecretSteps
  BY <1>1, Pieces DEF SecretSteps, Inv
<1>10. x.pc \notin {"register", "load"}
  BY <1>4
<1> QED
  BY <1>4, <1>5, <1>6, <1>7, <1>8, <1>9, <1>10, MoveStep

(* Overwriting the registration: with the new bundle before the Secret is    *)
(* written, with the Secret's afterwards.                                    *)
LEMMA ReconcileRegistrationStep ==
    ASSUME Inv, NEW r \in Replicas, ReconcileRegistration(r)
    PROVE  Inv'
<1>1. /\ UNCHANGED <<secret, store, events>> /\ replica[r].pc \in {"preregister", "register"}
      /\ registration' = [exists |-> TRUE, bundle |-> replica[r].bundle]
  BY DEF ReconcileRegistration, At
<1>2. PICK x : x = [replica[r] EXCEPT !.pc = IF @ = "preregister" THEN "store" ELSE "load"]
  OBVIOUS
<1>3. /\ x \in ReplicaType /\ x.seen = replica[r].seen /\ x.bundle = replica[r].bundle
      /\ x.pc = IF replica[r].pc = "preregister" THEN "store" ELSE "load"
  <2>1. replica[r] \in ReplicaType
    BY Pieces
  <2> QED
    BY <1>2, <2>1 DEF ReplicaType
<1>4. Go(r, x)
  BY <1>2 DEF ReconcileRegistration
<1>5. PlaceOK(x)
  <2>1. PlaceOK(replica[r])
    BY Pieces
  <2> QED
    BY <1>1, <1>3, <2>1 DEF PlaceOK, Knows, Carries
<1>6. SeenOK(x.seen)'
  <2>1. SeenOK(replica[r].seen)
    BY Pieces
  <2> QED
    BY <1>1, <1>3, <2>1 DEF SeenOK
<1>7. registration' \in RegistrationType /\ registration'.bundle = replica[r].bundle
  BY <1>1, Pieces DEF RegistrationType
<1>8. Alone' => TrustOK(x, store[r])'
  <2> SUFFICES ASSUME Alone
               PROVE  TrustOK(x, store[r])'
    BY <1>1 DEF Alone, ReconcileRegistration, Go, Replicas, Inv, TypeOK
  <2>1. TrustOK(replica[r], store[r])
    BY Pieces
  <2> QED
    BY <1>1, <1>3, <1>7, <2>1 DEF TrustOK, Knows, Carries
<1>9. /\ secret' \in SecretType
      /\ store' \in [Replicas -> StoreType] /\ events \subseteq events' /\ events' \subseteq Events
      /\ (Good(secret') => secret'.bundle # <<>>) /\ SecretSteps
  BY <1>1, Pieces DEF SecretSteps, Inv
<1>10. x.pc \in {"register", "load"} => x.seen.valid /\ x.bundle = x.seen.bundle
  BY <1>1, <1>3 DEF Inv, TypeOK
<1> QED
  BY <1>3, <1>4, <1>5, <1>6, <1>7, <1>8, <1>9, <1>10, MoveStep

(* What is written is good. *)
LEMMA WrittenFacts ==
    ASSUME secret \in SecretType, NEW b \in Seq(CAs), b # <<>>
    PROVE  /\ Written(b) \in SecretType /\ Good(Written(b)) /\ Written(b).bundle = b
           /\ Written(b).version = secret.version + 1 /\ ~Written(b).caDue
<1>1. secret.version \in Nat
  BY DEF SecretType
<1> QED
  BY <1>1 DEF Written, SecretType, Good

(* A missing or broken Secret is written anew, *)
LEMMA StoreSecretStep ==
    ASSUME Inv, NEW r \in Replicas, StoreSecret(r)
    PROVE  Inv'
<1>1. UNCHANGED <<registration, store, events>> /\ replica[r].pc = "store"
  BY DEF StoreSecret, At
<1>2. CASE UNCHANGED secret /\ StartOver(r)
  BY <1>1, <1>2, StartOverStep
<1>3. CASE secret' = Written(replica[r].bundle) /\ Go(r, Continue(secret'))
  <2>1. replica[r].bundle # <<>> /\ replica[r].bundle \in Seq(CAs) /\ secret \in SecretType
    BY <1>1, Pieces DEF PlaceOK, Carries
  <2>2. /\ secret' \in SecretType /\ Good(secret') /\ secret'.bundle = replica[r].bundle
        /\ secret'.version = secret.version + 1 /\ ~secret'.caDue
    BY <1>3, <2>1, WrittenFacts
  <2>3. PICK x \in ReplicaType :
            /\ x = Continue(secret') /\ x.seen = secret' /\ PlaceOK(x)
            /\ x.pc \in {"publish", "register"} /\ (x.pc = "register" => x.bundle = secret'.bundle)
            /\ CAsOf(secret'.bundle) \subseteq CAsOf(x.bundle)
    BY <2>1, <2>2, ContinueFacts
  <2>4. x.pc = "register" /\ x.bundle = replica[r].bundle
    BY <2>2, <2>3 DEF PlaceOK
  <2>5. SeenOK(x.seen)'
    BY <2>1, <2>2, <2>3 DEF SeenOK, SecretType
  <2>6. Alone' => TrustOK(x, store[r])'
    <3> SUFFICES ASSUME Alone
                 PROVE  TrustOK(x, store[r])'
      BY <1>1 DEF Alone, StoreSecret, Go, StartOver, Replicas, Inv, TypeOK
    <3>1. TrustOK(replica[r], store[r])
      BY Pieces
    <3> QED
      BY <1>1, <2>2, <2>3, <2>4, <3>1 DEF TrustOK, Knows, Carries
  <2>7. SecretSteps /\ (Good(secret') => secret'.bundle # <<>>)
    BY <2>1, <2>2 DEF SecretSteps
  <2>8. /\ registration' \in RegistrationType /\ store' \in [Replicas -> StoreType]
        /\ events \subseteq events' /\ events' \subseteq Events
    BY <1>1, Pieces
  <2>9. Go(r, x) /\ x.seen.valid
    BY <1>3, <2>2, <2>3 DEF Good
  <2> QED
    BY <2>2, <2>3, <2>4, <2>5, <2>6, <2>7, <2>8, <2>9, MoveStep
<1> QED
  BY <1>2, <1>3 DEF StoreSecret

(* a serving certificate is renewed under the same CA, *)
LEMMA RenewServingStep ==
    ASSUME Inv, NEW r \in Replicas, RenewServing(r)
    PROVE  Inv'
<1>1. UNCHANGED <<registration, store, events>> /\ replica[r].pc = "renew"
  BY DEF RenewServing, At
<1>2. CASE UNCHANGED secret /\ StartOver(r)
  BY <1>1, <1>2, StartOverStep
<1>3. CASE /\ Unchanged(replica[r].seen) /\ Go(r, Continue(secret'))
           /\ secret' = [Written(secret.bundle) EXCEPT !.caDue = secret.caDue]
  <2>1. Good(replica[r].seen) /\ SeenOK(replica[r].seen)
    BY <1>1, Pieces DEF PlaceOK, Knows
  <2>2. Good(secret) /\ secret.bundle # <<>>
    BY <1>3, <2>1 DEF Unchanged, SeenOK, Good, Inv
  <2>3. secret \in SecretType /\ secret.bundle \in Seq(CAs) /\ secret.caDue \in BOOLEAN
    BY Pieces DEF SecretType
  <2>4. /\ Written(secret.bundle) \in SecretType /\ Good(Written(secret.bundle))
        /\ Written(secret.bundle).bundle = secret.bundle
        /\ Written(secret.bundle).version = secret.version + 1
    BY <2>2, <2>3, WrittenFacts
  <2>5. /\ secret' \in SecretType /\ Good(secret') /\ secret'.bundle = secret.bundle
        /\ secret'.version = secret.version + 1
    BY <1>3, <2>3, <2>4 DEF SecretType, Good
  <2>6. PICK x \in ReplicaType :
            /\ x = Continue(secret') /\ x.seen = secret' /\ PlaceOK(x)
            /\ x.pc \in {"publish", "register"} /\ (x.pc = "register" => x.bundle = secret'.bundle)
            /\ CAsOf(secret'.bundle) \subseteq CAsOf(x.bundle)
    BY <2>2, <2>5, ContinueFacts
  <2>7. SeenOK(x.seen)'
    BY <2>2, <2>5, <2>6 DEF SeenOK, SecretType
  <2>8. Alone' => TrustOK(x, store[r])'
    <3> SUFFICES ASSUME Alone
                 PROVE  TrustOK(x, store[r])'
      BY <1>1 DEF Alone, RenewServing, Go, StartOver, Replicas, Inv, TypeOK
    <3>1. TrustOK(replica[r], store[r])
      BY Pieces
    <3> QED
      BY <1>1, <2>2, <2>5, <2>6, <3>1 DEF TrustOK
  <2>9. SecretSteps /\ (Good(secret') => secret'.bundle # <<>>)
    BY <2>2, <2>5 DEF SecretSteps
  <2>10. /\ registration' \in RegistrationType /\ store' \in [Replicas -> StoreType]
         /\ events \subseteq events' /\ events' \subseteq Events
    BY <1>1, Pieces
  <2>11. Go(r, x) /\ x.seen.valid /\ x.pc # "load"
    BY <1>3, <2>5, <2>6 DEF Good
  <2> QED
    BY <2>5, <2>6, <2>7, <2>8, <2>9, <2>10, <2>11, MoveStep
<1> QED
  BY <1>2, <1>3 DEF RenewServing

(* the successor of a CA that is due is published, *)
LEMMA PublishRotationTrustStep ==
    ASSUME Inv, NEW r \in Replicas, PublishRotationTrust(r)
    PROVE  Inv'
<1>1. UNCHANGED <<secret, store, events>> /\ replica[r].pc = "publish"
  BY DEF PublishRotationTrust, At
<1>2. CASE UNCHANGED registration /\ StartOver(r)
  BY <1>1, <1>2, StartOverStep
<1>3. CASE /\ registration' =
                 [registration EXCEPT !.bundle = Combined(replica[r].bundle, registration.bundle)]
           /\ Go(r, [replica[r] EXCEPT !.pc = "promote"])
  <2>1. PICK x : x = [replica[r] EXCEPT !.pc = "promote"]
    OBVIOUS
  <2>2. /\ x \in ReplicaType /\ x.seen = replica[r].seen /\ x.bundle = replica[r].bundle
        /\ x.pc = "promote"
    <3>1. replica[r] \in ReplicaType
      BY Pieces
    <3> QED
      BY <2>1, <3>1 DEF ReplicaType
  <2>3. PICK b \in Seq(CAs) : /\ b = Combined(replica[r].bundle, registration.bundle)
                              /\ CAsOf(replica[r].bundle) \subseteq CAsOf(b)
    BY Pieces, CombinedFacts
  <2>4. registration' \in RegistrationType /\ registration'.bundle = b
    <3>1. registration \in RegistrationType
      BY Pieces
    <3> QED
      BY <1>3, <2>3, <3>1 DEF RegistrationType
  <2>5. PlaceOK(x)
    <3>1. PlaceOK(replica[r])
      BY Pieces
    <3> QED
      BY <1>1, <2>2, <3>1 DEF PlaceOK, Knows, Carries
  <2>6. SeenOK(x.seen)'
    <3>1. SeenOK(replica[r].seen)
      BY Pieces
    <3> QED
      BY <1>1, <2>2, <3>1 DEF SeenOK
  <2>7. Alone' => TrustOK(x, store[r])'
    <3> SUFFICES ASSUME Alone
                 PROVE  TrustOK(x, store[r])'
      BY <1>1 DEF Alone, PublishRotationTrust, Go, StartOver, Replicas, Inv, TypeOK
    <3>1. TrustOK(replica[r], store[r])
      BY Pieces
    <3> QED
      BY <1>1, <2>2, <2>3, <2>4, <3>1 DEF TrustOK, Knows, Carries
  <2>8. /\ secret' \in SecretType /\ store' \in [Replicas -> StoreType]
        /\ events \subseteq events' /\ events' \subseteq Events
        /\ (Good(secret') => secret'.bundle # <<>>) /\ SecretSteps
    BY <1>1, Pieces DEF SecretSteps, Inv
  <2>9. Go(r, x) /\ x.pc \notin {"register", "load"}
    BY <1>3, <2>1, <2>2
  <2> QED
    BY <2>2, <2>4, <2>5, <2>6, <2>7, <2>8, <2>9, MoveStep
<1> QED
  BY <1>2, <1>3 DEF PublishRotationTrust

(* and takes over. *)
LEMMA PromoteCAStep ==
    ASSUME Inv, NEW r \in Replicas, PromoteCA(r)
    PROVE  Inv'
<1>1. UNCHANGED <<registration, store, events>> /\ replica[r].pc = "promote"
  BY DEF PromoteCA, At
<1>2. CASE UNCHANGED secret /\ StartOver(r)
  BY <1>1, <1>2, StartOverStep
<1>3. CASE /\ secret' = Written(replica[r].bundle)
           /\ Go(r, [replica[r] EXCEPT !.pc = "register", !.seen = secret'])
  <2>1. replica[r].bundle # <<>> /\ replica[r].bundle \in Seq(CAs) /\ secret \in SecretType
    BY <1>1, Pieces DEF PlaceOK, Carries
  <2>2. /\ secret' \in SecretType /\ Good(secret') /\ secret'.bundle = replica[r].bundle
        /\ secret'.version = secret.version + 1
    BY <1>3, <2>1, WrittenFacts
  <2>3. PICK x : x = [replica[r] EXCEPT !.pc = "register", !.seen = secret']
    OBVIOUS
  <2>4. /\ x \in ReplicaType /\ x.seen = secret' /\ x.bundle = replica[r].bundle
        /\ x.pc = "register"
    <3>1. replica[r] \in ReplicaType
      BY Pieces
    <3> QED
      BY <2>2, <2>3, <3>1 DEF ReplicaType
  <2>5. PlaceOK(x)
    BY <2>1, <2>2, <2>4 DEF PlaceOK, Knows, Carries
  <2>6. SeenOK(x.seen)'
    BY <2>1, <2>2, <2>4 DEF SeenOK, SecretType
  <2>7. Alone' => TrustOK(x, store[r])'
    <3> SUFFICES ASSUME Alone
                 PROVE  TrustOK(x, store[r])'
      BY <1>1 DEF Alone, PromoteCA, Go, StartOver, Replicas, Inv, TypeOK
    <3>1. TrustOK(replica[r], store[r])
      BY Pieces
    <3> QED
      BY <1>1, <2>2, <2>4, <3>1 DEF TrustOK, Knows, Carries
  <2>8. SecretSteps /\ (Good(secret') => secret'.bundle # <<>>)
    BY <2>1, <2>2 DEF SecretSteps
  <2>9. /\ registration' \in RegistrationType /\ store' \in [Replicas -> StoreType]
        /\ events \subseteq events' /\ events' \subseteq Events
    BY <1>1, Pieces
  <2>10. Go(r, x) /\ x.seen.valid /\ x.bundle = x.seen.bundle
    BY <1>3, <2>2, <2>3, <2>4 DEF Good
  <2> QED
    BY <2>2, <2>4, <2>5, <2>6, <2>7, <2>8, <2>9, <2>10, MoveStep
<1> QED
  BY <1>2, <1>3 DEF PromoteCA

(* The certificate that is loaded was registered before. *)
LEMMA LoadStep ==
    ASSUME Inv, NEW r \in Replicas, Load(r)
    PROVE  Inv'
<1>1. UNCHANGED <<secret, registration, events>> /\ replica[r].pc = "load" /\ Go(r, Idle)
  BY DEF Load, At
<1>2. PICK x : x = Idle
  OBVIOUS
<1>3. x \in ReplicaType /\ x.pc = "idle" /\ x.seen = NoSecret /\ PlaceOK(x)
  BY <1>2, IdleFacts
<1>4. PICK st : st = [bundle |-> replica[r].bundle, version |-> replica[r].seen.version]
  OBVIOUS
<1>5. st \in StoreType /\ st.bundle = replica[r].bundle
  BY <1>4, Pieces DEF StoreType
<1>6. store' = [store EXCEPT ![r] = st]
  BY <1>4 DEF Load
<1>7. store' \in [Replicas -> StoreType] /\ store'[r] = st
  BY <1>5, <1>6, Pieces
<1>8. SeenOK(x.seen)'
  BY <1>1, <1>3, Pieces, IdleFacts DEF SeenOK
<1>9. Alone' => TrustOK(x, store[r])'
  <2> SUFFICES ASSUME Alone
               PROVE  TrustOK(x, store[r])'
    BY <1>1 DEF Alone, Go, Replicas, Inv, TypeOK
  <2>1. TrustOK(replica[r], store[r]) /\ PlaceOK(replica[r]) /\ replica[r].bundle \in Seq(CAs)
    BY Pieces
  <2>2. replica[r].bundle[1] \in CAsOf(replica[r].bundle)
    BY <1>1, <2>1, FirstIsThere DEF PlaceOK, Carries
  <2>3. registration.bundle = replica[r].bundle
    BY <1>1, <2>1 DEF TrustOK
  <2>4. Good(secret) => secret.bundle = replica[r].bundle
    BY <1>1, <2>1 DEF TrustOK, Knows, Inv, TypeOK
  <2> QED
    BY <1>1, <1>3, <1>5, <1>7, <2>2, <2>3, <2>4 DEF TrustOK, Carries, Knows
<1>10. /\ secret' \in SecretType /\ registration' \in RegistrationType
       /\ events \subseteq events' /\ events' \subseteq Events
       /\ (Good(secret') => secret'.bundle # <<>>) /\ SecretSteps
  BY <1>1, Pieces DEF SecretSteps, Inv
<1> QED
  BY <1>1, <1>2, <1>3, <1>7, <1>8, <1>9, <1>10, MoveStep

(* What happens from outside. *)
LEMMA OutsideStep ==
    ASSUME Inv, CaFallsDue \/ LeafFallsDue \/ SecretLost \/ RegistrationLost
    PROVE  Inv'
<1>1. /\ UNCHANGED <<replica, store>> /\ events \subseteq events' /\ events' \subseteq Events
  BY DEF CaFallsDue, LeafFallsDue, SecretLost, RegistrationLost, Happens, Inv, TypeOK, Events
<1>2. secret \in SecretType /\ registration \in RegistrationType /\ secret.version \in Nat
  BY DEF Inv, TypeOK, SecretType
<1>3. Good(secret) => secret.bundle # <<>>
  BY DEF Inv
<1>4. CASE CaFallsDue \/ LeafFallsDue
  <2>1. UNCHANGED registration
    BY <1>4 DEF CaFallsDue, LeafFallsDue
  <2>2. /\ secret' \in SecretType /\ secret'.version = secret.version
        /\ secret'.exists = secret.exists /\ secret'.valid = secret.valid
        /\ secret'.bundle = secret.bundle /\ (secret.caDue => secret'.caDue)
    BY <1>2, <1>4 DEF CaFallsDue, LeafFallsDue, SecretType
  <2>3. SecretSteps
    BY <2>2 DEF SecretSteps
  <2> QED
    BY <1>1, <1>2, <1>3, <2>1, <2>2, <2>3, WorldStep DEF Good
<1>5. CASE SecretLost
  <2>1. UNCHANGED registration
    BY <1>5 DEF SecretLost
  <2>2. secret' \in SecretType /\ secret'.version = secret.version + 1 /\ ~Good(secret')
    <3>1. NoSecret \in SecretType /\ ~NoSecret.exists
      BY DEF NoSecret, SecretType
    <3>2. CASE secret' = [NoSecret EXCEPT !.version = secret.version + 1]
      <4>1. PICK n \in Nat : n = secret.version + 1
        BY <1>2
      <4>2. secret' = [NoSecret EXCEPT !.version = n]
        BY <3>2, <4>1
      <4>3. secret' \in SecretType /\ secret'.version = n /\ ~secret'.exists
        BY <3>1, <4>2 DEF SecretType
      <4> QED
        BY <4>1, <4>3 DEF Good
    <3>3. CASE secret' = [secret EXCEPT !.valid = FALSE, !.version = secret.version + 1]
      <4>1. PICK n \in Nat : n = secret.version + 1
        BY <1>2
      <4>2. secret' = [secret EXCEPT !.valid = FALSE, !.version = n]
        BY <3>3, <4>1
      <4>3. secret' \in SecretType /\ secret'.version = n /\ ~secret'.valid
        BY <1>2, <4>2 DEF SecretType
      <4> QED
        BY <4>1, <4>3 DEF Good
    <3> QED
      BY <1>5, <3>2, <3>3 DEF SecretLost
  <2>3. SecretSteps
    BY <2>2 DEF SecretSteps
  <2> QED
    BY <1>1, <1>2, <1>3, <2>1, <2>2, <2>3, WorldStep
<1>6. CASE RegistrationLost
  <2>1. UNCHANGED secret /\ "trust" \in events' /\ registration' \in RegistrationType
    BY <1>6 DEF RegistrationLost, Happens, RegistrationType
  <2>2. SecretSteps
    BY <2>1 DEF SecretSteps
  <2> QED
    BY <1>1, <1>2, <1>3, <2>1, <2>2, WorldStep
<1> QED
  BY <1>4, <1>5, <1>6

(* The release starts so, *)
LEMMA InvInit == Init => Inv
<1> SUFFICES ASSUME Init
             PROVE  Inv
  OBVIOUS
<1>1. PICK deployed \in Deployments : replica = [r \in deployed |-> Idle]
  BY DEF Init
<1>2. Replicas = deployed /\ \A r \in Replicas : replica[r] = Idle /\ store[r] = NotLoaded
  BY <1>1 DEF Init, Replicas
<1>3. /\ secret \in SecretType /\ registration \in RegistrationType /\ ~Good(secret)
      /\ secret = NoSecret
  <2>1. NoSecret \in SecretType /\ ~Good(NoSecret)
    BY DEF NoSecret, SecretType, Good
  <2> QED
    BY <2>1 DEF Init, RegistrationType
<1>4. replica \in [Replicas -> ReplicaType] /\ store \in [Replicas -> StoreType]
  BY <1>1, <1>2, IdleFacts DEF Init
<1>5. Idle.pc = "idle" /\ Idle.seen = NoSecret /\ PlaceOK(Idle) /\ SeenOK(NoSecret)
  BY <1>3, IdleFacts
<1>6. TypeOK
  BY <1>1, <1>2, <1>3, <1>4, <1>5 DEF TypeOK, Init
<1>7. \A r \in Replicas : TrustOK(replica[r], store[r])
  BY <1>2, <1>5 DEF TrustOK, Knows, Carries
<1> QED
  BY <1>2, <1>3, <1>5, <1>6, <1>7 DEF Inv

(* every step keeps it so, *)
LEMMA InvNext == Inv /\ [Next]_vars => Inv'
<1> SUFFICES ASSUME Inv, [Next]_vars
             PROVE  Inv'
  OBVIOUS
<1>1. ASSUME NEW r \in Replicas, Ensure(r)
      PROVE  Inv'
  BY <1>1, EnsureSecretStep, RegisteredCABundleStep, ReconcileRegistrationStep, StoreSecretStep,
     RenewServingStep, PublishRotationTrustStep, PromoteCAStep, LoadStep DEF Ensure
<1>2. ASSUME NEW r \in Replicas, ApiCallFails(r) \/ Crash(r)
      PROVE  Inv'
  BY <1>2, StartOverStep DEF ApiCallFails, Crash, Happens
<1>3. CASE CaFallsDue \/ LeafFallsDue \/ SecretLost \/ RegistrationLost
  BY <1>3, OutsideStep
<1>4. CASE UNCHANGED vars
  <2>1. SecretSteps
    BY <1>4 DEF SecretSteps, vars
  <2>2. /\ UNCHANGED <<replica, store, secret, registration, events>>
        /\ secret \in SecretType /\ registration \in RegistrationType /\ events \subseteq Events
        /\ Good(secret) => secret.bundle # <<>>
    BY <1>4 DEF vars, Inv, TypeOK, Events
  <2> QED
    BY <2>1, <2>2, WorldStep
<1> QED
  BY <1>1, <1>2, <1>3, <1>4 DEF Next

(* and it is so always. *)
LEMMA Invariance == Spec => []Inv
BY InvInit, InvNext, PTL DEF Spec

(* A single replica is alone. *)
LEMMA SingleIsAlone ==
    ASSUME Inv, Cardinality(Replicas) = 1, "trust" \notin events
    PROVE  Alone
<1>1. IsFiniteSet(Replicas)
  BY BoundsAssumption DEF Inv, TypeOK
<1>2. \E x : Replicas = {x}
  BY <1>1, FS_Singleton
<1> QED
  BY <1>2 DEF Alone

-----------------------------------------------------------------------------
(* The Secret, the registration and every replica's progress keep their      *)
(* types, and what is registered or loaded for good is the bundle of a       *)
(* Secret that parsed.                                                       *)
THEOREM TypeCorrect == Spec => []TypeOK
<1>1. Inv => TypeOK
  BY DEF Inv
<1> QED
  BY Invariance, <1>1, PTL

(* A single replica never serves a certificate that the API server does not  *)
(* trust, whatever falls due, is lost, fails or crashes, short of somebody   *)
(* deleting the registration.                                                *)
THEOREM AlwaysTrusted == Spec => []ServedIsTrusted
<1>1. Inv => ServedIsTrusted
  <2> SUFFICES ASSUME Inv, Cardinality(Replicas) = 1, "trust" \notin events,
                      NEW r \in Replicas, store[r] # NotLoaded
               PROVE  store[r].bundle[1] \in CAsOf(registration.bundle)
    BY DEF ServedIsTrusted
  <2>1. TrustOK(replica[r], store[r])
    BY SingleIsAlone DEF Inv
  <2> QED
    BY <2>1 DEF TrustOK
<1> QED
  BY Invariance, <1>1, PTL

(* Any number of replicas replace a good CA only when it is due; a single    *)
(* one only when both are trusted.                                           *)
THEOREM HandedOver == Spec => KeyIsHandedOver
<1> DEFINE Replaced == /\ secret.exists /\ secret.valid /\ secret'.exists /\ secret'.valid
                       /\ secret'.bundle[1] # secret.bundle[1]
           HandsOver == /\ secret.caDue
                        /\ Cardinality(Replicas) = 1 /\ "trust" \notin events =>
                              {secret.bundle[1], secret'.bundle[1]}
                                  \subseteq CAsOf(registration.bundle)
<1>1. Inv /\ [Next]_vars => [Replaced => HandsOver]_secret
  <2> SUFFICES ASSUME Inv, [Next]_vars, Replaced
               PROVE  HandsOver
    OBVIOUS
  <2>1. secret' # secret /\ Good(secret) /\ secret'.bundle # secret.bundle
    BY DEF Good
  <2>2. PICK r \in Replicas : StoreSecret(r) \/ RenewServing(r) \/ PromoteCA(r)
    <3>1. ~(CaFallsDue \/ LeafFallsDue)
      BY <2>1 DEF CaFallsDue, LeafFallsDue, Inv, TypeOK, SecretType
    <3>2. ~SecretLost
      BY DEF SecretLost, Inv, TypeOK, SecretType, NoSecret
    <3>3. ASSUME NEW q \in Replicas, Ensure(q) \/ ApiCallFails(q) \/ Crash(q)
          PROVE  StoreSecret(q) \/ RenewServing(q) \/ PromoteCA(q)
      BY <2>1, <3>3 DEF Ensure, ApiCallFails, Crash, EnsureSecret, RegisteredCABundle,
         ReconcileRegistration, PublishRotationTrust, Load
    <3> QED
      BY <2>1, <3>1, <3>2, <3>3 DEF Next, vars, RegistrationLost
  <2>3. SeenOK(replica[r].seen) /\ PlaceOK(replica[r]) /\ (Alone => TrustOK(replica[r], store[r]))
    BY Pieces
  <2>4. ~StoreSecret(r)
    BY <2>1, <2>3 DEF StoreSecret, At, Unchanged, PlaceOK, SeenOK, Good
  <2>5. ~RenewServing(r)
    <3>1. ASSUME RenewServing(r)
          PROVE  FALSE
      <4>1. secret' = [Written(secret.bundle) EXCEPT !.caDue = secret.caDue]
        BY <2>1, <3>1 DEF RenewServing
      <4>2. secret'.bundle = secret.bundle
        BY <4>1 DEF Written
      <4> QED
        BY <2>1, <4>2
    <3> QED
      BY <3>1
  <2>6. /\ replica[r].pc = "promote" /\ Unchanged(replica[r].seen)
        /\ secret' = Written(replica[r].bundle)
    BY <2>1, <2>2, <2>4, <2>5 DEF PromoteCA, At
  <2>7. /\ secret.caDue /\ secret.bundle = replica[r].seen.bundle
        /\ CAsOf(replica[r].seen.bundle) \subseteq CAsOf(replica[r].bundle)
    BY <2>1, <2>3, <2>6 DEF PlaceOK, SeenOK, Unchanged, Knows, Good
  <2>8. ASSUME Cardinality(Replicas) = 1, "trust" \notin events
        PROVE  {secret.bundle[1], secret'.bundle[1]} \subseteq CAsOf(registration.bundle)
    <3>1. CAsOf(replica[r].bundle) \subseteq CAsOf(registration.bundle)
      BY <2>3, <2>6, <2>8, SingleIsAlone DEF TrustOK
    <3>2. secret.bundle[1] \in CAsOf(secret.bundle)
      BY <2>1, FirstIsThere, Pieces DEF Inv
    <3>3. secret'.bundle[1] \in CAsOf(replica[r].bundle)
      <4>1. secret'.bundle = replica[r].bundle
        BY <2>6 DEF Written
      <4>2. replica[r].bundle \in Seq(CAs) /\ replica[r].bundle # <<>>
        BY <2>3, <2>6, Pieces DEF PlaceOK, Carries
      <4> QED
        BY <4>1, <4>2, FirstIsThere
    <3> QED
      BY <2>7, <3>1, <3>2, <3>3
  <2> QED
    BY <2>7, <2>8
<1> QED
  BY Invariance, <1>1, PTL DEF Spec, KeyIsHandedOver
=============================================================================
