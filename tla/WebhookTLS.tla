----------------------------- MODULE WebhookTLS -----------------------------
(***************************************************************************)
(* The certificates of the admission webhook.  Every replica of the        *)
(* manager, leader or not, runs Ensure again and again: it creates, repairs *)
(* or renews the one Secret that holds the CA and the serving certificate, *)
(* writes the CA bundle the API server is to trust into the webhook        *)
(* registration, and loads the serving certificate.  The Secret is written *)
(* under a resource version; the registration is overwritten by a forced   *)
(* apply.                                                                  *)
(*                                                                         *)
(* A CA is a number and a bundle a sequence of them, the signing CA first. *)
(* Validity periods are long against the time Ensure takes, so time shows  *)
(* only as a certificate falling due for renewal.                          *)
(***************************************************************************)
EXTENDS Integers, Sequences, FiniteSets

CONSTANTS
    Deployments,      \* the sets of replicas, all running Ensure, that may be deployed
    MaxEvents         \* how many kinds of events from outside may happen, each once

ASSUME BoundsAssumption ==
    /\ \A deployed \in Deployments : IsFiniteSet(deployed)
    /\ MaxEvents \in Nat

CAs == Nat \ {0}
CAsOf(bundle) == {bundle[i] : i \in DOMAIN bundle}

VARIABLES
    secret,        \* the Secret: does it exist, does it parse, its CA bundle, what is due,
                   \* and its resource version, which also tells serving certificates apart
    registration,  \* the webhook registration: does it exist, and its CA bundle
    replica,       \* how far each replica's Ensure has come
    store,         \* the bundle and serving certificate each replica has loaded
    events         \* what has happened from outside, each kind at most once

vars == <<secret, registration, replica, store, events>>

Replicas == DOMAIN replica

SecretType ==
    [exists : BOOLEAN, valid : BOOLEAN, bundle : Seq(CAs), caDue : BOOLEAN, leafDue : BOOLEAN,
     version : Nat]
RegistrationType == [exists : BOOLEAN, bundle : Seq(CAs)]
StoreType == [bundle : Seq(CAs), version : Nat]
ReplicaType ==
    [pc : {"idle", "trust", "preregister", "store", "renew", "publish", "promote", "register",
           "load"},
     seen : SecretType, bundle : Seq(CAs)]

NoSecret ==
    [exists |-> FALSE, valid |-> FALSE, bundle |-> <<>>, caDue |-> FALSE, leafDue |-> FALSE,
     version |-> 0]
NotLoaded == [bundle |-> <<>>, version |-> 0]
Idle == [pc |-> "idle", seen |-> NoSecret, bundle |-> <<>>]

----------------------------------------------------------------------------
(* Generate: a new CA, put in front of the bundle trusted before.  One that *)
(* nothing mentions any more may come again.                                *)
InUse ==
    CAsOf(secret.bundle) \cup CAsOf(registration.bundle)
    \cup UNION {CAsOf(replica[r].bundle) \cup CAsOf(replica[r].seen.bundle)
                  \cup CAsOf(store[r].bundle) : r \in Replicas}

NewCA == CHOOSE ca \in 1..(Cardinality(InUse) + 1) : ca \notin InUse

Mut_GenerateForgets(previous) == <<NewCA>>

Generate(previous) == <<NewCA>> \o previous

(* publishRotationTrust: what the registration trusts so far stays in.     *)
Contains(bundle, part) ==
    \E i \in 0..(Len(bundle) - Len(part)) : SubSeq(bundle, i + 1, i + Len(part)) = part

Combined(next, current) == IF Contains(next, current) THEN next ELSE next \o current

(* A new content of the Secret. *)
Written(bundle) ==
    [exists |-> TRUE, valid |-> TRUE, bundle |-> bundle, caDue |-> FALSE, leafDue |-> FALSE,
     version |-> secret.version + 1]

(* What Ensure does with a Secret that parses and whose serving certificate *)
(* is not due.                                                              *)
Continue(s) ==
    IF s.caDue THEN [pc |-> "publish", seen |-> s, bundle |-> Generate(s.bundle)]
    ELSE [pc |-> "register", seen |-> s, bundle |-> s.bundle]

----------------------------------------------------------------------------
(* Ensure, step by step.                                                   *)

Go(r, next) == replica' = [replica EXCEPT ![r] = next]
At(r, pc) == r \in Replicas /\ replica[r].pc = pc

(* Ensure fails, or starts over after a conflict. *)
StartOver(r) == Go(r, Idle)

EnsureSecret(r) ==
    /\ At(r, "idle")
    /\ Go(r, IF ~secret.exists \/ ~secret.valid
             THEN [pc |-> "trust", seen |-> secret, bundle |-> <<>>]
             ELSE IF secret.leafDue THEN [pc |-> "renew", seen |-> secret, bundle |-> <<>>]
             ELSE Continue(secret))
    /\ UNCHANGED <<secret, registration, store, events>>

(* A Secret that is missing or does not parse is replaced; first its new   *)
(* CA is trusted.                                                          *)
RegisteredCABundle(r) ==
    /\ At(r, "trust")
    /\ Go(r, [replica[r] EXCEPT !.pc = "preregister", !.bundle = Generate(registration.bundle)])
    /\ UNCHANGED <<secret, registration, store, events>>

ReconcileRegistration(r) ==
    /\ At(r, "preregister") \/ At(r, "register")
    /\ registration' = [exists |-> TRUE, bundle |-> replica[r].bundle]
    /\ Go(r, [replica[r] EXCEPT !.pc = IF @ = "preregister" THEN "store" ELSE "load"])
    /\ UNCHANGED <<secret, store, events>>

Mut_AnySecret(s) == TRUE

(* Create finds no Secret, Update the one that was read. *)
Unchanged(s) ==
    /\ secret.exists = s.exists
    /\ s.exists => secret.version = s.version

StoreSecret(r) ==
    /\ At(r, "store")
    /\ IF Unchanged(replica[r].seen)
       THEN /\ secret' = Written(replica[r].bundle)
            /\ Go(r, Continue(secret'))
       ELSE secret' = secret /\ StartOver(r)
    /\ UNCHANGED <<registration, store, events>>

RenewServing(r) ==
    /\ At(r, "renew")
    /\ IF Unchanged(replica[r].seen)
       THEN /\ secret' = [Written(secret.bundle) EXCEPT !.caDue = secret.caDue]
            /\ Go(r, Continue(secret'))
       ELSE secret' = secret /\ StartOver(r)
    /\ UNCHANGED <<registration, store, events>>

(* Read and patched under a resource version, hence one step. *)
PublishRotationTrust(r) ==
    /\ At(r, "publish")
    /\ IF registration.exists
       THEN /\ registration' = [registration EXCEPT !.bundle = Combined(replica[r].bundle, @)]
            /\ Go(r, [replica[r] EXCEPT !.pc = "promote"])
       ELSE registration' = registration /\ StartOver(r)
    /\ UNCHANGED <<secret, store, events>>

PromoteCA(r) ==
    /\ At(r, "promote")
    /\ IF Unchanged(replica[r].seen)
       THEN /\ secret' = Written(replica[r].bundle)
            /\ Go(r, [replica[r] EXCEPT !.pc = "register", !.seen = secret'])
       ELSE secret' = secret /\ StartOver(r)
    /\ UNCHANGED <<registration, store, events>>

Mut_LoadOnce(r) ==
    /\ At(r, "load")
    /\ store' = IF store[r] # NotLoaded THEN store
                ELSE [store EXCEPT ![r] = [bundle |-> replica[r].bundle,
                                           version |-> replica[r].seen.version]]
    /\ Go(r, Idle)
    /\ UNCHANGED <<secret, registration, events>>

Load(r) ==
    /\ At(r, "load")
    /\ store' = [store EXCEPT ![r] = [bundle |-> replica[r].bundle,
                                      version |-> replica[r].seen.version]]
    /\ Go(r, Idle)
    /\ UNCHANGED <<secret, registration, events>>

ReadinessCheck(r) ==
    /\ store[r] # NotLoaded
    /\ registration.exists
    /\ registration.bundle = store[r].bundle

----------------------------------------------------------------------------
(* The surroundings (external).                                            *)

Happens(event) ==
    /\ event \notin events /\ Cardinality(events) < MaxEvents
    /\ events' = events \cup {event}

CaFallsDue ==
    /\ Happens("ca")
    /\ secret.exists /\ secret.valid
    /\ secret' = [secret EXCEPT !.caDue = TRUE]
    /\ UNCHANGED <<registration, replica, store>>

LeafFallsDue ==
    /\ Happens("leaf")
    /\ secret.exists /\ secret.valid
    /\ secret' = [secret EXCEPT !.leafDue = TRUE]
    /\ UNCHANGED <<registration, replica, store>>

SecretLost ==
    /\ Happens("secret")
    /\ secret.exists
    /\ \/ secret' = [NoSecret EXCEPT !.version = secret.version + 1]
       \/ secret' = [secret EXCEPT !.valid = FALSE, !.version = @ + 1]
    /\ UNCHANGED <<registration, replica, store>>

RegistrationLost ==
    /\ Happens("trust")
    /\ registration' = [exists |-> FALSE, bundle |-> <<>>]
    /\ UNCHANGED <<secret, replica, store>>

ApiCallFails(r) ==
    /\ Happens("fault")
    /\ replica[r] # Idle
    /\ StartOver(r)
    /\ UNCHANGED <<secret, registration, store>>

Crash(r) ==
    /\ Happens("fault")
    /\ StartOver(r)
    /\ store' = [store EXCEPT ![r] = NotLoaded]
    /\ UNCHANGED <<secret, registration>>

----------------------------------------------------------------------------
(* The release installs the registration without a CA bundle. *)
Init ==
    /\ secret = NoSecret
    /\ registration = [exists |-> TRUE, bundle |-> <<>>]
    /\ \E deployed \in Deployments : replica = [r \in deployed |-> Idle]
    /\ store = [r \in Replicas |-> NotLoaded]
    /\ events = {}

Ensure(r) ==
    \/ EnsureSecret(r) \/ RegisteredCABundle(r) \/ ReconcileRegistration(r) \/ StoreSecret(r)
    \/ RenewServing(r) \/ PublishRotationTrust(r) \/ PromoteCA(r) \/ Load(r)

Next ==
    \/ \E r \in Replicas : Ensure(r) \/ ApiCallFails(r) \/ Crash(r)
    \/ CaFallsDue \/ LeafFallsDue \/ SecretLost \/ RegistrationLost

Spec == Init /\ [][Next]_vars

(* The ticker of every replica runs Ensure again and again. *)
FairSpec == Spec /\ \A r \in UNION Deployments : WF_vars(Ensure(r))

----------------------------------------------------------------------------
(* Properties.                                                             *)

(* Every variable has its type; a bundle that is registered or loaded for good is that *)
(* of a Secret that parsed.                                                            *)
TypeOK ==
    /\ secret \in SecretType /\ registration \in RegistrationType
    /\ Replicas \in Deployments
    /\ replica \in [Replicas -> ReplicaType] /\ store \in [Replicas -> StoreType]
    /\ \A r \in Replicas : replica[r].pc \in {"register", "load"} =>
          replica[r].seen.valid /\ replica[r].bundle = replica[r].seen.bundle
    /\ events \subseteq {"ca", "leaf", "secret", "trust", "fault"}

(* A single replica's certificate is trusted by the API server at every moment of a    *)
(* rotation, repair or restart, as long as nobody deletes the registration.            *)
ServedIsTrusted ==
    Cardinality(Replicas) = 1 /\ "trust" \notin events =>
        \A r \in Replicas : store[r] # NotLoaded =>
            store[r].bundle[1] \in CAsOf(registration.bundle)

(* Replicas do not replace one another's keys: a CA that is good and not due is only   *)
(* replaced after it was lost by hand.  With a single replica its successor takes over *)
(* only once the registration trusts it beside the one before.                         *)
KeyIsHandedOver ==
    [][(/\ secret.exists /\ secret.valid /\ secret'.exists /\ secret'.valid
        /\ secret'.bundle[1] # secret.bundle[1]) =>
          /\ secret.caDue
          /\ Cardinality(Replicas) = 1 /\ "trust" \notin events =>
                {secret.bundle[1], secret'.bundle[1]} \subseteq CAsOf(registration.bundle)]_secret

Converged ==
    /\ secret.exists /\ secret.valid /\ ~secret.caDue /\ ~secret.leafDue
    /\ \A r \in Replicas : /\ store[r].version = secret.version
                          /\ store[r].bundle = secret.bundle
                          /\ ReadinessCheck(r)

(* Replicas converge: from some time on all serve the certificate of the Secret, which  *)
(* is not due, and all are ready.  Only a CA that falls due while the registration is   *)
(* missing is never rotated: publishing its successor needs a registration.             *)
ReplicasConverge ==
    <>[]Converged \/ <>[](secret.caDue /\ ~registration.exists)
=============================================================================
