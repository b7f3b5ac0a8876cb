---------------------------- MODULE CertRotation ----------------------------
(***************************************************************************)
(* Built-in certificate management of one TempoStack: the signing CA, the  *)
(* CA bundle and the component certificates, how a pass of the TempoStack  *)
(* controller rotates them, and the certificate controller that checks     *)
(* periodically and asks for such a pass.                                  *)
(*                                                                         *)
(*   internal/certrotation/*.go, internal/certrotation/handlers/*.go       *)
(*   internal/controller/tempo/certrotation_controller.go                  *)
(*                                                                         *)
(* Simplifications: one TempoStack, managed and never deleted; a CA is its *)
(* common name and its validity (two CAs never share a common name); the   *)
(* one second by which the library backdates a certificate is below the    *)
(* unit of time; a cache catches up in one step, and a deletion it skips   *)
(* over is still an event; the rest of the pass of the TempoStack          *)
(* controller is in TempoStackController.                                  *)
(***************************************************************************)
EXTENDS Integers, FiniteSets

CONSTANTS
  Targets,              \* secrets of the component certificates
  CANames,              \* common names of signing CAs
  CACertValidity, CACertRefresh,
  TargetCertValidity, TargetCertRefresh,
  CheckExpiryAfter,     \* interval of the certificate controller
  Disturbed,            \* objects third parties delete or edit
  NoObj,
  MaxTime,              \* bound: the horizon
  MaxChanges,           \* bound: deletions and edits by third parties
  MaxFaults             \* bound: failed requests and restarts

Times   == 0..MaxTime
Expiry  == 0..(MaxTime + CACertValidity + TargetCertValidity)
CACerts == [name : CANames, notBefore : Times, notAfter : Expiry]

\* The CA bundle is a set of CAs.
Bundles == [certs : SUBSET CACerts]

\* A secret: intact says that its annotations parse and that the hostnames
\* among them are the required ones.
SignerSecrets == [ca : CACerts, intact : BOOLEAN]
TargetSecrets == [issuer : CACerts, notBefore : Times, notAfter : Expiry,
                  intact : BOOLEAN]

ASSUME DurationsAssumption ==
  /\ CACertValidity \in Nat /\ CACertRefresh \in Nat
  /\ TargetCertValidity \in Nat /\ TargetCertRefresh \in Nat
  /\ CheckExpiryAfter \in Nat \ {0}

ASSUME CertBoundsAssumption ==
  MaxTime \in Nat /\ MaxChanges \in Nat /\ MaxFaults \in Nat

ASSUME CertAbsenceAssumption ==
  /\ NoObj \notin SignerSecrets /\ NoObj \notin TargetSecrets
  /\ NoObj \notin Bundles /\ NoObj \notin Times

VARIABLES
  now,
  \* API server
  signer, bundle, targets,
  requiredAt,           \* annotation certRotationRequiredAt of the TempoStack
  \* informer caches: the Secrets and the ConfigMap
  cSigner, cTargets, cBundle,
  secretDeleted, bundleDeleted,   \* a deletion is on its way to the cache
  \* work queues: the TempoStack controller, the certificate controller
  rotateQueued, checkQueued,
  checkAt,              \* when the scheduled check is due
  \* CreateOrRotateCertificates: what it built, and what is still to be written
  pc, dSigner, dBundle, dTargets, todo, errs,
  \* bounds
  changes, faults

cluster == <<signer, bundle, targets>>
caches  == <<cSigner, cTargets, cBundle>>
deleted == <<secretDeleted, bundleDeleted>>
queues  == <<rotateQueued, checkQueued, checkAt>>
worker  == <<pc, dSigner, dBundle, dTargets, todo, errs>>
bounds  == <<changes, faults>>
vars    == <<now, cluster, requiredAt, caches, deleted, queues, worker, bounds>>

NoTargets == [t \in Targets |-> NoObj]

----------------------------------------------------------------------------
(* rotation.go, signer.go, cabundle.go, target.go.                         *)

\* needNewCertificate: oldEnough says that there is no signer to wait for, or
\* that it has been around for a tenth of the refresh time.
needNewCertificate(intact, notBefore, notAfter, refresh, oldEnough) ==
  LET validity == notAfter - notBefore
  IN \/ ~intact
     \/ now > notAfter
     \/ /\ validity # refresh
        /\ \/ now > notAfter - validity \div 5
           \/ now > notBefore + refresh /\ oldEnough

\* Mutant: the rotation does not look at the CA bundle.
NeedsOnlyByAge(t, ca, caBundle) ==
  needNewCertificate(t.intact, t.notBefore, t.notAfter, TargetCertRefresh,
                     now > ca.notBefore + TargetCertRefresh \div 10)

\* NeedNewCertificate of a target: its issuer must be in the CA bundle.
TargetNeedsNew(t, ca, caBundle) ==
  \/ needNewCertificate(t.intact, t.notBefore, t.notAfter, TargetCertRefresh,
                        now > ca.notBefore + TargetCertRefresh \div 10)
  \/ t.issuer.name \notin {c.name : c \in caBundle.certs}

\* NeedNewCertificate of the signing CA.
SignerNeedsNew(s) ==
  needNewCertificate(s.intact, s.ca.notBefore, s.ca.notAfter, CACertRefresh, TRUE)

\* Every CA some object, cache or local of the operator refers to.
KnownCAs ==
  LET secrets == UNION {{targets[t], cTargets[t], dTargets[t]} : t \in Targets}
  IN {s.ca : s \in {signer, cSigner, dSigner} \ {NoObj}}
       \cup (UNION {b.certs : b \in {bundle, cBundle, dBundle} \ {NoObj}})
       \cup {x.issuer : x \in secrets \ {NoObj}}

\* signerRotation.NewCertificate: the common name carries the time of
\* creation, so it is a new one.
FreshNames == {n \in CANames : \A c \in KnownCAs : c.name # n}

NewCA(n) == [name |-> n, notBefore |-> now, notAfter |-> now + CACertValidity]

\* buildSigningCASecret: the secret as cached, or a new CA.
SigningCASecrets ==
  IF cSigner # NoObj /\ ~SignerNeedsNew(cSigner) THEN {cSigner}
  ELSE IF FreshNames = {} THEN {}
  ELSE {[ca |-> NewCA(CHOOSE n \in FreshNames : TRUE), intact |-> TRUE]}

\* Mutant: the bundle holds the current signer only.
currentSignerOnly(old, ca) == [certs |-> {ca}]

\* manageCABundleConfigMap: the current signer joins, expired CAs leave.
manageCABundleConfigMap(old, ca) ==
  [certs |-> {c \in (IF old = NoObj THEN {} ELSE old.certs) \cup {ca} : now <= c.notAfter}]

\* Mutant: certificates get their full validity from any signer.
fullValidity(ca) == TargetCertValidity

\* setTargetCertKeyPairSecret: nothing past our signer.
targetValidity(ca) ==
  IF ca.notAfter - now < TargetCertValidity THEN ca.notAfter - now
                                            ELSE TargetCertValidity

\* buildTargetCertKeyPairSecrets.
BuildTarget(t, ca, caBundle) ==
  IF t # NoObj /\ ~TargetNeedsNew(t, ca, caBundle) THEN t
  ELSE [issuer |-> ca, notBefore |-> now, notAfter |-> now + targetValidity(ca),
        intact |-> TRUE]

----------------------------------------------------------------------------
(* CreateOrRotateCertificates, called by the TempoStack controller.        *)

\* GetOptions and BuildAll: read every object, build every object.
BuildAll ==
  /\ pc = "idle" /\ rotateQueued
  /\ rotateQueued' = FALSE
  /\ \E s \in SigningCASecrets :
       LET b == manageCABundleConfigMap(cBundle, s.ca)
       IN /\ dSigner' = s
          /\ dBundle' = b
          /\ dTargets' = [t \in Targets |-> BuildTarget(cTargets[t], s.ca, b)]
  /\ pc' = "signer" /\ todo' = Targets /\ errs' = FALSE
  /\ UNCHANGED <<now, cluster, requiredAt, caches, deleted, checkQueued, checkAt, bounds>>

Fault == faults < MaxFaults /\ faults' = faults + 1

\* CreateOrUpdate of one object: the cached version decides between create,
\* no-op and update; the API server rejects a create of an existing object
\* and an update of an old version. An error is counted and the loop goes on.
Accepted(cached, stored, desired) ==
  cached # desired => cached = stored

Write(cached, stored, stored_, desired) ==
  \/ /\ Accepted(cached, stored, desired)
     /\ stored_ = IF cached = desired THEN stored ELSE desired
     /\ UNCHANGED <<errs, faults>>
  \/ /\ ~Accepted(cached, stored, desired)
     /\ stored_ = stored /\ errs' = TRUE /\ UNCHANGED faults
  \/ /\ Fault /\ stored_ = stored /\ errs' = TRUE

WriteSigner ==
  /\ pc = "signer" /\ pc' = "bundle"
  /\ Write(cSigner, signer, signer', dSigner)
  /\ UNCHANGED <<now, bundle, targets, requiredAt, caches, deleted, queues,
                 dSigner, dBundle, dTargets, todo, changes>>

WriteBundle ==
  /\ pc = "bundle" /\ pc' = "targets"
  /\ Write(cBundle, bundle, bundle', dBundle)
  /\ UNCHANGED <<now, signer, targets, requiredAt, caches, deleted, queues,
                 dSigner, dBundle, dTargets, todo, changes>>

\* The secrets of the components come from a map: any order.
WriteTarget(t) ==
  /\ pc = "targets" /\ t \in todo
  /\ todo' = todo \ {t}
  /\ \E x \in {targets[t], dTargets[t]} :
       /\ Write(cTargets[t], targets[t], x, dTargets[t])
       /\ targets' = [targets EXCEPT ![t] = x]
  /\ UNCHANGED <<now, signer, bundle, requiredAt, caches, deleted, queues, pc,
                 dSigner, dBundle, dTargets, changes>>

Release ==
  /\ pc' = "idle" /\ dSigner' = NoObj /\ dBundle' = NoObj /\ dTargets' = NoTargets
  /\ todo' = {} /\ errs' = FALSE

\* Mutant: a failed pass is not retried.
noRetry == rotateQueued

\* Some write failed: the pass ends with an error, and is retried.
retry == rotateQueued \/ errs

EndPass ==
  /\ pc = "targets" /\ todo = {}
  /\ Release
  /\ rotateQueued' = retry
  /\ UNCHANGED <<now, cluster, requiredAt, caches, deleted, checkQueued, checkAt, bounds>>

----------------------------------------------------------------------------
(* The certificate controller.                                             *)

\* SigningCAExpired and CertificatesExpired, which give up when anything is
\* missing.
SigningCAExpired == cSigner # NoObj /\ SignerNeedsNew(cSigner)

CertificatesExpired ==
  /\ cSigner # NoObj /\ cBundle # NoObj
  /\ \A t \in Targets : cTargets[t] # NoObj
  /\ \E t \in Targets : TargetNeedsNew(cTargets[t], cSigner.ca, cBundle)

\* Mutant: the checks are as far apart as the refreshes.
checkAtRefresh == now + TargetCertRefresh

\* Mutant: the next check is scheduled in the past.
alreadyDue == now - CheckExpiryAfter

\* RequeueAfter: the work queue keeps the earlier of two timers.
nextCheck ==
  IF now < checkAt /\ checkAt < now + CheckExpiryAfter THEN checkAt
                                                       ELSE now + CheckExpiryAfter

\* Where the model's clock stops, timers keep firing.
Horizon == now = MaxTime

\* CertRotationReconciler.Reconcile; a new annotation on the TempoStack is an
\* event for both controllers.
CheckCertExpiry ==
  /\ checkQueued \/ now >= checkAt \/ Horizon
  /\ LET expired == SigningCAExpired \/ CertificatesExpired
         event   == expired /\ (requiredAt # now \/ Horizon)
     IN \/ /\ requiredAt' = IF expired THEN now ELSE requiredAt
           /\ checkAt' = nextCheck
           /\ checkQueued' = event
           /\ rotateQueued' = (rotateQueued \/ event)
           /\ UNCHANGED faults
        \/ /\ Fault /\ checkQueued' = TRUE
           /\ UNCHANGED <<requiredAt, checkAt, rotateQueued>>
  /\ UNCHANGED <<now, cluster, caches, deleted, worker, changes>>

----------------------------------------------------------------------------
(* Informers, third parties, time and restarts.                            *)

\* Any event on an owned Secret is a check; its deletion is a pass, too.
SyncSecrets ==
  /\ secretDeleted \/ <<cSigner, cTargets>> # <<signer, targets>>
  /\ cSigner' = signer /\ cTargets' = targets
  /\ checkQueued' = TRUE
  /\ rotateQueued' = (rotateQueued \/ secretDeleted)
  /\ secretDeleted' = FALSE
  /\ UNCHANGED <<now, cluster, requiredAt, cBundle, bundleDeleted, checkAt,
                 worker, bounds>>

\* The certificate controller does not watch the bundle.
SyncBundle ==
  /\ bundleDeleted \/ cBundle # bundle
  /\ cBundle' = bundle
  /\ rotateQueued' = (rotateQueued \/ bundleDeleted)
  /\ bundleDeleted' = FALSE
  /\ UNCHANGED <<now, cluster, requiredAt, cSigner, cTargets, secretDeleted,
                 checkQueued, checkAt, worker, bounds>>

Change == changes < MaxChanges /\ changes' = changes + 1

DeleteSecret ==
  /\ Change
  /\ \/ /\ "signer" \in Disturbed /\ signer # NoObj
        /\ signer' = NoObj /\ UNCHANGED targets
     \/ \E t \in Targets \cap Disturbed :
          /\ targets[t] # NoObj
          /\ targets' = [targets EXCEPT ![t] = NoObj]
          /\ UNCHANGED signer
  /\ secretDeleted' = TRUE
  /\ UNCHANGED <<now, bundle, requiredAt, caches, bundleDeleted, queues, worker, faults>>

DeleteBundle ==
  /\ Change
  /\ "bundle" \in Disturbed /\ bundle # NoObj
  /\ bundle' = NoObj /\ bundleDeleted' = TRUE
  /\ UNCHANGED <<now, signer, targets, requiredAt, caches, secretDeleted, queues,
                 worker, faults>>

\* Somebody breaks the annotations of a secret.
ExternalEdit ==
  /\ Change
  /\ \/ /\ "signer" \in Disturbed /\ signer # NoObj /\ signer.intact
        /\ signer' = [signer EXCEPT !.intact = FALSE] /\ UNCHANGED targets
     \/ \E t \in Targets \cap Disturbed :
          /\ targets[t] # NoObj /\ targets[t].intact
          /\ targets' = [targets EXCEPT ![t] = [@ EXCEPT !.intact = FALSE]]
          /\ UNCHANGED signer
  /\ UNCHANGED <<now, bundle, requiredAt, caches, deleted, queues, worker, faults>>

Tick ==
  /\ now < MaxTime /\ now' = now + 1
  /\ UNCHANGED <<cluster, requiredAt, caches, deleted, queues, worker, bounds>>

\* The operator restarts: it lists everything and reconciles every TempoStack.
Restart ==
  /\ Fault
  /\ Release
  /\ cSigner' = signer /\ cTargets' = targets /\ cBundle' = bundle
  /\ secretDeleted' = FALSE /\ bundleDeleted' = FALSE
  /\ rotateQueued' = TRUE /\ checkQueued' = TRUE /\ checkAt' = now
  /\ UNCHANGED <<now, cluster, requiredAt, changes>>

----------------------------------------------------------------------------
\* A new TempoStack, seen by both controllers.
Init ==
  /\ now = 0
  /\ signer = NoObj /\ bundle = NoObj /\ targets = NoTargets
  /\ requiredAt = NoObj
  /\ cSigner = NoObj /\ cBundle = NoObj /\ cTargets = NoTargets
  /\ secretDeleted = FALSE /\ bundleDeleted = FALSE
  /\ rotateQueued = TRUE /\ checkQueued = TRUE /\ checkAt = 0
  /\ pc = "idle" /\ dSigner = NoObj /\ dBundle = NoObj /\ dTargets = NoTargets
  /\ todo = {} /\ errs = FALSE
  /\ changes = 0 /\ faults = 0

Pass == BuildAll \/ WriteSigner \/ WriteBundle \/ (\E t \in Targets : WriteTarget(t)) \/ EndPass

Next ==
  \/ Pass \/ CheckCertExpiry
  \/ SyncSecrets \/ SyncBundle
  \/ DeleteSecret \/ DeleteBundle \/ ExternalEdit
  \/ Tick \/ Restart

Spec == Init /\ [][Next]_vars

CachesFresh ==
  <<cSigner, cTargets, cBundle, deleted>> = <<signer, targets, bundle, <<FALSE, FALSE>>>>

\* Passes that read caches which have caught up with the API server.
ReadsFresh == pc = "idle" /\ pc' # "idle" => CachesFresh
FreshSpec  == Init /\ [][Next /\ ReadsFresh]_vars

\* Both controllers and the informers keep running, and time goes on.
FreshFairSpec == FreshSpec /\ WF_vars(Pass) /\ WF_vars(CheckCertExpiry)
                           /\ WF_vars(SyncSecrets) /\ WF_vars(SyncBundle)
                           /\ WF_vars(Tick)

\* An operator that, besides, is done with its work before time advances.
Idle == pc = "idle" /\ ~rotateQueued /\ ~checkQueued /\ now < checkAt /\ CachesFresh
Prompt     == now' # now => Idle
PromptSpec == Init /\ [][Next /\ ReadsFresh /\ Prompt]_vars

----------------------------------------------------------------------------
(* Properties.                                                             *)

\* Every variable has its type.
TypeOK ==
  /\ now \in Times
  /\ signer \in SignerSecrets \cup {NoObj} /\ bundle \in Bundles \cup {NoObj}
  /\ cSigner \in SignerSecrets \cup {NoObj} /\ cBundle \in Bundles \cup {NoObj}
  /\ dSigner \in SignerSecrets \cup {NoObj} /\ dBundle \in Bundles \cup {NoObj}
  /\ targets \in [Targets -> TargetSecrets \cup {NoObj}]
  /\ cTargets \in [Targets -> TargetSecrets \cup {NoObj}]
  /\ dTargets \in [Targets -> TargetSecrets \cup {NoObj}]
  /\ requiredAt \in Times \cup {NoObj}
  /\ secretDeleted \in BOOLEAN /\ bundleDeleted \in BOOLEAN
  /\ rotateQueued \in BOOLEAN /\ checkQueued \in BOOLEAN /\ checkAt \in Nat
  /\ pc \in {"idle", "signer", "bundle", "targets"}
  /\ todo \subseteq Targets /\ errs \in BOOLEAN
  /\ (pc # "idle" => dSigner # NoObj /\ dBundle # NoObj)
  /\ changes \in Nat /\ faults \in Nat

Within(f) ==
  \A t \in Targets : f[t] # NoObj => f[t].notAfter <= f[t].issuer.notAfter

\* setTargetCertKeyPairSecret: no certificate outlives the CA that issued it,
\* so it stays verifiable for as long as it claims to be valid.
NeverOutlivesSigner == Within(targets)

\* When a pass reports success, the bundle the components mount trusts every
\* certificate they serve, whatever was stale, deleted or failed before.
PassTrusts ==
  [][EndPass /\ ~errs => \A t \in Targets :
       targets[t] # NoObj /\ bundle # NoObj => targets[t].issuer \in bundle.certs]_vars

\* At no point of a rotation does the bundle miss the issuer of a certificate
\* that is in use and not over.
BundleCovers ==
  \A t \in Targets : targets[t] # NoObj /\ now <= targets[t].notAfter =>
    bundle # NoObj /\ targets[t].issuer \in bundle.certs

\* A quick operator replaces every certificate, and the CA, before it expires.
NeverExpired ==
  /\ signer # NoObj => now <= signer.ca.notAfter
  /\ \A t \in Targets : targets[t] # NoObj => now <= targets[t].notAfter

\* Nor does one in a cache or in the hands of a pass.
NoneOutlives == Within(targets) /\ Within(cTargets) /\ Within(dTargets)

\* Why PassTrusts holds: common names tell CAs apart, ...
NamesUnique == \A x, y \in KnownCAs : x.name = y.name => x = y

\* ... what a pass built is consistent, ...
BuiltTrusts == pc # "idle" => \A t \in Targets :
                 dTargets[t] # NoObj /\ dTargets[t].issuer \in dBundle.certs

\* ... what it has not written yet is as it was read, or was deleted, ...
UnwrittenAsRead ==
  /\ pc \in {"signer", "bundle"} => bundle \in {cBundle, NoObj}
  /\ pc # "idle" => \A t \in todo : targets[t] # NoObj =>
       cTargets[t] # NoObj /\ targets[t].issuer = cTargets[t].issuer
  /\ pc \in {"signer", "bundle"} => todo = Targets

\* ... and what it has written is what it built, or was deleted.
WrittenAsBuilt ==
  pc = "targets" /\ ~errs =>
    /\ bundle \in {dBundle, NoObj}
    /\ \A t \in Targets \ todo : targets[t] # NoObj =>
         targets[t].issuer = dTargets[t].issuer

\* Failed writes, restarts, deletions and broken annotations are repaired: in
\* the end there is a signer, a bundle, and for every component a certificate
\* that is trusted, intact and valid.
Repaired ==
  <>[](signer # NoObj /\ signer.intact /\ bundle # NoObj /\
       \A t \in Targets : /\ targets[t] # NoObj /\ targets[t].intact
                          /\ targets[t].issuer \in bundle.certs
                          /\ now <= targets[t].notAfter)

\* "It creates a new one when [...] the signing CA changes."
FollowsSigner ==
  [][EndPass /\ ~errs => \A t \in Targets : targets[t] # NoObj /\ signer # NoObj
       => targets[t].issuer = signer.ca]_vars
============================================================================
