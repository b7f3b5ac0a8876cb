-------------------------- MODULE TempoMonolithic --------------------------
(***************************************************************************)
(* The life of one TempoMonolithic: its controller, its conditions, and    *)
(* the controller that has its certificate rotated.                        *)
(*                                                                         *)
(*   internal/controller/tempo/tempomonolithic_controller.go, finalizer.go *)
(*   internal/controller/tempo/certrotation_monolithic_controller.go       *)
(*   internal/manifests/monolithic/certificates.go                         *)
(*   internal/status/monolithic.go                                         *)
(*                                                                         *)
(* Simplifications: one certificate stands for signer, bundle and target   *)
(* (their rotation is in CertRotation), the StatefulSet for all namespaced *)
(* objects, and one ClusterRole and one ClusterRoleBinding for the         *)
(* cluster-scoped ones, which exist for a gateway in OpenShift mode (all   *)
(* objects: MonolithicManifests); a pod uses the certificate it was        *)
(* started with; the CR and the certificate are current when a pass reads  *)
(* them (stale reads: TempoStackController, CertRotation), but the CR may  *)
(* change under a pass; the first write of a pass and the read before it   *)
(* are one step; so are the writes of createOrUpdate, some of which may    *)
(* fail; upgrades are in Upgrade.                                          *)
(***************************************************************************)
EXTENDS Integers, FiniteSets

CONSTANTS
  Managements,      \* what a user may set spec.management to
  Validity, Refresh,
  CheckExpiryAfter,
  Faulty,           \* steps whose requests may fail
  FreshLists,       \* whether ClusterRoles are listed from caches that have caught up
  InOrder,          \* whether a pod gets on only when its last change was counted
                    \* and seen, and is cached before the count it is part of
  NoObj,
  MaxTime,          \* bound: the horizon
  MaxDisturbances   \* bound: edits, failures of pods and requests, restarts

Times == 0..MaxTime
CRs   == [management : {"", "Managed", "Unmanaged"}, openshift : BOOLEAN,
          deleting : BOOLEAN, finalizer : BOOLEAN, requiredAt : -1..MaxTime]
Pods  == [cert : Times, status : {"Pending", "Running", "Ready", "Failed"}]
ClusterScoped == {"clusterrole", "clusterrolebinding"}
Types == {"Pending", "ConfigurationError", "Failed", "Ready"}
Steps == {"finalize", "update", "certs", "objects", "prune", "status", "list", "check"}

ASSUME MonolithicConstants ==
  /\ Managements \subseteq {"", "Managed", "Unmanaged"} /\ Faulty \subseteq Steps
  /\ FreshLists \in BOOLEAN /\ InOrder \in BOOLEAN

ASSUME MonolithicBounds ==
  /\ Validity \in Nat /\ Refresh \in Nat /\ CheckExpiryAfter \in Nat \ {0}
  /\ MaxTime \in Nat /\ MaxDisturbances \in Nat

ASSUME MonolithicAbsence == NoObj \notin CRs /\ NoObj \notin Times /\ NoObj \notin Pods

VARIABLES
  now,
  cr, conditions,        \* the CR; the conditions that are true
  storage,               \* whether its storage secret is valid
  lookups,               \* whether what no watch covers is in order: OIDC secrets,
                         \* base domain, TLS profile
  seen,                  \* lookups, as the last createOrUpdate found it
  cert,                  \* when the certificate in its secret was issued
  roles,                 \* the cluster-scoped objects that exist
  sts,                   \* the certificate in the template of the StatefulSet
  pod, readyReplicas,
  cSts, cReplicas, cPod, \* what the caches hold of these three
  queued, checkQueued, checkAt,   \* work queues, and the timer
  pc, copy, owned,       \* the pass: the CR it read, what finalize still deletes,
  hash, err,             \* its certificate and its error
  disturbances

inputs  == <<storage, lookups, seen>>
cluster == <<inputs, cert, roles, sts, pod, readyReplicas>>
caches  == <<cSts, cReplicas, cPod>>
queues  == <<queued, checkQueued, checkAt>>
worker  == <<pc, copy, owned, hash, err>>
vars    == <<now, cr, conditions, cluster, caches, queues, worker, disturbances>>

Never == MaxTime + CheckExpiryAfter + 1

\* The user has created a CR, with a gateway in OpenShift mode (what it says
\* may be edited before anyone looks at it), and both
\* controllers have seen it.
Init ==
  /\ now = 0
  /\ cr \in [management : Managements \ {"Unmanaged"}, openshift : {TRUE}, deleting : {FALSE},
             finalizer : {FALSE}, requiredAt : {-1}]
  /\ conditions = {} /\ storage = TRUE /\ lookups = TRUE /\ seen = TRUE
  /\ cert = NoObj /\ roles = {} /\ sts = NoObj /\ pod = NoObj /\ readyReplicas = 0
  /\ cSts = NoObj /\ cReplicas = 0 /\ cPod = NoObj
  /\ queued = TRUE /\ checkQueued = TRUE /\ checkAt = Never
  /\ pc = "idle" /\ copy = NoObj /\ owned = {} /\ hash = NoObj /\ err = "none"
  /\ disturbances = 0

\* Mutant: the deletion timestamp is no event.
specOnly(old, new) ==
  <<old.management, old.openshift, old.requiredAt>> # <<new.management, new.openshift, new.requiredAt>>

\* An update of the CR is an event if the spec or the annotations changed, or
\* if it is being deleted.
createOrUpdateOnlyPred(old, new) ==
  \/ <<old.management, old.openshift>> # <<new.management, new.openshift>>
  \/ old.requiredAt # new.requiredAt
  \/ new.deleting

Disturb == disturbances < MaxDisturbances /\ disturbances' = disturbances + 1

Fault(step) == step \in Faulty /\ Disturb

----------------------------------------------------------------------------
(* TempoMonolithicReconciler.Reconcile, in the steps others can come       *)
(* between.                                                                *)

NeedsNew(c) == now > c + Refresh \/ now > c + Validity - Validity \div 5

Done == pc' = "idle" /\ copy' = NoObj /\ owned' = {} /\ hash' = NoObj /\ err' = "none"

\* What a listing of the cluster-scoped objects may yield: a cache that lags
\* misses new objects and shows old ones.
Listings == IF FreshLists THEN {roles} ELSE SUBSET ClusterScoped

\* Cluster-scoped objects of an unmanaged CR are left alone.
Finalized(management) == management # "Unmanaged"

\* finalize and findClusterRoleObjects.
Finalize ==
  /\ pc = "idle" /\ queued /\ cr # NoObj /\ cr.deleting /\ cr.finalizer
  /\ \/ /\ pc' = "finalize" /\ copy' = cr /\ queued' = FALSE
        /\ owned' \in IF Finalized(cr.management) THEN Listings ELSE {{}}
        /\ UNCHANGED disturbances
     \/ Fault("finalize") /\ UNCHANGED <<pc, copy, owned, queued>>
  /\ UNCHANGED <<now, cr, conditions, cluster, caches, checkQueued, checkAt, hash, err>>

\* One failed Delete, also of an object that is gone, does not keep the
\* others from being deleted.
deleteObjects ==
  /\ pc = "finalize"
  /\ \E o \in owned :
       /\ owned' = owned \ {o}
       /\ \/ /\ roles' = roles \ {o} /\ err' = (IF o \in roles THEN err ELSE "other")
             /\ UNCHANGED disturbances
          \/ Fault("finalize") /\ err' = "other" /\ UNCHANGED roles
  /\ UNCHANGED <<now, cr, conditions, inputs, cert, sts, pod, readyReplicas, caches, queues, pc, copy,
                 hash>>

\* The Update is refused if the CR has changed since the pass read it.
RemoveFinalizer ==
  /\ pc = "finalize" /\ owned = {} /\ Done
  /\ \/ /\ err = "none" /\ copy = cr
        /\ cr' = NoObj /\ conditions' = {} /\ UNCHANGED <<queued, disturbances>>
     \/ /\ err # "none" \/ copy # cr
        /\ queued' = TRUE /\ UNCHANGED <<cr, conditions, disturbances>>
     \/ err = "none" /\ Fault("update") /\ queued' = TRUE /\ UNCHANGED <<cr, conditions>>
  /\ UNCHANGED <<now, cluster, caches, checkQueued, checkAt>>

\* The request of a CR that is gone; the request of an unmanaged one, which
\* gets the finalizer all the same.
Skip ==
  /\ pc = "idle" /\ queued
  /\ \/ cr = NoObj /\ UNCHANGED cr
     \/ /\ cr # NoObj /\ ~cr.deleting /\ cr.management = "Unmanaged"
        /\ cr' = [cr EXCEPT !.finalizer = TRUE]
  /\ queued' = FALSE
  /\ UNCHANGED <<now, conditions, cluster, caches, checkQueued, checkAt, worker, disturbances>>

AddFinalizer(c) == [c EXCEPT !.finalizer = TRUE]

Reconcile ==
  /\ pc = "idle" /\ queued
  /\ cr # NoObj /\ ~cr.deleting /\ cr.management # "Unmanaged"
  /\ \/ /\ cr' = AddFinalizer(cr)
        /\ pc' = "certs" /\ copy' = cr' /\ queued' = FALSE /\ UNCHANGED disturbances
     \/ ~cr.finalizer /\ Fault("update") /\ UNCHANGED <<cr, pc, copy, queued>>
  /\ UNCHANGED <<now, conditions, cluster, caches, checkQueued, checkAt, owned, hash, err>>

\* The new Secret is an event for the certificate controller.
CreateOrRotateCertificates ==
  /\ pc = "certs"
  /\ \/ /\ cert' = IF cert = NoObj THEN now ELSE IF NeedsNew(cert) THEN now ELSE cert
        /\ hash' = cert' /\ pc' = "objects"
        /\ checkQueued' = (checkQueued \/ cert' # cert)
        /\ UNCHANGED <<err, disturbances>>
     \/ /\ Fault("certs") /\ err' = "other" /\ pc' = "status"
        /\ UNCHANGED <<cert, hash, checkQueued>>
  /\ UNCHANGED <<now, cr, conditions, inputs, roles, sts, pod, readyReplicas, caches, queued, checkAt,
                 copy, owned>>

\* Mutant: the pod template does not carry the hash of the certificate.
unhashed(h) == IF sts = NoObj THEN h ELSE sts

\* BuildTempoStatefulset with the annotations of the certificate.
Template(h) == h

\* The storage secret, and then tenants, base domain and TLS profile.
ConfigurationErrors == ~storage \/ ~lookups

WantedRoles == IF copy.openshift THEN ClusterScoped ELSE {}

\* reconcileManagedObjects: an error with an object does not keep the others
\* from being written; what is listed and not wanted is deleted only when
\* every write succeeded.  An error before it, such as a failed listing,
\* leaves everything unwritten.
reconcileManagedObjects ==
  \E listed \in Listings :
    LET pruned == listed \ WantedRoles
        all    == WantedRoles \cup {"statefulset"}
    IN  \/ /\ sts' = Template(hash) /\ roles' = (roles \cup WantedRoles) \ pruned
           /\ err' = (IF pruned \subseteq roles THEN err ELSE "other")
           /\ UNCHANGED disturbances
        \/ /\ Fault("objects") /\ err' = "other"
           /\ \E done \in (SUBSET all) \ {all} :
                /\ roles' = roles \cup (done \cap ClusterScoped)
                /\ sts' = IF "statefulset" \in done THEN Template(hash) ELSE sts
        \/ /\ Fault("prune") /\ err' = "other" /\ sts' = Template(hash)
           /\ \E kept \in (SUBSET pruned) \ {{}} :
                roles' = (roles \cup WantedRoles) \ (pruned \ kept)

createOrUpdate ==
  /\ pc = "objects" /\ pc' = "status" /\ seen' = lookups
  /\ \/ ConfigurationErrors /\ err' = "config" /\ UNCHANGED <<roles, sts, disturbances>>
     \/ ~ConfigurationErrors /\ reconcileManagedObjects
  /\ UNCHANGED <<now, cr, conditions, storage, lookups, cert, pod, readyReplicas, caches, queues, copy,
                 owned, hash>>

----------------------------------------------------------------------------
(* status/monolithic.go                                                    *)

\* getStatefulSetStatus: the statuses of the pods, or Pending.
getStatefulSetStatus(set, replicas, p) ==
  IF set # NoObj /\ replicas < 1 THEN {"Pending"} ELSE IF p = NoObj THEN {} ELSE {p.status}

updateConditions(statuses, error) ==
  LET others == (IF statuses \cap {"Pending", "Running"} # {} THEN {"Pending"} ELSE {})
                  \cup (IF error = "config" THEN {"ConfigurationError"} ELSE {})
                  \cup (IF error = "other" \/ "Failed" \in statuses THEN {"Failed"} ELSE {})
  IN  IF others = {} THEN {"Ready"} ELSE others

\* A ConfigurationError is terminal, every other error is retried.
Requeued == err = "other"

\* Only a failed status update keeps the conditions; a failed listing counts
\* as no pods.
HandleTempoMonolithicStatus ==
  /\ pc = "status" /\ Done
  /\ \/ /\ conditions' = updateConditions(getStatefulSetStatus(cSts, cReplicas, cPod), err)
        /\ queued' = (queued \/ Requeued) /\ UNCHANGED disturbances
     \/ /\ Fault("list")
        /\ conditions' = updateConditions({}, err) /\ queued' = (queued \/ Requeued)
     \/ Fault("status") /\ queued' = TRUE /\ UNCHANGED conditions
  /\ UNCHANGED <<now, cr, cluster, caches, checkQueued, checkAt>>

----------------------------------------------------------------------------
(* CertRotationMonolithicReconciler.Reconcile                              *)

\* Mutant: the next check is scheduled in the past.
alreadyDue == now - CheckExpiryAfter

nextCheck == now + CheckExpiryAfter

Checked == cr # NoObj /\ ~cr.deleting /\ cr.management = "Managed"

\* The annotation is an event for both controllers.
CheckCertExpiry ==
  /\ checkQueued \/ now >= checkAt
  /\ \/ ~Checked /\ checkQueued' = FALSE /\ checkAt' = Never /\ UNCHANGED <<cr, queued, disturbances>>
     \/ /\ Checked /\ checkAt' = nextCheck /\ UNCHANGED disturbances
        /\ IF cert # NoObj /\ NeedsNew(cert) /\ cr.requiredAt # now
           THEN /\ cr' = [cr EXCEPT !.requiredAt = now]
                /\ queued' = (queued \/ createOrUpdateOnlyPred(cr, cr')) /\ checkQueued' = TRUE
           ELSE UNCHANGED <<cr, queued>> /\ checkQueued' = FALSE
     \/ Checked /\ Fault("check") /\ checkQueued' = TRUE /\ UNCHANGED <<cr, queued, checkAt>>
  /\ UNCHANGED <<now, conditions, cluster, caches, worker>>

----------------------------------------------------------------------------
(* The cluster: the StatefulSet controller, the kubelet and the caches.    *)

RollPod ==
  /\ sts # NoObj
  /\ pod # NoObj => pod.cert # sts \/ pod.status = "Failed"
  /\ pod' = [cert |-> sts, status |-> "Pending"]
  /\ UNCHANGED <<now, cr, conditions, inputs, cert, roles, sts, readyReplicas, caches, queues,
                 worker, disturbances>>

PodProgress ==
  /\ pod # NoObj /\ pod.status \in {"Pending", "Running"}
  /\ InOrder => readyReplicas = 0 /\ cReplicas = 0 /\ cSts # NoObj
  /\ pod' = [pod EXCEPT !.status = IF @ = "Pending" THEN "Running" ELSE "Ready"]
  /\ UNCHANGED <<now, cr, conditions, inputs, cert, roles, sts, readyReplicas, caches, queues,
                 worker, disturbances>>

Replicas == IF pod # NoObj /\ pod.status = "Ready" THEN 1 ELSE 0

CountReplicas ==
  /\ sts # NoObj /\ readyReplicas # Replicas
  /\ readyReplicas' = Replicas
  /\ UNCHANGED <<now, cr, conditions, inputs, cert, roles, sts, pod, caches, queues, worker, disturbances>>

\* Mutant: the status of a StatefulSet is no event.
generationOnly == cSts # NoObj /\ cSts # sts

\* Every change of a StatefulSet is an event, its creation is none.
updateOrDeleteWithStatusPred == cSts # NoObj

SyncStatefulSet ==
  /\ <<cSts, cReplicas>> # <<sts, readyReplicas>>
  /\ InOrder /\ cReplicas # readyReplicas => cPod = pod
  /\ cSts' = sts /\ cReplicas' = readyReplicas
  /\ queued' = (queued \/ updateOrDeleteWithStatusPred)
  /\ UNCHANGED <<now, cr, conditions, cluster, cPod, checkQueued, checkAt, worker, disturbances>>

\* Pods are cached, but they are no events.
SyncPod ==
  /\ cPod # pod /\ cPod' = pod
  /\ UNCHANGED <<now, cr, conditions, cluster, cSts, cReplicas, queues, worker, disturbances>>

\* Once the CR is gone, what it owns is collected.
Collect ==
  /\ cr = NoObj
  /\ \/ /\ cert # NoObj /\ cert' = NoObj /\ checkQueued' = TRUE
        /\ UNCHANGED <<sts, readyReplicas, pod>>
     \/ /\ sts # NoObj /\ sts' = NoObj /\ readyReplicas' = 0
        /\ UNCHANGED <<cert, pod, checkQueued>>
     \/ /\ sts = NoObj /\ pod # NoObj /\ pod' = NoObj
        /\ UNCHANGED <<cert, sts, readyReplicas, checkQueued>>
  /\ UNCHANGED <<now, cr, conditions, inputs, roles, caches, queued, checkAt, worker, disturbances>>

----------------------------------------------------------------------------
(* Users, failures, time and restarts.                                     *)

\* A new generation is an event for both controllers.
Edit ==
  /\ Disturb /\ cr # NoObj
  /\ \E m \in Managements, o \in BOOLEAN :
       /\ <<m, o>> # <<cr.management, cr.openshift>>
       /\ cr' = [cr EXCEPT !.management = m, !.openshift = o]
  /\ queued' = (queued \/ createOrUpdateOnlyPred(cr, cr')) /\ checkQueued' = TRUE
  /\ UNCHANGED <<now, conditions, cluster, caches, checkAt, worker>>

\* findTempoMonolithicForStorageSecret
EditStorageSecret ==
  /\ Disturb /\ cr # NoObj
  /\ storage' = ~storage /\ queued' = TRUE
  /\ UNCHANGED <<now, cr, conditions, lookups, seen, cert, roles, sts, pod, readyReplicas, caches,
                 checkQueued, checkAt, worker>>

\* An OIDC secret, the ingress configuration or the TLS profile of the
\* cluster breaks or is repaired: no event.
ChangeUnwatched ==
  /\ Disturb /\ cr # NoObj
  /\ lookups' = ~lookups
  /\ UNCHANGED <<now, cr, conditions, storage, seen, cert, roles, sts, pod, readyReplicas, caches,
                 queues, worker>>

DeleteCR ==
  /\ Disturb /\ cr # NoObj /\ ~cr.deleting
  /\ \/ /\ cr.finalizer /\ cr' = [cr EXCEPT !.deleting = TRUE]
        /\ queued' = (queued \/ createOrUpdateOnlyPred(cr, cr'))
        /\ UNCHANGED conditions
     \/ ~cr.finalizer /\ cr' = NoObj /\ conditions' = {} /\ UNCHANGED queued
  /\ checkQueued' = TRUE
  /\ UNCHANGED <<now, cluster, caches, checkAt, worker>>

PodFails ==
  /\ Disturb /\ pod # NoObj /\ pod.status = "Ready"
  /\ \E s \in {"Running", "Failed"} : pod' = [pod EXCEPT !.status = s]
  /\ UNCHANGED <<now, cr, conditions, inputs, cert, roles, sts, readyReplicas, caches, queues,
                 worker>>

Restart ==
  /\ Disturb
  /\ Done
  /\ cSts' = sts /\ cReplicas' = readyReplicas /\ cPod' = pod
  /\ queued' = TRUE /\ checkQueued' = TRUE /\ checkAt' = Never
  /\ UNCHANGED <<now, cr, conditions, cluster>>

\* Operator and cluster are done with their work before time advances.
CachesFresh == <<cSts, cReplicas, cPod>> = <<sts, readyReplicas, pod>>
PodSettled  == sts # NoObj => pod # NoObj /\ pod.cert = sts /\ pod.status = "Ready" /\ readyReplicas = 1
Idle == pc = "idle" /\ ~queued /\ ~checkQueued /\ now < checkAt /\ CachesFresh /\ PodSettled

Tick ==
  /\ now < MaxTime /\ Idle /\ now' = now + 1
  /\ UNCHANGED <<cr, conditions, cluster, caches, queues, worker, disturbances>>

----------------------------------------------------------------------------
Pass   == Finalize \/ deleteObjects \/ RemoveFinalizer \/ Skip \/ Reconcile
            \/ CreateOrRotateCertificates \/ createOrUpdate \/ HandleTempoMonolithicStatus
World  == RollPod \/ PodProgress \/ CountReplicas \/ Collect
Events == SyncStatefulSet \/ SyncPod

Next ==
  \/ Pass \/ CheckCertExpiry \/ World \/ Events
  \/ Edit \/ EditStorageSecret \/ ChangeUnwatched \/ DeleteCR \/ PodFails \/ Restart \/ Tick

\* Workers, informers and the cluster keep going, and time goes on.
Fairness == /\ WF_vars(Pass) /\ WF_vars(CheckCertExpiry) /\ WF_vars(RollPod)
            /\ WF_vars(PodProgress) /\ WF_vars(CountReplicas)
            /\ WF_vars(SyncStatefulSet) /\ WF_vars(SyncPod)
            /\ WF_vars(Collect) /\ WF_vars(Tick)

Spec == Init /\ [][Next]_vars /\ Fairness

----------------------------------------------------------------------------
(* Properties.                                                             *)

\* Every variable has its type.
TypeOK ==
  /\ now \in Times /\ cr \in CRs \cup {NoObj} /\ conditions \subseteq Types
  /\ storage \in BOOLEAN /\ lookups \in BOOLEAN /\ seen \in BOOLEAN
  /\ roles \subseteq ClusterScoped
  /\ cert \in Times \cup {NoObj} /\ sts \in Times \cup {NoObj} /\ cSts \in Times \cup {NoObj}
  /\ pod \in Pods \cup {NoObj} /\ cPod \in Pods \cup {NoObj}
  /\ readyReplicas \in 0..1 /\ cReplicas \in 0..1
  /\ queued \in BOOLEAN /\ checkQueued \in BOOLEAN /\ checkAt \in 0..Never
  /\ pc \in {"idle", "finalize", "certs", "objects", "status"} /\ (pc = "idle" <=> copy = NoObj)
  /\ copy \in CRs \cup {NoObj} /\ owned \subseteq ClusterScoped /\ hash \in Times \cup {NoObj}
  /\ err \in {"none", "config", "other"}
  /\ disturbances \in 0..MaxDisturbances

Managed == cr # NoObj /\ ~cr.deleting /\ cr.management # "Unmanaged"

PodExpired == pod # NoObj /\ now > pod.cert + Validity

\* An operator that is done with its work leaves no pod of a CR with
\* management: Managed with an expired certificate, however often it was
\* restarted, failed, or found the CR unmanaged, unless the condition
\* ConfigurationError says that the objects are not kept up.
ServesStated == Idle /\ Checked /\ "ConfigurationError" \notin conditions => ~PodExpired

\* "Default: Managed": the same for every CR that is not unmanaged.
ServesValid == Idle /\ Managed /\ "ConfigurationError" \notin conditions => ~PodExpired

phase == IF cr = NoObj THEN "gone"
         ELSE IF ~cr.finalizer THEN "new" ELSE IF cr.deleting THEN "going" ELSE "held"

L == INSTANCE StackLifecycle
       WITH Objects <- {"certificate", "statefulset"} \cup ClusterScoped, External <- ClusterScoped,
            managed <- cr # NoObj /\ cr.management # "Unmanaged",
            existing <- (IF cert = NoObj THEN {} ELSE {"certificate"})
              \cup (IF sts = NoObj THEN {} ELSE {"statefulset"})
              \cup roles

\* StackLifecycle is what users see: nothing is created before the finalizer
\* is there; also when the CR is deleted in the middle of a pass, edited
\* while it is finalized, or finalized in part before a failure, the
\* cluster-scoped objects of a managed CR go before it; and a deleted CR goes
\* in the end.  The listings have caught up with what was created (FreshLists).
Lifecycle == L!Spec

Truth == IF ConfigurationErrors THEN {"ConfigurationError"} ELSE {"Ready"}

\* When failures, edits and restarts are over, the conditions say what is the
\* case: Ready with a pod that is ready, an error for what a pass cannot use.
\* Only what no watch covers can have changed since the last pass looked.
ConditionsSettle == <>[](Managed /\ (lookups = seen \/ ~storage) => conditions = Truth)

(***************************************************************************)
(* Expectations the code does not meet; the README explains each.          *)
(***************************************************************************)

\* A pass is made also when something no watch covers is broken or repaired.
ConditionsFollow == <>[](Managed => conditions = Truth)

\* No expired certificate is served while everything a pass needs is there.
ServesWhenRepaired == Idle /\ Checked /\ ~ConfigurationErrors => ~PodExpired
=============================================================================
