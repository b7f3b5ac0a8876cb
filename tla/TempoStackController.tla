------------------------ MODULE TempoStackController ------------------------
(***************************************************************************)
(* The TempoStack controller: one TempoStack custom resource (CR), the     *)
(* Kubernetes objects the operator builds for it, the informer caches the  *)
(* operator reads, its work queue, and Reconcile itself, one step per      *)
(* request it sends to the API server.                                     *)
(*                                                                         *)
(*   internal/controller/tempo/tempostack_controller.go                    *)
(*   internal/controller/tempo/tempostack_create_or_update.go              *)
(*   internal/controller/tempo/common.go                                   *)
(*   internal/controller/tempo/finalizer.go                                *)
(*                                                                         *)
(* Every write goes to the API server (cr, store, secret); every read      *)
(* comes from a cache that follows the API server through one watch stream *)
(* per kind, so a read may be older than the reconciler's own last write.  *)
(*                                                                         *)
(* Simplifications: one CR, created once; the content of an object is one  *)
(* value; the upgrade, the certificates and the pod status, which have     *)
(* modules of their own, appear here by their outcome only; all kinds are  *)
(* listed in one step; of the terminal errors only the one of the storage  *)
(* secret, which is watched, is told apart (TempoMonolithic has the rest).  *)
(***************************************************************************)
EXTENDS Naturals, Sequences, FiniteSets

CONSTANTS
  Objects,        \* names of the objects the operator may build
  ClusterScoped,  \* ClusterRoles and ClusterRoleBindings: no owner reference
  Listed,         \* kinds findObjectsOwnedByTempoOperator lists
  Owns,           \* kinds SetupWithManager watches with Owns(...)
  Workloads,      \* Deployments and StatefulSets, watched with their status
  Versioned,      \* kinds whose metadata.generation the API server maintains
  Specs,          \* contents of the spec and of the annotations of the CR
  Secrets,        \* contents of the storage secret (absence included)
  ValidSecrets,   \* those GetStorageParamsForTempoStack accepts
  Values,         \* contents of an object
  FixedPart,      \* the immutable fields of a content, [Values -> ...]
  NoVal,          \* "this object is not built"
  Want,           \* what BuildAll builds, [Specs \X Secrets -> [Objects -> ...]]
  BuildOrder,     \* the order in which BuildAll emits objects
  Deletable,      \* objects third parties delete in this instance
  Editable,       \* objects third parties edit in this instance
  NoCR, NoObj,    \* absence of the CR, of an object
  RVs,            \* bound: resourceVersions of the CR wrap around here
  MaxUIDs,        \* bound: incarnations of an object
  MaxChanges,     \* bound: changes made by users and third parties
  MaxFaults,      \* bound: failed requests and operator restarts
  MaxRelists      \* bound: broken watches that are re-listed

Managements == {"Managed", "Unmanaged"}
Conditions  == {"none", "components", "ConfigurationError", "Failed"}

CRs  == [spec : Specs, managementState : Managements, finalizer : BOOLEAN,
         deleting : BOOLEAN, condition : Conditions, rv : 0..RVs-1]
Objs == [uid : Nat, val : Values]

ASSUME ObjectsAssumption ==
  /\ ClusterScoped \subseteq Objects /\ Listed \subseteq Objects
  /\ Owns \subseteq Objects /\ Versioned \subseteq Objects
  /\ Workloads \subseteq Owns
  /\ Deletable \subseteq Objects /\ Editable \subseteq Objects
  /\ BuildOrder \in Seq(Objects)

ASSUME OrderAssumption == \A o \in Objects : \E i \in DOMAIN BuildOrder : BuildOrder[i] = o

ASSUME ContentAssumption ==
  /\ ValidSecrets \subseteq Secrets
  /\ NoVal \notin Values
  /\ Want \in [Specs \X Secrets -> [Objects -> Values \cup {NoVal}]]

ASSUME AbsenceAssumption == NoCR \notin CRs /\ NoObj \notin Objs

ASSUME BoundsAssumption ==
  /\ RVs \in Nat \ {0} /\ MaxUIDs \in Nat
  /\ MaxChanges \in Nat /\ MaxFaults \in Nat /\ MaxRelists \in Nat

VARIABLES
  \* API server
  cr,           \* the TempoStack, or NoCR
  store,        \* the other objects, by name
  secret,       \* content of the storage secret
  uids,         \* UID of the latest incarnation of each object
  \* watch streams and informer caches
  crWatch, crCache, watch, cache, secretWatch, secretCache,
  \* controller-runtime
  queued,       \* the request of this CR is in the work queue
  \* the worker that runs Reconcile
  pc,           \* what Reconcile does next
  tempo,        \* its copy of the CR
  desired,      \* contents BuildAll computed
  todo,         \* managed objects still to be created or updated
  owned,        \* objects still to be pruned: pairs <<name, uid>>
  errs,         \* some request of this pass failed
  outcome,      \* error of this pass: none, ConfigurationError, other
  \* bounds
  changes, faults, relists

clusterVars == <<cr, store, secret, uids>>
crStream    == <<crWatch, crCache>>
objStream   == <<watch, cache>>
secStream   == <<secretWatch, secretCache>>
worker      == <<pc, tempo, desired, todo, owned, errs, outcome>>
bounds      == <<changes, faults, relists>>
vars == <<clusterVars, crStream, objStream, secStream, queued, worker, bounds>>

NothingDesired == [o \in Objects |-> NoVal]

----------------------------------------------------------------------------
(* The API server: every write is also published on the watch stream.      *)

WriteCR(c)     == cr' = c /\ crWatch' = Append(crWatch, c)
WriteObj(o, x) == /\ store' = [store EXCEPT ![o] = x]
                  /\ watch' = [watch EXCEPT ![o] = Append(@, x)]

NextUID(o) == uids[o] + 1
Bumped(c)  == [c EXCEPT !.rv = (@ + 1) % RVs]

\* An update carries the resourceVersion of the copy it was computed from; it
\* is accepted only if that copy is the current version.
Current(t) == cr # NoCR /\ t = cr

----------------------------------------------------------------------------
(* Users, third parties and the garbage collector.                         *)

Change == changes < MaxChanges /\ changes' = changes + 1

\* The user edits the spec of the CR.
UserSpec(s) ==
  /\ Change
  /\ cr # NoCR /\ cr.spec # s
  /\ WriteCR(Bumped([cr EXCEPT !.spec = s]))
  /\ UNCHANGED <<store, secret, uids, crCache, objStream, secStream, queued,
                 worker, faults, relists>>

\* The user changes the management state of the CR.
UserManage(m) ==
  /\ Change
  /\ cr # NoCR /\ cr.managementState # m
  /\ WriteCR(Bumped([cr EXCEPT !.managementState = m]))
  /\ UNCHANGED <<store, secret, uids, crCache, objStream, secStream, queued,
                 worker, faults, relists>>

\* The user deletes the CR: it stays, marked, while it has a finalizer.
UserDelete ==
  /\ Change
  /\ cr # NoCR /\ ~cr.deleting
  /\ IF cr.finalizer THEN WriteCR(Bumped([cr EXCEPT !.deleting = TRUE]))
                     ELSE WriteCR(NoCR)
  /\ UNCHANGED <<store, secret, uids, crCache, objStream, secStream, queued,
                 worker, faults, relists>>

\* Somebody creates, edits or deletes the storage secret.
SecretChange(s) ==
  /\ Change
  /\ secret # s
  /\ secret' = s /\ secretWatch' = Append(secretWatch, s)
  /\ UNCHANGED <<cr, store, uids, crStream, objStream, secretCache, queued,
                 worker, faults, relists>>

\* A third party deletes an object of the operator ...
ExternalDelete(o) ==
  /\ Change
  /\ o \in Deletable /\ store[o] # NoObj
  /\ WriteObj(o, NoObj)
  /\ UNCHANGED <<cr, secret, uids, crStream, cache, secStream, queued, worker,
                 faults, relists>>

\* ... or edits it (the API server rejects an edit of immutable fields).
ExternalEdit(o, v) ==
  /\ Change
  /\ o \in Editable /\ store[o] # NoObj
  /\ store[o].val # v /\ FixedPart[store[o].val] = FixedPart[v]
  /\ WriteObj(o, [store[o] EXCEPT !.val = v])
  /\ UNCHANGED <<cr, secret, uids, crStream, cache, secStream, queued, worker,
                 faults, relists>>

\* Once the CR is gone, objects that name it as their owner are collected.
GarbageCollect(o) ==
  /\ cr = NoCR
  /\ o \notin ClusterScoped /\ store[o] # NoObj
  /\ WriteObj(o, NoObj)
  /\ UNCHANGED <<cr, secret, uids, crStream, cache, secStream, queued, worker,
                 bounds>>

----------------------------------------------------------------------------
(* Informers: a watch event updates the cache and may enqueue a request.   *)

\* Mutant: the predicate forgets the deletion timestamp.
specChangesOnlyPred(old, new) ==
  /\ new # NoCR
  /\ old = NoCR \/ old.spec # new.spec \/ old.managementState # new.managementState

\* createOrUpdateOnlyPred: the generation moves with the spec, of which the
\* annotations are a part here.
createOrUpdateOnlyPred(old, new) ==
  /\ new # NoCR
  /\ \/ old = NoCR
     \/ old.spec # new.spec \/ old.managementState # new.managementState
     \/ new.deleting

\* Mutant: the predicate ignores deletions.
updateOnlyPred(o, old, new) ==
  old # NoObj /\ new # NoObj /\ o \in Versioned /\ old.val # new.val

\* updateOrDeleteOnlyPred: generation changes and confirmed deletions.
updateOrDeleteOnlyPred(o, old, new) ==
  /\ old # NoObj
  /\ \/ new = NoObj
     \/ o \in Versioned /\ old.val # new.val

\* The owner of an object is found through its owner reference, which
\* SetControllerReference puts on namespaced objects only.
isNamespaceScoped(o) == o \notin ClusterScoped

OwnedEvent(o, old, new) ==
  o \in Owns /\ isNamespaceScoped(o) /\ updateOrDeleteOnlyPred(o, old, new)

DeliverCR ==
  /\ crWatch # <<>>
  /\ crCache' = Head(crWatch) /\ crWatch' = Tail(crWatch)
  /\ queued' = (queued \/ createOrUpdateOnlyPred(crCache, Head(crWatch)))
  /\ UNCHANGED <<clusterVars, objStream, secStream, worker, bounds>>

Deliver(o) ==
  /\ watch[o] # <<>>
  /\ cache' = [cache EXCEPT ![o] = Head(watch[o])]
  /\ watch' = [watch EXCEPT ![o] = Tail(@)]
  /\ queued' = (queued \/ OwnedEvent(o, cache[o], Head(watch[o])))
  /\ UNCHANGED <<clusterVars, crStream, secStream, worker, bounds>>

\* findTempoStackForStorageSecret: the CRs, as cached, that name the secret.
DeliverSecret ==
  /\ secretWatch # <<>>
  /\ secretCache' = Head(secretWatch) /\ secretWatch' = Tail(secretWatch)
  /\ queued' = (queued \/ crCache # NoCR)
  /\ UNCHANGED <<clusterVars, crStream, objStream, worker, bounds>>

\* updateOrDeleteWithStatusPred: a new status of a workload is an event too.
\* The status itself is not part of this model.
WorkloadStatus(o) ==
  /\ Change
  /\ o \in Workloads /\ cache[o] # NoObj /\ store[o] # NoObj
  /\ queued' = TRUE
  /\ UNCHANGED <<clusterVars, crStream, objStream, secStream, worker, faults, relists>>

\* The watch of o breaks and is re-listed: intermediate states are skipped,
\* and a deletion is only inferred (DeleteStateUnknown), which the predicate
\* drops.
Relist(o) ==
  /\ relists < MaxRelists /\ relists' = relists + 1
  /\ watch[o] # <<>>
  /\ cache' = [cache EXCEPT ![o] = store[o]]
  /\ watch' = [watch EXCEPT ![o] = <<>>]
  /\ queued' = (queued \/ (store[o] # NoObj /\ OwnedEvent(o, cache[o], store[o])))
  /\ UNCHANGED <<clusterVars, crStream, secStream, worker, changes, faults>>

----------------------------------------------------------------------------
(* The operator process.                                                   *)

Fault == faults < MaxFaults /\ faults' = faults + 1

\* The locals of a worker that is not running Reconcile.
Release ==
  /\ pc' = "idle" /\ tempo' = NoCR /\ desired' = NothingDesired
  /\ todo' = {} /\ owned' = {} /\ errs' = FALSE /\ outcome' = "ok"

\* Reconcile returns nil or a TerminalError ...
Return  == Release /\ UNCHANGED queued
\* ... or an error: controller-runtime puts the request back.
Requeue == Release /\ queued' = TRUE

\* The operator restarts: it lists everything, and each CR it finds is a
\* create event.
Restart ==
  /\ Fault
  /\ Release
  /\ crCache' = cr /\ crWatch' = <<>>
  /\ cache' = store /\ watch' = [o \in Objects |-> <<>>]
  /\ secretCache' = secret /\ secretWatch' = <<>>
  /\ queued' = (cr # NoCR)
  /\ UNCHANGED <<clusterVars, changes, relists>>

----------------------------------------------------------------------------
(* Reconcile.                                                              *)

\* Mutant: the finalizer is never registered.
neverNeedsFinalizer(t) == FALSE

\* Mutant: cluster-scoped objects are deleted for unmanaged CRs only.
skipFinalizeManaged(t) == t.managementState = "Managed"

needsFinalizer(t) == ~t.finalizer
skipUnmanaged(t)  == t.managementState # "Managed"
skipFinalize(t)   == t.managementState = "Unmanaged"

\* Where Reconcile continues once the finalizer is registered.
AfterFinalizer(t) == IF skipUnmanaged(t) THEN "idle" ELSE "createOrUpdate"

\* findClusterRoleObjects: what finalize deletes, as cached.
findClusterRoleObjects ==
  {<<o, cache[o].uid>> : o \in {p \in ClusterScoped : cache[p] # NoObj}}

\* findObjectsOwnedByTempoOperator: the listed kinds, as cached.
findObjectsOwnedByTempoOperator ==
  {<<o, cache[o].uid>> : o \in {p \in Listed : cache[p] # NoObj}}

\* A worker takes the request and reads the CR from the cache.
StartReconcile ==
  /\ pc = "idle" /\ queued
  /\ queued' = FALSE
  /\ LET t == crCache
         next == IF t = NoCR THEN "idle"
                 ELSE IF ~t.deleting
                 THEN IF needsFinalizer(t) THEN "addFinalizer" ELSE AfterFinalizer(t)
                 ELSE IF t.finalizer THEN "finalize" ELSE "idle"
     IN /\ pc' = next
        /\ tempo' = IF next = "idle" THEN NoCR ELSE t
        /\ owned' = IF next = "finalize" /\ ~skipFinalize(t)
                    THEN findClusterRoleObjects ELSE {}
  /\ UNCHANGED <<clusterVars, crStream, objStream, secStream, desired, todo,
                 errs, outcome, bounds>>

AddFinalizer ==
  /\ pc = "addFinalizer"
  /\ UNCHANGED <<store, secret, uids, crCache, objStream, secStream, changes, relists>>
  /\ \/ /\ Current(tempo)
        /\ LET t == Bumped([cr EXCEPT !.finalizer = TRUE])
           IN /\ WriteCR(t)
              /\ \/ /\ AfterFinalizer(t) = "idle" /\ Return
                 \/ /\ AfterFinalizer(t) # "idle"
                    /\ pc' = AfterFinalizer(t) /\ tempo' = t
                    /\ UNCHANGED <<queued, desired, todo, owned, errs, outcome>>
        /\ UNCHANGED faults
     \/ /\ ~Current(tempo) /\ Requeue /\ UNCHANGED <<cr, crWatch, faults>>
     \/ /\ Fault /\ Requeue /\ UNCHANGED <<cr, crWatch>>

Fail(o) == pc' = "status" /\ outcome' = o

\* Mutant: objects of disabled features are emitted too.
allObjects(want) == DOMAIN BuildOrder

\* What BuildAll returns: positions in its order.
managedObjects(want) == {i \in DOMAIN BuildOrder : want[BuildOrder[i]] # NoVal}

\* createOrUpdate, up to the call of reconcileManagedObjects.
createOrUpdate ==
  /\ pc = "createOrUpdate"
  /\ UNCHANGED <<clusterVars, crStream, objStream, secStream, queued, tempo,
                 errs, changes, relists>>
  /\ \/ /\ secretCache \in ValidSecrets
        /\ desired' = Want[<<tempo.spec, secretCache>>]
        /\ todo' = managedObjects(desired')
        /\ owned' = findObjectsOwnedByTempoOperator
        /\ pc' = "apply" /\ UNCHANGED <<outcome, faults>>
     \/ /\ secretCache \notin ValidSecrets
        /\ Fail("config") /\ UNCHANGED <<desired, todo, owned, faults>>
     \/ /\ Fault /\ Fail("failed") /\ UNCHANGED <<desired, todo, owned>>

----------------------------------------------------------------------------
(* reconcileManagedObjects.                                                *)

\* mutateStatefulSet and its siblings: a change of an immutable field.
ImmutableErr(old, new) == FixedPart[old] # FixedPart[new]

\* Mutant: what is still managed stays on the list of objects to prune.
keepsOwned(o, uid) == UNCHANGED owned

\* This object is still managed: remove its UID from the objects to prune.
StillManaged(o, uid) == owned' = owned \ {<<o, uid>>}

\* The cache of o shows what the API server holds.
UpToDate(o) == watch[o] = <<>>

\* CreateOrUpdate of one object: Get from the cache, mutate, write.
CreateObject(o) ==
  /\ cache[o] = NoObj /\ store[o] = NoObj /\ uids[o] < MaxUIDs
  /\ WriteObj(o, [uid |-> NextUID(o), val |-> desired[o]])
  /\ uids' = [uids EXCEPT ![o] = NextUID(o)]
  /\ StillManaged(o, NextUID(o))
  /\ UNCHANGED <<errs, faults>>

UnchangedObject(o) ==
  /\ cache[o] # NoObj /\ cache[o].val = desired[o]
  /\ StillManaged(o, cache[o].uid)
  /\ UNCHANGED <<store, watch, uids, errs, faults>>

\* The mutate functions merge the desired content into the present one; what
\* the merge keeps (others' labels and annotations) is not part of a content.
UpdateObject(o) ==
  /\ cache[o] # NoObj /\ cache[o].val # desired[o]
  /\ ~ImmutableErr(cache[o].val, desired[o])
  /\ UpToDate(o)
  /\ WriteObj(o, [store[o] EXCEPT !.val = desired[o]])
  /\ StillManaged(o, cache[o].uid)
  /\ UNCHANGED <<uids, errs, faults>>

\* The object will be deleted, and re-created on next reconcile.
DeleteImmutable(o) ==
  /\ cache[o] # NoObj /\ ImmutableErr(cache[o].val, desired[o])
  /\ store[o] # NoObj
  /\ WriteObj(o, NoObj)
  /\ StillManaged(o, cache[o].uid)
  /\ UNCHANGED <<uids, errs, faults>>

\* AlreadyExists, NotFound, or a conflict that outlives the retries.
RejectedWrite(o) ==
  /\ \/ cache[o] = NoObj /\ store[o] # NoObj
     \/ /\ cache[o] # NoObj /\ cache[o].val # desired[o]
        /\ IF ImmutableErr(cache[o].val, desired[o]) THEN store[o] = NoObj
                                                     ELSE ~UpToDate(o)
  /\ errs' = TRUE
  /\ UNCHANGED <<store, watch, uids, owned, faults>>

FailedWrite(o) ==
  /\ Fault /\ errs' = TRUE
  /\ UNCHANGED <<store, watch, uids, owned>>

reconcileObject ==
  /\ pc = "apply"
  /\ \E i \in todo :
       /\ \A j \in todo : i <= j
       /\ todo' = todo \ {i}
       /\ LET o == BuildOrder[i]
          IN \/ CreateObject(o) \/ UnchangedObject(o) \/ UpdateObject(o)
             \/ DeleteImmutable(o) \/ RejectedWrite(o) \/ FailedWrite(o)
  /\ UNCHANGED <<cr, secret, crStream, cache, secStream, queued, pc, tempo,
                 desired, outcome, changes, relists>>

\* Errors of the first loop end reconcileManagedObjects before it prunes.
AfterApply ==
  /\ pc = "apply" /\ todo = {}
  /\ \/ errs /\ Fail("failed")
     \/ ~errs /\ pc' = "prune" /\ UNCHANGED outcome
  /\ UNCHANGED <<clusterVars, crStream, objStream, secStream, queued, tempo,
                 desired, todo, owned, errs, bounds>>

\* Delete names an object; it carries no UID.
DeleteOwned(o) ==
  \/ /\ store[o] # NoObj /\ WriteObj(o, NoObj) /\ UNCHANGED <<errs, faults>>
  \/ /\ store[o] = NoObj /\ errs' = TRUE /\ UNCHANGED <<store, watch, faults>>
  \/ /\ Fault /\ errs' = TRUE /\ UNCHANGED <<store, watch>>

pruneObject ==
  /\ pc = "prune"
  /\ \E p \in owned : DeleteOwned(p[1]) /\ owned' = owned \ {p}
  /\ UNCHANGED <<cr, secret, uids, crStream, cache, secStream, queued, pc,
                 tempo, desired, todo, outcome, changes, relists>>

AfterPrune ==
  /\ pc = "prune" /\ owned = {}
  /\ Fail(IF errs THEN "failed" ELSE "ok")
  /\ UNCHANGED <<clusterVars, crStream, objStream, secStream, queued, tempo,
                 desired, todo, owned, errs, bounds>>

----------------------------------------------------------------------------
(* handleReconcileStatus and finalize.                                     *)

ConditionOf(o) == CASE o = "ok"     -> "components"
                    [] o = "config" -> "ConfigurationError"
                    [] o = "failed" -> "Failed"

\* Mutant: every error is terminal.
neverRetried(o) == FALSE

\* A ConfigurationError is terminal, any other error is retried.
Retried(o) == o = "failed"

\* Refresh writes the status from the reconciler's copy; on a conflict it
\* reads the CR again, from the cache.
StatusAccepted ==
  Current(tempo) \/ Current(crCache)

handleReconcileStatus ==
  /\ pc = "status"
  /\ UNCHANGED <<store, secret, uids, crCache, objStream, secStream, changes, relists>>
  /\ \/ /\ StatusAccepted
        /\ \/ /\ cr.condition # ConditionOf(outcome)
              /\ WriteCR(Bumped([cr EXCEPT !.condition = ConditionOf(outcome)]))
           \/ /\ cr.condition = ConditionOf(outcome) /\ UNCHANGED <<cr, crWatch>>
        /\ \/ Retried(outcome) /\ Requeue
           \/ ~Retried(outcome) /\ Return
        /\ UNCHANGED faults
     \/ /\ ~StatusAccepted /\ Requeue /\ UNCHANGED <<cr, crWatch, faults>>
     \/ /\ Fault /\ Requeue /\ UNCHANGED <<cr, crWatch>>

\* deleteObjects deletes every cluster-scoped object that finalize found.
finalizeObject ==
  /\ pc = "finalize"
  /\ \E p \in owned : DeleteOwned(p[1]) /\ owned' = owned \ {p}
  /\ UNCHANGED <<cr, secret, uids, crStream, cache, secStream, queued, pc,
                 tempo, desired, todo, outcome, changes, relists>>

\* All deleted: remove the finalizer, which lets the CR go. Otherwise retry.
RemoveFinalizer ==
  /\ pc = "finalize" /\ owned = {}
  /\ UNCHANGED <<store, secret, uids, crCache, objStream, secStream, changes, relists>>
  /\ \/ /\ ~errs /\ Current(tempo)
        /\ WriteCR(NoCR) /\ Return /\ UNCHANGED faults
     \/ /\ errs \/ ~Current(tempo)
        /\ Requeue /\ UNCHANGED <<cr, crWatch, faults>>
     \/ /\ ~errs /\ Fault /\ Requeue /\ UNCHANGED <<cr, crWatch>>

----------------------------------------------------------------------------
\* A CR as the user creates it; the CRD defaults the management state.
NewCR(s) == [spec |-> s, managementState |-> "Managed", finalizer |-> FALSE,
             deleting |-> FALSE, condition |-> "none", rv |-> 0]

Init ==
  /\ cr \in {NewCR(s) : s \in Specs}
  /\ store = [o \in Objects |-> NoObj]
  /\ secret \in Secrets
  /\ uids = [o \in Objects |-> 0]
  /\ crWatch = <<cr>> /\ crCache = NoCR
  /\ watch = [o \in Objects |-> <<>>] /\ cache = store
  /\ secretWatch = <<>> /\ secretCache = secret
  /\ queued = FALSE
  /\ pc = "idle" /\ tempo = NoCR /\ desired = NothingDesired
  /\ todo = {} /\ owned = {} /\ errs = FALSE /\ outcome = "ok"
  /\ changes = 0 /\ faults = 0 /\ relists = 0

Environment ==
  \/ \E s \in Specs : UserSpec(s)
  \/ \E m \in Managements : UserManage(m)
  \/ UserDelete
  \/ \E s \in Secrets : SecretChange(s)
  \/ \E o \in Objects : ExternalDelete(o)
  \/ \E o \in Objects, v \in Values : ExternalEdit(o, v)
  \/ \E o \in Objects : WorkloadStatus(o)

Reconcile ==
  \/ StartReconcile \/ AddFinalizer \/ createOrUpdate
  \/ reconcileObject \/ AfterApply \/ pruneObject \/ AfterPrune
  \/ handleReconcileStatus \/ finalizeObject \/ RemoveFinalizer

Next ==
  \/ Environment
  \/ \E o \in Objects : GarbageCollect(o) \/ Deliver(o) \/ Relist(o)
  \/ DeliverCR \/ DeliverSecret
  \/ Restart
  \/ Reconcile

Spec == Init /\ [][Next]_vars

\* The controller's worker and the informers keep running, and so does the
\* garbage collector; users and faults owe nothing.
Fairness ==
  /\ WF_vars(Reconcile)
  /\ WF_vars(DeliverCR) /\ WF_vars(DeliverSecret)
  /\ \A o \in Objects : WF_vars(Deliver(o)) /\ WF_vars(GarbageCollect(o))

FairSpec == Spec /\ Fairness

\* The controller when every listing is taken from caches that have caught up
\* with the API server: what the guarantees about the finalizer, and those
\* about what pruning leaves in the end, rest on.
ListsFresh ==
  pc' \in {"apply", "finalize"} /\ pc # pc' => \A o \in Objects : UpToDate(o)
FreshSpec     == Init /\ [][Next /\ ListsFresh]_vars
FreshFairSpec == FreshSpec /\ Fairness

----------------------------------------------------------------------------
(* Safety.                                                                 *)

Versions == CRs \cup {NoCR}

\* Every variable has its type.
TypeOK ==
  /\ cr \in Versions /\ crCache \in Versions /\ crWatch \in Seq(Versions)
  /\ store \in [Objects -> Objs \cup {NoObj}]
  /\ cache \in [Objects -> Objs \cup {NoObj}]
  /\ watch \in [Objects -> Seq(Objs \cup {NoObj})]
  /\ uids \in [Objects -> Nat]
  /\ secret \in Secrets /\ secretCache \in Secrets /\ secretWatch \in Seq(Secrets)
  /\ queued \in BOOLEAN
  /\ pc \in {"idle", "addFinalizer", "createOrUpdate", "apply", "prune",
             "status", "finalize"}
  /\ tempo \in Versions /\ (pc # "idle" => tempo # NoCR)
  /\ desired \in [Objects -> Values \cup {NoVal}]
  /\ todo \subseteq DOMAIN BuildOrder /\ \A i \in todo : desired[BuildOrder[i]] # NoVal
  /\ owned \subseteq Objects \X Nat
  /\ errs \in BOOLEAN /\ outcome \in {"ok", "config", "failed"}
  /\ changes \in Nat /\ faults \in Nat /\ relists \in Nat

\* While Reconcile works on the objects of the CR, on a copy of the CR that
\* may be old, the CR still exists and carries the finalizer: a pass never
\* creates objects for a TempoStack that is already gone.
WriterHasFinalizer ==
  pc \in {"createOrUpdate", "apply", "prune", "status"} => cr # NoCR /\ cr.finalizer

\* A cluster-scoped object exists only under a CR with the finalizer, or was
\* left behind by a finalized one: none is created before the finalizer.
FinalizerFirst ==
  \A o \in ClusterScoped : store[o] # NoObj /\ cr # NoCR => cr.finalizer

\* finalize: when a managed CR goes, no cluster-scoped object stays behind.
OrphanFree ==
  [][cr # NoCR /\ cr' = NoCR /\ cr.managementState = "Managed"
       => \A o \in ClusterScoped : store'[o] = NoObj]_vars

Incarnation(x, uid) == x # NoObj /\ x.uid = uid

\* reconcileManagedObjects, from a listing that may be old: the incarnation of
\* an object that was listed is pruned only if the object is not managed any
\* more. The one managed object that prune may delete, since Delete carries
\* no UID, is a later incarnation than the one that was listed.
PrunesOnlyUnmanaged ==
  [][\A p \in owned : pruneObject /\ owned' = owned \ {p} /\ Incarnation(store[p[1]], p[2])
                       /\ store'[p[1]] = NoObj
       => desired[p[1]] = NoVal]_vars

----------------------------------------------------------------------------
(* Why they hold: an inductive invariant.                                  *)

Held      == cr # NoCR /\ cr.finalizer
Armed(v)  == v # NoCR /\ v.finalizer /\ ~v.deleting
Dying(v)  == v # NoCR /\ v.deleting
Marked(v) == v = NoCR \/ v.deleting

\* The cache and the pending events of the CR end in its current version; a
\* version with the finalizer and no deletion timestamp is only seen while
\* the finalizer is still there; deletion timestamps never go away.
CRStreamInv ==
  /\ crWatch = <<>> => crCache = cr
  /\ crWatch # <<>> => crWatch[Len(crWatch)] = cr
  /\ Armed(crCache) => Held
  /\ \A i \in 1..Len(crWatch) : Armed(crWatch[i]) => Held
  /\ Dying(crCache) => \A i \in 1..Len(crWatch) : Marked(crWatch[i])
  /\ \A i, j \in 1..Len(crWatch) : i < j /\ Dying(crWatch[i]) => Marked(crWatch[j])

\* The cache and the pending events of each object end in its current state.
ObjStreamInv ==
  \A o \in Objects : /\ watch[o] = <<>> => cache[o] = store[o]
                     /\ watch[o] # <<>> => watch[o][Len(watch[o])] = store[o]

\* A worker that finalizes has seen the deletion timestamp, and so will
\* everybody who reads the cache after it.
FinalizerSeesDeletion ==
  pc = "finalize" => /\ Marked(crCache)
                     /\ \A i \in 1..Len(crWatch) : Marked(crWatch[i])

IInv == /\ CRStreamInv /\ ObjStreamInv /\ FinalizerSeesDeletion
        /\ WriterHasFinalizer /\ FinalizerFirst

\* With fresh listings: what finalize has not deleted is still on its list.
FinalizeCovers ==
  pc = "finalize" /\ ~errs /\ tempo.managementState = "Managed" =>
    \A o \in ClusterScoped : store[o] # NoObj => \E p \in owned : p[1] = o

\* A worker that registers or removes the finalizer has read what it needs.
CopyInv ==
  /\ cr # NoCR /\ cr.deleting => cr.finalizer
  /\ pc = "addFinalizer" => ~tempo.finalizer /\ ~tempo.deleting
  /\ pc = "finalize" => tempo.finalizer /\ tempo.deleting

AtLeast(x, uid) == x # NoObj => x.uid >= uid
AtMost(x, uid)  == x # NoObj => x.uid <= uid

\* Incarnations are numbered in the order of their creation, and whoever
\* follows an object sees them in that order.
IncarnationOrder ==
  \A o \in Objects :
    /\ store[o] # NoObj => store[o].uid = uids[o]
    /\ AtMost(cache[o], uids[o])
    /\ \A k \in 1..Len(watch[o]) : AtMost(watch[o][k], uids[o])
    /\ cache[o] # NoObj => \A k \in 1..Len(watch[o]) : AtLeast(watch[o][k], cache[o].uid)
    /\ \A j, k \in 1..Len(watch[o]) :
         j < k /\ watch[o][j] # NoObj => AtLeast(watch[o][k], watch[o][j].uid)

\* Whoever looks at o, now or after the next events, sees nothing older.
Follows(o, uid) ==
  AtLeast(cache[o], uid) /\ \A k \in 1..Len(watch[o]) : AtLeast(watch[o][k], uid)

\* An entry of the list of objects to prune names an object that is not
\* managed, or an incarnation that has been replaced, or the latest one, which
\* the pass will take off the list, or replace, when it comes to the object.
PruneInv ==
  pc \in {"apply", "prune"} /\ (errs => pc = "prune") =>
    \A p \in owned :
      \/ desired[p[1]] = NoVal
      \/ p[2] < uids[p[1]]
      \/ /\ pc = "apply" /\ p[2] = uids[p[1]] /\ Follows(p[1], p[2])
         /\ \E i \in todo : BuildOrder[i] = p[1]

----------------------------------------------------------------------------
(* Liveness.                                                               *)

Active == cr # NoCR /\ ~cr.deleting /\ cr.managementState = "Managed"
Wanted(o) == Want[<<cr.spec, secret>>][o]

Built(o)  == Wanted(o) # NoVal => store[o] # NoObj /\ store[o].val = Wanted(o)
Pruned(o) == Wanted(o) = NoVal => store[o] = NoObj

\* Once users and third parties stop, every object of a managed TempoStack
\* with a valid secret is as BuildAll wants it, and no unmanaged object of a
\* listed kind is left.
Converges ==
  <>[](Active /\ secret \in ValidSecrets =>
         \A o \in Objects : Built(o) /\ (o \in Listed => Pruned(o)))

\* The condition in the status agrees, in the end, with the storage secret.
StatusSettles ==
  <>[](Active => cr.condition = IF secret \in ValidSecrets THEN "components"
                                                         ELSE "ConfigurationError")

----------------------------------------------------------------------------
(* The promise this controller implements.                                 *)

phase == IF cr = NoCR THEN "gone"
         ELSE IF ~cr.finalizer THEN "new" ELSE IF cr.deleting THEN "going" ELSE "held"

L == INSTANCE StackLifecycle
       WITH External <- ClusterScoped, managed <- cr # NoCR /\ cr.managementState = "Managed",
            existing <- {o \in Objects : store[o] # NoObj}

\* StackLifecycle is what users see, whatever is cached, fails or restarts: a
\* CR held by the finalizer before anything is created for it, gone only
\* after its cluster-scoped objects, and gone in the end when it is deleted,
\* with its namespaced objects.
Lifecycle == L!Spec

----------------------------------------------------------------------------
(* Expectations that the code does not meet.                               *)

\* Pruning deletes nothing that the present build wants.
PrunesNothingWanted ==
  [][\A o \in Objects : pruneObject /\ store[o] # NoObj /\ store'[o] = NoObj
       => desired[o] = NoVal]_vars

\* No object that BuildAll does not emit any more stays in the cluster.
NoLeftovers ==
  <>[](Active /\ secret \in ValidSecrets => \A o \in Objects : Pruned(o))
============================================================================
