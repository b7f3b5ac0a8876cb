# Verification of the Tempo operator

TLA+ models of the control logic of the Grafana Tempo operator
(`src/internal`, `src/api`), TLC configurations that check them on small
instances, and TLAPS proofs of what matters most for every instance.

The operator is a set of Kubernetes controllers. A user writes a `TempoStack` or
`TempoMonolithic` custom resource (CR); the operator creates and maintains the
objects of a Tempo deployment for it. All state lives in the Kubernetes API
server. Every read is served by an informer cache that follows the API server
with a delay, every write is one request that may be rejected or fail, and the
process may stop between any two requests. That is where the hard behaviour is,
and what the models keep.

## 1. Inventory

| Part | State | Operations | Hard behaviour | What makes it correct |
|---|---|---|---|---|
| TempoStack controller (`tempostack_controller.go`, `tempostack_create_or_update.go`, `common.go`, `finalizer.go`, `manifests/mutate.go`) | CR, owned objects, caches, work queue | Reconcile: finalizer, create/update of each object, prune, status | stale caches, events dropped by predicates, partial failure, deletion during a pass, immutable fields, objects without an owner | objects converge to the spec; nothing is written for a CR that is gone; cluster-scoped objects go with the CR; only unmanaged objects are pruned |
| Certificate rotation (`internal/certrotation`, `certrotation_controller.go`) | signing CA, CA bundle, component certificates, annotation on the CR | build and write everything; periodic check | time, one write of several failing, CA generations that overlap | no certificate expires or outlives its CA; the bundle always trusts what is in use; disturbances are repaired |
| Upgrade (`internal/upgrade`) | version in the CR status, legacy parts of the spec, ingester, volumes, chown job | steps in version order, spec patch, status patch, status refresh | failure between two writes, stale copy of the CR, retries of steps with side effects, operator replaced in mid-pass, downgrades | the version never claims a step not done; volumes are owned before the new image runs; upgrades complete |
| TempoStack status (`internal/status`) | conditions, pod status maps, gauges | list pods per component, choose the condition, update with retry | two informers without order, maps that are no snapshot, stale CR copy | one condition, which agrees with the maps, and with the pods in the end |
| TempoMonolithic controller, status and certificates (`tempomonolithic_controller.go`, `status/monolithic.go`, `certrotation_monolithic_controller.go`, `manifests/monolithic/certificates.go`) | CR, conditions, certificate, StatefulSet and its pod, two caches | a pass (finalizer, finalization, certificates, objects, prune, status), a periodic check | two controllers with different ideas of "managed", a template that has to roll with the certificate, a finalization that gets halfway, terminal errors about things that nobody watches, two informers without order | no pod of a managed CR without a configuration error serves an expired certificate; the conditions end up true; the CR leaves after its cluster-scoped objects |
| Cloud credentials (`manifests/cloudcredentials`) | CredentialsRequest, generated Secret | first phase of createOrUpdate | another operator answers; the mode changes | what the pods mount is there; the request goes when the mode does (it does not) |
| Zone labelling (`tempostack_zone_labeling_controller.go`, `manifestutils/node_placement.go`) | annotation on pods | annotate from node labels | read, then patch by name; nodes are not watched; an init container waits | every scheduled pod starts, with the zone of its node |
| Operator reconciler (`operator_controller.go`, `manifests/operator`, `networkpolicies/operator.go`) | the operator's own policies and monitoring objects | one pass per start | the policies restrict the pod that writes them; errors are logged and not retried | the operator keeps its access (but for two cases); webhooks stay reachable; objects match the gates |
| Webhooks, defaults (`internal/webhooks`, `api`) | none | default, validate | the operator's own writes pass through them, under gates and objects that have changed | accepted CRs deploy, stay writable and can be deleted |
| Storage, tenants, TLS profile (`internal/handlers`, `internal/tlsprofile`) | Secrets and ConfigMaps read, cached base domain, cookie secret | infer the mode, extract parameters | incomplete Secrets, values read back from the last pass | one answer per Secret; sessions survive a pass (not if the read-back fails) |
| Manifests (`internal/manifests`) | none | build objects from a spec | combinations of features | references, mounts and ports resolve; whoever has to connect can, other namespaces only where a port is meant, or known, to be open |
| Commands, metrics, configuration (`cmd`, `crdmetrics`, `envconfig`, `autodetect`, `logging`) | none over time | start-up, output | start-up goes on after errors | only the start-up reconcile is modelled |

The parts meet in `TempoStackReconciler.Reconcile`: read the CR, add or remove
the finalizer, run the upgrade, rotate certificates, create or update and prune
the objects, refresh the status. The certificate controller runs beside it and
talks to it only by annotating the CR, which is an event. `PROJECT.json` lists
what can go wrong at which line ("hazards").

## 2. Modules

`X.tla` models a part; `MCX.tla` gives it small instances; `X_proofs.tla` holds
its theorems. A module keeps one variable per piece of API server state, one per
cache, and the locals of the worker under the names they have in the code; an
action is one request of the worker, or one step of a user, of a third party, of
Kubernetes, or of an informer. Actions that begin with a lower-case letter have
the name of the Go function they model.

**TempoStackController.** `cr`, `store`, `secret` are the API server; `crWatch`,
`watch`, `secretWatch` are the watch streams, delivered one event at a time into
`crCache`, `cache`, `secretCache`, each through the predicate `SetupWithManager`
registers (`createOrUpdateOnlyPred`, `updateOrDeleteOnlyPred`, ...). `pc`,
`tempo`, `desired`, `todo`, `owned`, `errs`, `outcome` are the worker.
`StartReconcile`, `AddFinalizer`, `finalizeObject`, `RemoveFinalizer`,
`createOrUpdate`, `reconcileObject` (one of `CreateObject`, `UnchangedObject`,
`UpdateObject`, `DeleteImmutable`, `RejectedWrite`, `FailedWrite`), `AfterApply`,
`pruneObject`, `AfterPrune` and `handleReconcileStatus` are the pass, request by
request. What `BuildAll` builds is the constant `Want` (its contents are in `Manifests`). Objects differ by what
the code distinguishes: cluster-scoped, listed for pruning, watched, with a
generation, with immutable fields. Upgrade and certificates have modules of their
own, tenants, TLS profile and CCO are in `Deployment`; here the storage secret is
valid or not. The
annotations of the CR are a part of its spec here, because both lead to the same
event.

**CertRotation.** A CA is its name and validity, a bundle is a set of CAs, a
certificate has an issuer, a validity and a flag that its annotations are intact.
Secret data always parses. `BuildAll` reads the caches and computes everything,
`WriteSigner`, `WriteBundle`, `WriteTarget`, `EndPass` store it;
`CheckCertExpiry` is the certificate controller; `Tick` is time, up to
`MaxTime`.

**Upgrade.** Versions are numbers; a step rewrites the spec, deletes the ingester
(0.5.0) or chowns its volumes (0.11.0, with the scale-down, the job and its
polling). `legacy` is what steps still have to rewrite. `PatchSpec` and
`PatchStatus` are the two requests of `Upgrade`; `handleReconcileStatus` ends the
pass with the status refresh that records the version of new CRs. `Restart(v)`
deploys operator version `v`.

**TempoStackStatus.** Pods with phase, readiness and termination; `listComponent`
lists one component after the other; `NewConditions` is the choice of the
condition; `Refresh` writes it and sets the gauges.

**StackLifecycle.** What a user may rely on, without caches, passes or failures: a
CR is "new", "held" by the finalizer, "going" and "gone"; objects are created only
while it is held (or by a pass under way when it is deleted); it leaves after its
cluster-scoped objects, unless it is unmanaged, and a deleted CR does leave, with
everything in its namespace. `TempoStackController` and `TempoMonolithic` implement
it: each instantiates it `WITH` a mapping from the CR and the stored objects, and
states `Lifecycle == L!Spec`, checked as a PROPERTY.

**TempoMonolithic.** The controller, the certificate controller and the status of
one CR together. A pass of a deleted CR is `Finalize` (the listing), `deleteObjects`
(one Delete after the other) and `RemoveFinalizer` (an Update that a conflict or a
failure may refuse); garbage collection (`Collect`) follows it. Any other pass is `Reconcile` or `Skip`,
`CreateOrRotateCertificates`, `createOrUpdate` and `HandleTempoMonolithicStatus`.
`createOrUpdate` ends in a terminal error if the storage secret is broken (`storage`,
which is watched) or if something nobody watches is (`lookups`: OIDC secrets, base
domain, TLS profile); otherwise `reconcileManagedObjects` writes, any of the writes
may fail, and prunes if none did. `CheckCertExpiry` is the other controller, with its timer
`checkAt`; `RollPod`, `PodProgress`, `CountReplicas` are Kubernetes; `SyncStatefulSet`
and `SyncPod` are the informers, of which only the first starts a pass. One
certificate stands for signer, bundle and target.

**OperatorProcess.** The process of the operator as its own subject. `Start`,
`Build`, `Write`, `Prune`, `Abandon` are the reconcile that each start runs once;
the NetworkPolicies in `own` decide (`ReachesAPIServer`, `WebhookReachable`)
whether the next request arrives, and every other controller depends on it. Any
write may fail; `missed` remembers that the one for the API server did. The
one composed here is the zone labelling controller: `Reconcile` reads the node,
`annotatePodWithAvailabilityZone` patches the pod, `RunContainers` passes the
init container.

**Deployment** composes the modules that have no state of their own into the way
from a CR to what runs, for a TempoStack and a TempoMonolithic of the same name:

| Module | Models |
|---|---|
| `Types` | the fields of the specs and feature gates that decide about control; `IsProjectConfig` is the validation of the gates |
| `StorageParams` | `internal/handlers/storage`: credential mode, validation and parameters from the keys of a Secret, CA key of a ConfigMap |
| `TempoStackWebhook`, `TempoMonolithicWebhook` | defaults and validations, one operator per Go function |
| `Ports` | the ports of `manifestutils/constants.go`, each named once |
| `NetworkPolicies` | the policies of operands and operator, and what Kubernetes makes of a set of policies (`MayConnect`) |
| `ManifestUtils`, `Manifests`, `MonolithicManifests` | builders: an object is [kind, name, items, refs, ports, selects, cert]; refs are the (kind, name, key) it mounts or names |

A pass is one step there (`Reconcile`): admission of the finalizer, then CCO,
storage, tenants, TLS profile and build in the order of the code, each ending it
with its kind of error; the panics of the builders are results like others. The
environment `env` is what a pass looks up: Secrets, ConfigMaps, accounts, the TLS
profile, and whether the tenants file of the last pass can be read back. `Servers`
and `Calls` say who listens where, with or without TLS, and who connects.

Simplifications are stated at the head of each module. All modules but `Deployment`
follow one CR.

## 3. Runs

| Run | Specification | Checks | Bounds |
|---|---|---|---|
| TempoStackSafety | `Spec` | `TypeOK`, `WriterHasFinalizer`, `FinalizerFirst`, `PrunesOnlyUnmanaged` | a Deployment and a ClusterRole, both listed for pruning and deleted also by others, gateway off or on, valid or missing secret, two changes by users or third parties, one failed request or restart, one re-list |
| TempoStackConverges | `FreshFairSpec` | `Converges`, `StatusSettles`, `Lifecycle` (refinement), `OrphanFree` | the ingester StatefulSet, with an immutable field that changes, and a ClusterRole; valid or missing secret; two changes, one fault |
| CertPass | `FreshFairSpec` | `TypeOK`, `NeverOutlivesSigner`, `PassTrusts`, `Repaired` | one component, a CA that is replaced within the horizon, one deletion or edit, one failed write or restart at any point |
| CertPrompt | `PromptSpec` | `NeverExpired`, `BundleCovers` | two components, the default proportions (refresh at 80%), 62 units of time: two CA rotations and a dozen renewals; one disturbance |
| UpgradeSafety | `Spec` | `TypeOK`, `VersionHonest`, `VolumesOwned` | one step of each kind, one fault anywhere, one restart with any newer version |
| UpgradeCompletes | `FairSpec` | `UpgradeCompletes`, `RevertsOnlyOnError` | a step on the spec, CRs that are new, old or current, a user edit, a fault, a restart with any version, downgrades |
| StatusSafety | `Spec` | `TypeOK`, `OneCondition`, `MapsAgree` | two components with a pod each, two changes while they are listed, two faults |
| StatusOrdered | `OrderedSpec` | `ReadyIsTrue` | one pod through three changes, one fault |
| Deployment | `Spec` | `TypeOK`, `ReferencesResolve`, `Connected`, `OnlyEntryPoints`, `AcceptedDeploys`, `OwnWritesAdmitted`, `DeletionNotBlocked` | two CRs, three sets of gates (default, OpenShift, all encryption off), three creations, deletions or edits out of 41 single-feature edits, one of 13 changes of the environment or a restart with other gates |
| Operator | `Spec` | `AccessKept`, `MonitoringFollows`, `ZoneOfNode`, `WebhookServed`, `PodsStart` | two restarts at any step with monitoring on or off, one failed write of any object, an API server on port 6443 or 443 that moves once, a zone-aware pod on one of two nodes, one of which is labelled late |
| Monolithic | `Spec` | `TypeOK`, `ServesStated`, `Lifecycle` (refinement), `ConditionsSettle` | a gateway in OpenShift mode, with a ClusterRole and its binding, certificates valid for two units and renewed after one, a horizon of three, and two disturbances: edits, a deletion, broken or repaired lookups, pod failures, failed requests of a finalization, a write, a prune or a status update, restarts |
| MonolithicRotation | `Spec` | `ServesValid`, violated | as Monolithic, `management` unset: a finding, section 5 |

The bounds are on disturbances, not on the operator: between two disturbances it
takes as many steps and passes as it likes. Each hazard needs one or two
disturbances at the right moment (a deletion during a pass; a failure between two
writes; an edit while caches lag), and all moments are explored. In `Deployment`
the creation of the CR leaves two edits: every pair of features is explored under
every set of gates and every single change of the environment. What is built
depends on the spec alone, so longer sequences of edits only add combinations of
three features or more. Versions of the
CR (`RVs`) wrap around; the instances keep them large enough for a stale
copy not to be taken for the current one within a pass. UIDs do not; `MaxUIDs` bounds
the incarnations of an object, and is not reached in `TempoStackConverges`.
`CHECK_DEADLOCK FALSE` is right everywhere: an operator with an empty queue and a
cluster without changes stop.

**Fairness.** The worker takes the next step of a pass and picks up a queued
request, informers deliver, Kubernetes controllers (garbage collection, pods,
jobs) act, and time advances: goroutines and controllers that run as long as the
operator does. Users, third parties, failures and restarts owe nothing and are
finite. In `Deployment` only the deletion of a CR is fair, in `OperatorProcess`
Kubernetes restarts the process and the kubelet starts containers, but nobody has
to label a node or create a pod. A request that failed is retried because
controller-runtime puts it back, which is an assignment in the model and no assumption.

**Restricted specifications.** Some properties hold only for part of the
behaviours of `Spec`, and the restriction is the content of the result.
`FreshSpec` (controller): listings that decide about deletion are read from
caches that have caught up. `FreshSpec` (certificates): a pass starts from fresh
caches. `PromptSpec`: work is done before the clock advances, since no controller
can keep a deadline it sleeps through. `OrderedSpec`: the pod informer is ahead
of the workload informers. In `TempoMonolithic` the constant `InOrder` is the
same, `FreshLists` is the `FreshSpec` of the controller, and `Faulty` names the requests
that fail. `Deployment` excludes known
defects by name (`KnownUnresolved`, `KnownUnmounted`, `KnownDangling`, `KnownBroken`,
`KnownOpen`, `MonoOpen`, `KnownToFail`). Section 5 shows what happens without them.

## 4. Proofs

| Module | Theorem | Statement |
|---|---|---|
| `TempoStackController_proofs` | `TypeCorrect`, `WriterSafe`, `FinalizerPrecedes` | `Spec => []TypeOK`, `[]WriterHasFinalizer`, `[]FinalizerFirst` |
| | `FinalizerComplete` | `FreshSpec => OrphanFree` |
| | `PruneSafe` | `Spec => PrunesOnlyUnmanaged` |
| | `LifecycleSteps` | `FreshSpec => L!Steps`: the initial states and steps of `StackLifecycle` |
| `CertRotation_proofs` | `CertTypeCorrect`, `WithinSigner` | `Spec => []TypeOK`, `[]NeverOutlivesSigner` |
| | `PassLeavesTrust` | `FreshSpec => PassTrusts` |
| | `RotationCovers` | `FreshSpec => []BundleCovers`, if no request fails and nobody deletes the bundle |
| | `QuickNeverExpires` | `PromptSpec => []NeverExpired`, under `RotationMargins` |
| `Upgrade_proofs` | `UpgradeTypeCorrect` | `Spec => []TypeOK` |
| | `VersionsHonest`, `SuccessNeverReverts` | `Spec => []VersionHonest`, `RevertsOnlyOnError`, if pods can be listed |
| | `VolumesChowned` | `Spec => []VolumesOwned`, if also every CR starts with a version |
| `TempoStackStatus_proofs` | `StatusTypeCorrect`, `ConditionsExclusive`, `ConditionMatchesMaps` | `Spec => []TypeOK`, `[]OneCondition`, `[]MapsAgree` |
| `OperatorProcess_proofs` | `AccessSafe` | `Spec => []AccessKept` |
| | `MonitoringSafe`, `ZoneSafe` | `Spec => []MonitoringFollows`, `[]ZoneOfNode` |
| `TempoMonolithic_proofs` | `MonolithicTypeCorrect` | `Spec => []TypeOK` |
| | `MonolithicLifecycle` | `Spec => L!Steps`, if `FreshLists` |
| | `ServesValidCertificates` | `Spec => []ServesStated`, under `CheckMargin` |
| `Deployment_proofs` | `TypeCorrect`, `OwnWrites`, `AdmittedDeploys`, `EntryPoints` | `Spec => []TypeOK`, `[]OwnWritesAdmitted`, `[]AcceptedDeploys`, `[]OnlyEntryPoints` |
| | `ConnectedSafe` | `Spec => []Connected`, if HTTP and gRPC encryption are gated alike |
| `References_proofs` | `ReferencesSafe` | `Spec => []ReferencesResolve`, if encryption comes with built-in certificate management |

They hold for all sets of objects, components, pods, versions, steps, specs, edits,
gates and environments, and all bounds, under the `ASSUME`s of the modules: types of
the constants, and values for "absent" that are no objects. Every inductive invariant
named below was checked by TLC on the instance of the corresponding run first.

*Controller.* `WriterHasFinalizer` is not inductive: it depends on what a stale
cache can still show. `IInv` adds `CRStreamInv` (the cache and the pending events
end in the current CR; a version with the finalizer and without a deletion
timestamp is only visible while the finalizer is there; deletion timestamps never
disappear), `ObjStreamInv` and `FinalizerSeesDeletion`. The pass may hold an old
copy, but the finalizer goes only by the worker's own hand, after the deletion
was seen, and from then on the cache shows nothing older. `FinalizerComplete`
adds `FinalizeCovers`: what is not deleted yet is still on the list.
`LifecycleSteps` maps each action to one of `StackLifecycle` or to a stutter, with
`CopyInv` (a CR that is being deleted has the finalizer, and a pass that registers or
removes it has read a copy that calls for it). `PruneSafe` is
about listings of any age, with third parties that delete what they like. A Delete names an
object and not an incarnation, so the claim is about incarnations: `IncarnationOrder`
says that they are numbered in the order of creation and that caches and events follow
that order; `PruneInv`, that an entry of the prune list names an object that is not wanted,
or an incarnation that has been replaced already, or the latest one, which the pass has
still to come to and will then take off the list. What may be hit by mistake is therefore
younger than the listing, and `TempoStackPruneRace` shows that it can be.

*Certificates.* `NoneOutlives` extends the bound to cached and built
certificates. `PassTrusts` needs that names identify CAs (`NamesUnique`), that
what a pass built is consistent (`BuiltTrusts`), that what it has not written is
as it was read (`UnwrittenAsRead`), and that what it wrote is what it built
(`WrittenAsBuilt`), each up to deletion by a third party. `RotationCovers` is about
the moments between the writes: `CoverInv` says that the bundle about to be written
covers whatever the old one covers, and that the order signer, bundle, certificates
is kept. `QuickNeverExpires` follows the deadline through the parts: nothing is in
the last fifth of its validity, or a check or a pass is under way that will find it
(`ExpiryInv`). `RotationMargins` asks for a refresh before the end, a CA whose last
fifth outlasts a component certificate, and a check within the last fifth of one;
the operator's defaults have all three.

*Upgrade.* `CopiesHonest` (cache and copies are honest and at least as old as the
CR) and `StepsRecorded` (a step leaves the list only when it is done, between the
patches the spec already has all of them). `SuccessNeverReverts` adds that copies
of the CR agree up to the upgrade and that a pass that has not failed is past it.
`VolumesChowned` ties ownership to versions: volumes of root belong to a CR older
than the chown step, a finished job has changed them, and only a CR without a
readable version has none. A CR without a version is excluded, because
`UpgradeFirstPass` shows that it is not upgraded.

*Status.* `OneCondition` needs `CopiesHaveOne`: the early return of
`UpdateCondition` hands back the copy's conditions.

*Operator.* `AccessInv`: the policy for the API server is there before the others, or
precedes them in what is still to be written, or could not be written (`missed`), and
where it exists it admits the server or is the one for port 6443, to which discovery
falls back. Nothing is assumed of which requests fail or where the server listens; the
two cases in which the operator locks itself out are in the statement, and section 5
shows that they occur. `ZoneInv` carries the zone
from the read of the node over the patch to the start of the container, for pods
whose names are not used again.

*TempoMonolithic.* `HeldInv` says what a pass knows of the CR it works on. With
`FinalizeCovers` (what a finalization has not deleted is on its list, or one of its
requests failed and the finalizer stays) it suffices for the steps of the abstract
lifecycle. `ServesInv` is a chain: a stored
certificate is carried by the pass under way, or by the StatefulSet, or a pass is
ahead, or the condition ConfigurationError says why not (`PassCarries`, `Carried`), and
the next check comes before the stored one is over (`CheckNear`, `Answered`, `InTime`).
The statement covers CRs while they say `management: Managed`; for an unset field it is
false, which is the finding of section 5.

*Deployment.* `AdmissionInv`: at most one of the two kinds exists, stored specs are
of their CRD and have their defaults, and a CR written under the present gates and
objects is one that the webhooks would accept again, unchanged. It rests on lemmas
about the defaulting webhook for every spec: `DefaultIdempotent`, where size,
replication factor and replicas depend on one another, and `DefaultPromises`.
`AdmittedDeploys` then goes through the stages of a pass. `EntryPoints` holds of
whatever a stack is built from: an ingress rule that selects pods of other namespaces
comes from a relation with the cluster, of which there are only those of the entry
points and, behind a gateway too, that of Jaeger Query. `ConnectedSafe` is the other direction. Each caller has a relation or a common
policy with its callee at both ends, and both ends decide alike on TLS
(`HTTPSValue`, `ReceiverTLS`); `DeployedInv` says that what is deployed was built from
gates that are a profile and from a spec with receivers of their own TLS or a gateway,
not both. That is where equal gates are needed: see section 5.

*References.* `ResolvedInv`: an admitted spec is coherent (`Coherent`: no Ingress for
a UI that is off, no datasource behind a gateway, no custom account for an OpenShift
gateway), which outlives changes of gates and environment since these validations look
at neither; and what is deployed was built from sound parameters (`Sound`: encryption
has its certificates, and what the pods read of the storage is in the Secret and
ConfigMap of the pass or in the credentials of a CredentialsRequest). `StackStorage`
and `MonoStorage` derive the latter from the validation of the Secret in each credential
mode, `StackRefs`, `StackFits`, `MonoRefs` and `MonolithicFits` then go through the
builders, one lemma for each kind of object. A CredentialsRequest goes only with its CR,
so that parameters stay sound while later passes fail. Without built-in certificate
management the Secrets are the user's to make (`projectconfig_types.go:186`) and not
part of the model, hence the condition.

Only model-checked: everything about liveness (`Converges`, `StatusSettles`,
`Departs` in `Lifecycle`, `Repaired`, `UpgradeCompletes`, `ReadyIsTrue`,
`ConditionsSettle`, `WebhookServed`, `PodsStart`, `DeletionNotBlocked`), which is
out of reach of the prover.

## 5. Where code and expectations disagree

**The finding of the list of runs.** `MonolithicRotation`: the certificate controller
looks only at CRs with `management: Managed`; the TempoMonolithic controller creates
certificates also when the field is unset, and defaults it in memory only. With
the field unset the certificate in use expires.

**Further configurations**, outside the list of runs. Each ends in a counterexample;
some show defects, others why a restriction of section 3 is needed.

| Configuration | Module | What it shows |
|---|---|---|
| `TempoStackLeftovers` | MCTempoStackController | kinds missing from the list of owned objects (ConfigMaps, Secrets, ServiceAccounts, StatefulSets) are never pruned, although `tempostack_create_or_update.go:163` says "Add all resources where the operator can conditionally create an object." |
| `TempoStackOrphanStaleCache` | MCTempoStackController | `finalize` misses a ClusterRole that is not in the cache yet |
| `TempoStackPruneRace` | MCTempoStackController | `PrunesNothingWanted`: prune deletes by name the object just re-created under another UID; if events are slow each time, the next pass does the same again |
| `TempoStackStaleListing` | MCTempoStackController | an Ingress that reaches the cache after the pass that dropped it is not pruned |
| `TempoStackClusterRoleLost` | MCTempoStackController | a deleted ClusterRole is no event: it has no owner |
| `TempoStackRelist` | MCTempoStackController | a deletion seen only by a re-list is dropped by the predicate |
| `CertSignerChanges` | MCCertRotation | certificates of the previous CA are kept, although `options.go:44` lists a changed CA as a reason to renew |
| `UpgradeListFails` | MCUpgrade | if listing the pods fails after a failed upgrade step, the empty status is taken for that of a new CR (`status.go:16`) and the running version is recorded; the step is never repeated |
| `UpgradeIngester` | MCUpgrade | the ingester deleted by a step (`v0_5_0.go:14`: "which will be recreated in the reconcile loop") stays away if a later request of the upgrade fails, since that is a terminal error |
| `UpgradeFirstPass` | MCUpgrade | an operator replaced before the first status write leaves a CR that is not upgraded |
| `UpgradeReverts` | MCUpgrade | a pass on an old copy fails on the existing job and writes the old version back |
| `StatusGateway` | MCTempoStackStatus | the pods of the gateway do not count for Ready ("all components are ready", `tempostack_types.go:408`) |
| `StatusNoPods` | MCTempoStackStatus | Ready before there are pods |
| `StatusLost` | MCTempoStackStatus | a failed listing erases all conditions, without a retry |

Variations of `Operator.cfg`, `Monolithic.cfg`, `StatusOrdered.cfg` and `Deployment.cfg`:

| Change | Violated | What it shows |
|---|---|---|
| `INVARIANTS AccessSurvives`, `MaxMoves = 0` | it | a failed write of the policy for the API server is logged, deny-all follows, and the operator is locked out, also after a restart; and so it is after a failed discovery if the server is not on port 6443. The comment at `cmd/start/main.go:192-193` says the reconcile "is only used for creating ServiceMonitor and PrometheusRules" |
| `INVARIANTS AccessSurvives` | it | the policy holds the addresses found at start-up, and the server moves |
| `Gates <- MCPolicyGates` | `WebhookServed` | policies are not pruned when the gate is switched off, and a half-written set stays |
| `Pods0 = {i0}`, `Reused = {i0}`, `INVARIANTS ZoneOfReused` | it | the patch by name gives a re-created StatefulSet pod the zone of its predecessor's node |
| `InitialLabels <- MCEmptyLabels` | `PodsStart` | a label with an empty value is neither annotated nor retried |
| `InOrder = FALSE`, `MaxDisturbances = 0` (`Monolithic.cfg`) | `ConditionsSettle` | a StatefulSet event ahead of its pod leaves a stale condition |
| `FreshLists = FALSE` (`Monolithic.cfg`) | `Lifecycle` | a ClusterRole that `finalize` does not find in its cache outlives the CR |
| `PROPERTIES ConditionsFollow` (`Monolithic.cfg`) | it | a configuration error about an OIDC secret, the base domain or the TLS profile is terminal, and no watch tells when it is repaired (or comes up) |
| `INVARIANTS ServesWhenRepaired`, `MaxTime = 4` (`Monolithic.cfg`) | it | for the same reason the pods keep an expired certificate after the repair: the rotation stored a new one, the pass ended before the StatefulSet, and the checks find nothing to renew until that one is old, too |
| `SPECIFICATION FairSpec` (`StatusOrdered.cfg`) | `ReadyIsTrue` | a workload event ahead of its pod leaves a wrong Ready condition |
| `PROPERTIES CookieKept` (`Deployment.cfg`) | it | a read-back of tenants.yaml that fails, or finds nothing in the cache, is logged as "expected during the first reconcile" (`common.go:247-251`), and a new cookie secret logs all users out |
| `INVARIANTS CredentialsPruned` (`Deployment.cfg`) | it | a CredentialsRequest stays when the CCO mode is left, although the comment at `tempostack_create_or_update.go:41` says "we need to clean up resources" |
| `INVARIANTS TLSProfileSet` (`Deployment.cfg`) | it | when the cluster's TLS profile cannot be read, a TempoStack is built with an empty one (the `case` at `tempostack_create_or_update.go:92-106` is empty), a TempoMonolithic is not |
| `Profiles <- MCMixed` (`Deployment.cfg`) | `Connected` | with HTTP encryption and gRPC encryption gated differently, gateway and receivers disagree on TLS |

**Defects excluded by name in `Deployment`.** Replacing one of these operators by the
empty set or `FALSE` gives the counterexample.

* `KnownUnresolved`: receiver TLS with a CA and no certificate, with service-ca, mounts a
  Secret without a name; the key file of static GCS credentials is not validated.
* `KnownUnmounted`: with short-lived S3 credentials the CA and the client certificate of the
  storage are configured and not mounted.
* `KnownDangling`: the querier's `grpc` and the discovery Service's `grpclb` target
  ports are ports of no container.
* `KnownBroken`: the gateway of a TempoMonolithic speaks plain gRPC to a receiver that
  was given TLS, and has an upstream for OTLP/HTTP when that receiver is disabled.
* `KnownOpen`, `MonoOpen`: behind the gateway of a TempoStack the NetworkPolicies let every
  namespace to the ports of Jaeger Query (`networkpolicies/components.go:378-393`); in the
  pod of a TempoMonolithic Tempo's API and tempo-query listen on all addresses. Its gRPC
  receiver gets no address behind a gateway with HTTP encryption
  (`monolithic/configmap.go:302-310`), where Tempo's default applies; it demands TLS then.
* `KnownToFail`: a pass panics on a storage CA for Azure or GCS, on resources
  for `tempo-query` alone, and on static tenants without a complete OIDC section; it
  fails on tracing without a usable OTLP endpoint. All of them pass admission.

## 6. Plan

Every safety invariant and action property of the runs has a theorem. The conditions
under which some hold (section 4) are those the counterexamples of section 5 call for.

Models that could follow: two CRs of the same name in two namespaces, whose
upgrades list StatefulSets without a namespace (`v0_11_0.go:43`); the
check-then-act race of the name conflict between a TempoStack and a
TempoMonolithic (`validations.go:33-52`), which needs caches in `Deployment`.

**Not modelled.** Flags, must-gather and manifest output (`cmd`), metrics of CRs,
logging and environment parsing: input and output only. Generated code
(`zz_generated.deepcopy.go`). Of the manifests: resources, affinity, labels, timing
of probes and the text of Tempo's configuration, because no property depends on
them. Of the TLS profile: names of ciphers. Of the tenants: their number.

## 7. Running

    tlc -workers 2 -config TempoStackSafety.cfg MCTempoStackController
    tlc -workers 2 -config Deployment.cfg MCDeployment
    tlapm TempoStackController_proofs.tla
    tlapm Deployment_proofs.tla
    tlapm References_proofs.tla
